---------------------------- MODULE NetlogProofs ----------------------------
(***************************************************************************)
(* The safety properties of Netlog, for any devices, keys, limits and      *)
(* windows, and any number of events, failures and ticks of the clock.     *)
(***************************************************************************)
EXTENDS Netlog, FiniteSetTheorems, TLAPS

(* Functions of alarm ids. *)
Stored == UNION {[D -> Row] : D \in SUBSET Ids}
Begun == [count : 1 .. MaxEvents, last : Times]
History == UNION {[D -> Begun] : D \in SUBSET Ids}

StoreInProgress ==
  [step : {"idle", "batch", "counters"}, final : BOOLEAN,
   todo : SUBSET (Keys \cup Devices), staged : Stored]

TypeInv ==
  /\ clock \in Times /\ faults \in 0 .. MaxFaults /\ handled \in 0 .. MaxEvents
  /\ open \in [Keys -> Entry \cup {None}] /\ Cardinality(Held) <= MaxKeys
  /\ mem \in [Devices -> Nat] /\ received \in [Devices -> Nat]
  /\ rows \in Stored /\ begun \in History /\ tx \in StoreInProgress
  /\ \A k \in Held : open[k].count <= handled
  /\ \A d \in Devices : mem[d] <= handled

(* An alarm in memory is the last one of its key, with the events that     *)
(* were counted into it; the ones that were lost are not in memory.        *)
MemoryInv ==
  /\ \A k \in Held :
       /\ Id(k) \in DOMAIN begun \ gone
       /\ begun[Id(k)].count = open[k].count /\ begun[Id(k)].last = open[k].last
  /\ \A i \in DOMAIN begun :
       i[2] <= clock /\ (i[1] \in Held => i[2] <= open[i[1]].born)
  /\ gone \subseteq DOMAIN begun

StoredInv ==
  \A i \in DOMAIN rows :
    i \in DOMAIN begun /\ rows[i].count <= begun[i].count

(* A row that the transaction has written holds the count of the alarm in  *)
(* memory.                                                                 *)
WrittenRow(i) ==
  /\ i[1] \in Dirty /\ i = Id(i[1])
  /\ tx.staged[i].count = open[i[1]].count

BatchInv ==
  /\ tx.step = "batch" =>
       /\ tx.todo \subseteq Dirty
       /\ \A i \in DOMAIN tx.staged : WrittenRow(i)
       /\ \A k \in Dirty : \/ k \in tx.todo \/ open[k].born \in Missing
                           \/ Id(k) \in DOMAIN tx.staged
  /\ tx.step = "counters" => tx.todo \subseteq Devices /\ Dirty = {}

(* An alarm that is in nobody's memory has been quiet for the window, or   *)
(* was cut short.                                                          *)
QuietInv ==
  \A i \in DOMAIN begun : i \notin cut =>
    \/ i[1] \in Held /\ Id(i[1]) = i
    \/ begun[i].last + Window <= clock

NetlogInv ==
  /\ TypeInv /\ MemoryInv /\ StoredInv /\ BatchInv /\ EventsAreKept
  /\ QuietInv /\ RunsAreApart

-----------------------------------------------------------------------------
(* Facts that several steps need. *)

LEMMA IdPairs ==
  /\ \A i \in Ids : i[1] \in Keys /\ i[2] \in Times /\ i = <<i[1], i[2]>>
  /\ \A k \in Keys, t \in Times : <<k, t>> \in Ids
BY DEF Ids

LEMMA HeldFacts ==
  ASSUME TypeInv
  PROVE  /\ Held \subseteq Keys /\ IsFiniteSet(Held) /\ Dirty \subseteq Held
         /\ \A k \in Held : open[k] \in Entry /\ Id(k) \in Ids
         /\ \A k \in Keys \ Held : open[k] = None
<1>1. Held \subseteq Keys /\ Dirty \subseteq Held
  BY DEF Held, Dirty
<1>2. IsFiniteSet(Held)
  BY <1>1, NetlogAssumption, FS_Subset
<1>3. \A k \in Held : open[k] \in Entry
  BY DEF TypeInv, Held
<1>4. \A k \in Held : Id(k) \in Ids
  BY <1>1, <1>3, IdPairs DEF Id, Entry
<1> QED
  BY <1>1, <1>2, <1>3, <1>4 DEF Held

LEMMA StoredFacts ==
  ASSUME NEW f \in Stored
  PROVE  /\ DOMAIN f \subseteq Ids /\ f \in [DOMAIN f -> Row]
         /\ \A i \in DOMAIN f : f[i] \in Row
BY DEF Stored

LEMMA StoredIntro ==
  ASSUME NEW D \in SUBSET Ids, NEW f \in [D -> Row]
  PROVE  f \in Stored /\ DOMAIN f = D
BY DEF Stored

LEMMA HistoryFacts ==
  ASSUME NEW f \in History
  PROVE  /\ DOMAIN f \subseteq Ids /\ f \in [DOMAIN f -> Begun]
         /\ \A i \in DOMAIN f : f[i] \in Begun
BY DEF History

LEMMA HistoryIntro ==
  ASSUME NEW D \in SUBSET Ids, NEW f \in [D -> Begun]
  PROVE  f \in History /\ DOMAIN f = D
BY DEF History

LEMMA EmptyTyped == <<>> \in Stored /\ <<>> \in History /\ DOMAIN <<>> = {}
<1>1. <<>> \in [{} -> Row] /\ <<>> \in [{} -> Begun] /\ DOMAIN <<>> = {}
  OBVIOUS
<1> QED
  BY <1>1, StoredIntro, HistoryIntro

LEMMA IdleTyped ==
  /\ Idle \in StoreInProgress
  /\ Idle.step = "idle" /\ Idle.todo = {}
BY EmptyTyped DEF Idle, StoreInProgress

LEMMA InitInv == Init => NetlogInv
<1> SUFFICES ASSUME Init PROVE NetlogInv
  OBVIOUS
<1>1. Held = {} /\ Dirty = {}
  BY DEF Init, Held, Dirty
<1>2. Cardinality(Held) = 0
  BY <1>1, FS_EmptySet
<1>3. TypeInv
  BY <1>1, <1>2, EmptyTyped, IdleTyped, NetlogAssumption DEF Init, TypeInv, Times
<1>4. DOMAIN begun = {} /\ DOMAIN rows = {} /\ tx.step = "idle"
  BY EmptyTyped, IdleTyped DEF Init
<1> QED
  BY <1>1, <1>3, <1>4 DEF Init, NetlogInv, MemoryInv, StoredInv, BatchInv,
     EventsAreKept, QuietInv, RunsAreApart

-----------------------------------------------------------------------------
(* What a step leaves alone stays right. *)

LEMMA MemoryKept ==
  ASSUME NetlogInv, UNCHANGED <<open, begun, gone, clock>>
  PROVE  /\ MemoryInv' /\ Held' = Held /\ Dirty' = Dirty
         /\ \A k \in Keys : Id(k)' = Id(k)
<1>1. Held' = Held /\ Dirty' = Dirty
  BY DEF Held, Dirty
<1>2. \A k : Id(k)' = Id(k)
  BY DEF Id
<1> QED
  BY <1>1, <1>2 DEF NetlogInv, MemoryInv

LEMMA StoredKept ==
  ASSUME NetlogInv, UNCHANGED <<open, begun, gone, rows>>
  PROVE  StoredInv' /\ EventsAreKept'
BY DEF NetlogInv, StoredInv, EventsAreKept, Id

LEMMA ApartKept ==
  ASSUME NetlogInv, UNCHANGED <<open, begun, cut, clock>>
  PROVE  QuietInv' /\ RunsAreApart'
BY DEF NetlogInv, QuietInv, RunsAreApart, Id, Held

LEMMA BatchKept ==
  ASSUME NetlogInv, UNCHANGED <<open, rows, tx>>
  PROVE  BatchInv'
BY DEF NetlogInv, BatchInv, WrittenRow, Dirty, Held, Id

LEMMA TickInv ==
  ASSUME NetlogInv, Tick
  PROVE  NetlogInv'
<1>1. /\ clock' \in Times /\ clock' = clock + 1 /\ clock \in Nat
      /\ UNCHANGED <<open, mem, tx, rows, received, faults, begun, cut, gone,
                     handled>>
  BY NetlogAssumption DEF Tick, ghosts, NetlogInv, TypeInv, Times
<1>2. Held' = Held /\ Dirty' = Dirty /\ \A k : Id(k)' = Id(k)
  BY <1>1 DEF Held, Dirty, Id
<1>3. TypeInv'
  BY <1>1, <1>2 DEF NetlogInv, TypeInv
<1>4. \A i \in DOMAIN begun :
        /\ i[1] \in Keys /\ i[2] \in Nat /\ begun[i].last \in Nat
  BY IdPairs, HistoryFacts DEF NetlogInv, TypeInv, Begun, Times
<1>5. MemoryInv'
  BY <1>1, <1>2, <1>4 DEF NetlogInv, MemoryInv
<1>6. QuietInv'
  BY <1>1, <1>2, <1>4, NetlogAssumption DEF NetlogInv, QuietInv
<1>7. RunsAreApart'
  BY <1>1 DEF NetlogInv, RunsAreApart
<1> QED
  BY <1>1, <1>3, <1>5, <1>6, <1>7, StoredKept, BatchKept DEF NetlogInv

-----------------------------------------------------------------------------
(* The steps of the transaction. *)

LEMMA StartInv ==
  ASSUME NetlogInv, NEW final \in BOOLEAN, Start(final)
  PROVE  NetlogInv'
<1>1. UNCHANGED <<clock, open, mem, rows, received, faults, begun, cut, gone,
                  handled>>
  BY DEF Start, ghosts
<1>2. /\ tx' \in StoreInProgress /\ tx'.step = "batch" /\ tx'.todo = Dirty
      /\ DOMAIN tx'.staged = {}
  <2>1. Dirty \subseteq Keys
    BY HeldFacts DEF NetlogInv
  <2>2. tx' = [step |-> "batch", final |-> final, todo |-> Dirty,
               staged |-> <<>>]
    BY DEF Start, Idle
  <2> QED
    BY <2>1, <2>2, EmptyTyped DEF StoreInProgress
<1>3. MemoryInv' /\ Held' = Held /\ Dirty' = Dirty
  BY <1>1, MemoryKept
<1>4. TypeInv'
  BY <1>1, <1>2, <1>3 DEF NetlogInv, TypeInv
<1>5. BatchInv'
  BY <1>2, <1>3 DEF BatchInv
<1> QED
  BY <1>1, <1>3, <1>4, <1>5, StoredKept, ApartKept DEF NetlogInv

(* A row is written with the count in memory, which is no smaller than the *)
(* stored one.                                                             *)
LEMMA WrittenCount ==
  ASSUME NetlogInv, NEW k \in Held
  PROVE  Written(k) \in Row /\ Written(k).count = open[k].count
<1>1. open[k].count \in 1 .. MaxEvents /\ open[k].last \in Times
  BY HeldFacts DEF NetlogInv, Entry
<1>2. CASE Id(k) \in DOMAIN rows
  <2> DEFINE old == rows[Id(k)]
  <2>1. /\ old.count \in 1 .. MaxEvents /\ old.last \in Times
        /\ old.count <= open[k].count
    BY <1>2, StoredFacts DEF NetlogInv, TypeInv, StoredInv, MemoryInv, Row
  <2>2. Written(k) = [count |-> Larger(old.count, open[k].count),
                      last |-> Larger(old.last, open[k].last)]
    BY <1>2 DEF Written
  <2>3. /\ Larger(old.count, open[k].count) = open[k].count
        /\ Larger(old.last, open[k].last) \in Times
    BY <1>1, <2>1, NetlogAssumption DEF Larger, Times
  <2> HIDE DEF old
  <2> QED
    BY <1>1, <2>2, <2>3 DEF Row
<1>3. CASE Id(k) \notin DOMAIN rows
  BY <1>1, <1>3 DEF Written, Row
<1> QED
  BY <1>2, <1>3

LEMMA InsertInv ==
  ASSUME NetlogInv, NEW k \in Keys, Insert(k)
  PROVE  NetlogInv'
<1> DEFINE staged == [i \in DOMAIN tx.staged \cup {Id(k)} |->
                        IF i = Id(k) THEN Written(k) ELSE tx.staged[i]]
<1>1. /\ UNCHANGED <<clock, open, mem, rows, received, faults, begun, cut, gone,
                     handled>>
      /\ tx.step = "batch" /\ k \in tx.todo
      /\ tx' = IF open[k].born \in Missing THEN [tx EXCEPT !.todo = tx.todo \ {k}]
               ELSE [tx EXCEPT !.todo = tx.todo \ {k}, !.staged = staged]
  BY DEF Insert, ghosts
<1>2. /\ k \in Dirty /\ k \in Held /\ Id(k) \in Ids
      /\ tx \in StoreInProgress /\ tx.staged \in Stored
      /\ Written(k) \in Row /\ Written(k).count = open[k].count
  BY <1>1, HeldFacts, WrittenCount
     DEF NetlogInv, TypeInv, BatchInv, StoreInProgress, Dirty
<1>3. /\ staged \in Stored /\ DOMAIN staged = DOMAIN tx.staged \cup {Id(k)}
      /\ staged[Id(k)] = Written(k)
      /\ \A i \in DOMAIN tx.staged \ {Id(k)} : staged[i] = tx.staged[i]
  <2>1. /\ DOMAIN tx.staged \cup {Id(k)} \in SUBSET Ids
        /\ staged \in [DOMAIN tx.staged \cup {Id(k)} -> Row]
    BY <1>2, StoredFacts
  <2> QED
    BY <2>1, StoredIntro
<1> HIDE DEF staged
<1>4. /\ tx' \in StoreInProgress /\ tx'.step = "batch"
      /\ tx'.todo = tx.todo \ {k}
      /\ \/ open[k].born \in Missing /\ tx'.staged = tx.staged
         \/ tx'.staged = staged
  BY <1>1, <1>2, <1>3 DEF StoreInProgress
<1>5. MemoryInv' /\ Held' = Held /\ Dirty' = Dirty /\ \A j \in Keys : Id(j)' = Id(j)
  BY <1>1, MemoryKept
<1>6. TypeInv'
  BY <1>1, <1>4, <1>5 DEF NetlogInv, TypeInv
<1>7. BatchInv'
  <2>1. tx'.todo \subseteq Dirty'
    BY <1>1, <1>4, <1>5 DEF NetlogInv, BatchInv
  <2>2. ASSUME NEW i \in DOMAIN tx'.staged
        PROVE  WrittenRow(i)'
    <3>1. CASE i = Id(k) /\ tx'.staged = staged
      <4>1. i[1] = k
        BY <3>1 DEF Id
      <4> QED
        BY <1>1, <1>2, <1>3, <1>5, <3>1, <4>1 DEF WrittenRow
    <3>2. CASE i \in DOMAIN tx.staged /\ tx'.staged[i] = tx.staged[i]
      <4>1. WrittenRow(i)
        BY <1>1, <3>2 DEF NetlogInv, BatchInv
      <4> QED
        BY <1>1, <1>5, <3>2, <4>1, HeldFacts DEF WrittenRow, NetlogInv
    <3> QED
      BY <1>3, <1>4, <3>1, <3>2
  <2>3. \A j \in Dirty' : \/ j \in tx'.todo \/ open'[j].born \in Missing
                         \/ Id(j)' \in DOMAIN tx'.staged
    BY <1>1, <1>3, <1>4, <1>5, HeldFacts DEF NetlogInv, BatchInv
  <2> QED
    BY <1>4, <2>1, <2>2, <2>3 DEF BatchInv
<1> QED
  BY <1>1, <1>5, <1>6, <1>7, StoredKept, ApartKept DEF NetlogInv

(* The rows as the transaction leaves them hold the count of every alarm   *)
(* in memory.                                                              *)
LEMMA StagedRows ==
  ASSUME NetlogInv, tx.step = "batch", tx.todo = {}, rows' = Staged
  PROVE  /\ rows' \in Stored /\ DOMAIN rows' = DOMAIN rows \cup DOMAIN tx.staged
         /\ \A i \in DOMAIN rows' :
              /\ i \in DOMAIN begun
              /\ rows'[i].count <= begun[i].count
              /\ i \in DOMAIN rows /\ rows[i].count = begun[i].count =>
                   rows'[i].count = begun[i].count
         /\ \A k \in Dirty : open[k].born \notin Missing =>
              Id(k) \in DOMAIN rows' /\ rows'[Id(k)].count = begun[Id(k)].count
<1>1. /\ DOMAIN rows \subseteq Ids /\ rows \in [DOMAIN rows -> Row]
      /\ DOMAIN tx.staged \subseteq Ids /\ tx.staged \in [DOMAIN tx.staged -> Row]
  BY StoredFacts DEF NetlogInv, TypeInv, StoreInProgress
<1>2. /\ rows' \in [DOMAIN rows \cup DOMAIN tx.staged -> Row]
      /\ \A i \in DOMAIN tx.staged : rows'[i] = tx.staged[i]
      /\ \A i \in DOMAIN rows \ DOMAIN tx.staged : rows'[i] = rows[i]
  BY <1>1 DEF Staged
<1>3. rows' \in Stored /\ DOMAIN rows' = DOMAIN rows \cup DOMAIN tx.staged
  BY <1>1, <1>2, StoredIntro
<1>4. ASSUME NEW i \in DOMAIN tx.staged
      PROVE  /\ i \in DOMAIN begun /\ rows'[i].count = begun[i].count
             /\ begun[i].count \in Nat
  <2>1. WrittenRow(i)
    BY DEF NetlogInv, BatchInv
  <2>2. i[1] \in Held /\ i \in DOMAIN begun /\ begun[i].count = open[i[1]].count
    BY <2>1 DEF WrittenRow, NetlogInv, MemoryInv, Dirty
  <2>3. open[i[1]].count \in Nat
    BY <2>2, HeldFacts DEF Entry, NetlogInv
  <2> QED
    BY <1>2, <2>1, <2>2, <2>3 DEF WrittenRow
<1>5. ASSUME NEW i \in DOMAIN rows \ DOMAIN tx.staged
      PROVE  i \in DOMAIN begun /\ rows'[i].count <= begun[i].count
  BY <1>2 DEF NetlogInv, StoredInv
<1>6. ASSUME NEW k \in Dirty, open[k].born \notin Missing
      PROVE  Id(k) \in DOMAIN tx.staged
  BY <1>6 DEF NetlogInv, BatchInv
<1> QED
  BY <1>2, <1>3, <1>4, <1>5, <1>6

LEMMA CommitInv ==
  ASSUME NetlogInv, Commit
  PROVE  NetlogInv'
<1>1. /\ UNCHANGED <<clock, mem, received, faults, begun, cut, gone, handled>>
      /\ tx.step = "batch" /\ tx.todo = {} /\ rows' = Staged
      /\ open' = [k \in Keys |-> IF open[k] = None THEN None
                                 ELSE [open[k] EXCEPT !.dirty = FALSE]]
  BY DEF Commit, ghosts
<1>2. /\ tx' \in StoreInProgress /\ tx'.step = "counters"
      /\ tx'.todo \subseteq Devices
  <2>1. tx' = [step |-> "counters", final |-> tx.final,
               todo |-> {d \in Devices : mem[d] > 0}, staged |-> <<>>]
    BY DEF Commit, Idle
  <2>2. tx.final \in BOOLEAN
    BY DEF NetlogInv, TypeInv, StoreInProgress
  <2> QED
    BY <2>1, <2>2, EmptyTyped DEF StoreInProgress
<1>3. /\ open' \in [Keys -> Entry \cup {None}]
      /\ \A k \in Held : /\ open'[k] \in Entry /\ ~ open'[k].dirty
                         /\ open'[k].born = open[k].born
                         /\ open'[k].count = open[k].count
                         /\ open'[k].last = open[k].last
      /\ \A k \in Keys \ Held : open'[k] = None
  <2>1. \A k \in Keys \ Held : open'[k] = None
    BY <1>1 DEF Held
  <2>2. ASSUME NEW k \in Held
        PROVE  /\ open'[k] \in Entry /\ ~ open'[k].dirty
               /\ open'[k].born = open[k].born
               /\ open'[k].count = open[k].count
               /\ open'[k].last = open[k].last
    <3>1. open[k] \in Entry /\ k \in Keys /\ open[k] # None
      BY HeldFacts DEF NetlogInv, Held
    <3>2. open'[k] = [open[k] EXCEPT !.dirty = FALSE]
      BY <1>1, <3>1
    <3> QED
      BY <3>1, <3>2 DEF Entry
  <2> QED
    BY <1>1, <2>1, <2>2, HeldFacts DEF NetlogInv
<1>4. Held' = Held /\ Dirty' = {} /\ \A k \in Held : Id(k)' = Id(k)
  <2>1. Held' = Held
    BY <1>3, NoneAssumption DEF Held
  <2> QED
    BY <1>3, <2>1 DEF Dirty, Id
<1>5. /\ rows' \in Stored
      /\ \A i \in DOMAIN rows' :
           /\ i \in DOMAIN begun
           /\ rows'[i].count <= begun[i].count
           /\ i \in DOMAIN rows /\ rows[i].count = begun[i].count =>
                rows'[i].count = begun[i].count
      /\ \A k \in Dirty : open[k].born \notin Missing =>
           Id(k) \in DOMAIN rows' /\ rows'[Id(k)].count = begun[Id(k)].count
      /\ DOMAIN rows \subseteq DOMAIN rows'
  BY <1>1, StagedRows
<1>6. TypeInv'
  BY <1>1, <1>2, <1>3, <1>4, <1>5 DEF NetlogInv, TypeInv
<1>7. MemoryInv'
  BY <1>1, <1>3, <1>4 DEF NetlogInv, MemoryInv
<1>8. StoredInv'
  BY <1>1, <1>5 DEF StoredInv
<1>9. BatchInv'
  BY <1>2, <1>4 DEF BatchInv
<1>10. EventsAreKept'
  <2> SUFFICES ASSUME NEW i \in DOMAIN begun, i[2] \notin Missing, i \notin gone
               PROVE  i \in DOMAIN rows' /\ rows'[i].count = begun[i].count
    BY <1>1, <1>5 DEF EventsAreKept
  <2>1. CASE i \in DOMAIN rows /\ rows[i].count = begun[i].count
    BY <1>5, <2>1
  <2>2. CASE open[i[1]] # None /\ Id(i[1]) = i /\ open[i[1]].dirty
    <3>1. i[1] \in Keys
      BY IdPairs, HistoryFacts DEF NetlogInv, TypeInv
    <3>2. i[1] \in Dirty /\ open[i[1]].born = i[2]
      BY <2>2, <3>1 DEF Dirty, Held, Id
    <3> QED
      BY <1>5, <2>2, <3>2
  <2> QED
    BY <2>1, <2>2 DEF NetlogInv, EventsAreKept
<1>11. QuietInv' /\ RunsAreApart'
  BY <1>1, <1>4 DEF NetlogInv, QuietInv, RunsAreApart
<1> QED
  BY <1>6, <1>7, <1>8, <1>9, <1>10, <1>11 DEF NetlogInv

-----------------------------------------------------------------------------
(* The end of a store, and of the process. *)

(* The process ends: what is not gone is stored. *)
LEMMA ForgetInv ==
  ASSUME NetlogInv, Forget,
         UNCHANGED <<clock, received, begun, handled>>,
         faults' \in 0 .. MaxFaults, rows' \in Stored, StoredInv',
         gone' \subseteq DOMAIN begun,
         \A i \in DOMAIN begun : i[2] \notin Missing /\ i \notin gone' =>
           i \in DOMAIN rows' /\ rows'[i].count = begun[i].count
  PROVE  NetlogInv'
<1>1. /\ open' = [k \in Keys |-> None] /\ mem' = [d \in Devices |-> 0]
      /\ tx' = Idle /\ cut' = cut \cup {Id(k) : k \in Held}
  BY DEF Forget
<1>2. Held' = {} /\ Dirty' = {}
  BY <1>1 DEF Held, Dirty
<1>3. Cardinality(Held') = 0
  BY <1>2, FS_EmptySet
<1>4. TypeInv'
  <2>1. \A d \in Devices : mem'[d] <= handled'
    BY <1>1 DEF NetlogInv, TypeInv
  <2> QED
    BY <1>1, <1>2, <1>3, <2>1, IdleTyped, NetlogAssumption DEF NetlogInv, TypeInv
<1>5. MemoryInv'
  BY <1>2 DEF NetlogInv, MemoryInv
<1>6. BatchInv'
  BY <1>1, IdleTyped DEF BatchInv
<1>7. EventsAreKept'
  BY DEF EventsAreKept, StoredInv
<1>8. QuietInv'
  BY <1>1 DEF NetlogInv, QuietInv
<1>9. RunsAreApart'
  BY <1>1 DEF NetlogInv, RunsAreApart
<1> QED
  BY <1>4, <1>5, <1>6, <1>7, <1>8, <1>9 DEF NetlogInv

(* What is in memory and unstored accounts for every event not stored. *)
LEMMA UnstoredIsDirty ==
  ASSUME NetlogInv, NEW i \in DOMAIN begun, i[2] \notin Missing, i \notin gone
  PROVE  \/ \E k \in Dirty : i = Id(k) /\ open[k].born = i[2]
         \/ i \in DOMAIN rows /\ rows[i].count = begun[i].count
<1>1. i[1] \in Keys
  BY IdPairs, HistoryFacts DEF NetlogInv, TypeInv
<1>2. CASE open[i[1]] # None /\ Id(i[1]) = i /\ open[i[1]].dirty
  BY <1>1, <1>2 DEF Dirty, Held, Id
<1> QED
  BY <1>2 DEF NetlogInv, EventsAreKept

(* store returns to the loop. *)
LEMMA BackToLoopInv ==
  ASSUME NetlogInv, tx' = Idle,
         UNCHANGED <<open, mem, cut, clock, received, begun, handled, gone>>,
         faults' \in 0 .. MaxFaults, rows' \in Stored, StoredInv',
         EventsAreKept'
  PROVE  NetlogInv'
<1>1. MemoryInv' /\ Held' = Held
  BY MemoryKept
<1>2. TypeInv'
  BY <1>1, IdleTyped DEF NetlogInv, TypeInv
<1>3. BatchInv'
  BY IdleTyped DEF BatchInv
<1> QED
  BY <1>1, <1>2, <1>3, ApartKept DEF NetlogInv

LEMMA FailedTyped ==
  ASSUME NetlogInv, Failed
  PROVE  faults' \in 0 .. MaxFaults
BY NetlogAssumption DEF Failed, NetlogInv, TypeInv

(* The store fails, or the process dies: unstored alarms stay or are gone. *)
LEMMA FailsInv ==
  ASSUME NetlogInv, Fails \/ Crash
  PROVE  NetlogInv'
<1>1. /\ Failed /\ UNCHANGED <<clock, rows, received, begun, handled>>
      /\ \/ Forget /\ gone' = gone \cup {Id(k) : k \in Dirty}
         \/ tx' = Idle /\ UNCHANGED <<open, mem, cut, gone>>
  BY DEF Fails, Crash, Return
<1>2. faults' \in 0 .. MaxFaults /\ rows' \in Stored /\ StoredInv'
  BY <1>1, FailedTyped DEF NetlogInv, TypeInv, StoredInv
<1>3. CASE Forget /\ gone' = gone \cup {Id(k) : k \in Dirty}
  <2>1. gone' \subseteq DOMAIN begun
    BY <1>3 DEF NetlogInv, MemoryInv, Dirty
  <2>2. \A i \in DOMAIN begun : i[2] \notin Missing /\ i \notin gone' =>
          i \in DOMAIN rows' /\ rows'[i].count = begun[i].count
    BY <1>1, <1>3, UnstoredIsDirty
  <2> QED
    BY <1>1, <1>2, <1>3, <2>1, <2>2, ForgetInv
<1>4. CASE tx' = Idle /\ UNCHANGED <<open, mem, cut, gone>>
  BY <1>1, <1>2, <1>4, StoredKept, BackToLoopInv
<1> QED
  BY <1>1, <1>3, <1>4

LEMMA CommitUnheardInv ==
  ASSUME NetlogInv, CommitUnheard
  PROVE  NetlogInv'
<1>1. /\ Failed /\ UNCHANGED <<clock, received, begun, handled, gone>>
      /\ tx.step = "batch" /\ tx.todo = {} /\ rows' = Staged
      /\ Forget \/ (tx' = Idle /\ UNCHANGED <<open, mem, cut>>)
  BY DEF CommitUnheard, Return
<1>2. /\ rows' \in Stored /\ DOMAIN rows \subseteq DOMAIN rows'
      /\ \A i \in DOMAIN rows' :
           /\ i \in DOMAIN begun
           /\ rows'[i].count <= begun[i].count
           /\ i \in DOMAIN rows /\ rows[i].count = begun[i].count =>
                rows'[i].count = begun[i].count
      /\ \A k \in Dirty : open[k].born \notin Missing =>
           Id(k) \in DOMAIN rows' /\ rows'[Id(k)].count = begun[Id(k)].count
  BY <1>1, StagedRows
<1>3. faults' \in 0 .. MaxFaults /\ StoredInv'
  BY <1>1, <1>2, FailedTyped DEF StoredInv
<1>4. \A i \in DOMAIN begun : i[2] \notin Missing /\ i \notin gone =>
        i \in DOMAIN rows' /\ rows'[i].count = begun[i].count
  BY <1>2, UnstoredIsDirty
<1>5. CASE Forget
  <2>1. gone' \subseteq DOMAIN begun
    BY <1>1 DEF NetlogInv, MemoryInv
  <2> QED
    BY <1>1, <1>2, <1>3, <1>4, <1>5, <2>1, ForgetInv
<1>6. CASE tx' = Idle /\ UNCHANGED <<open, mem, cut>>
  <2>1. EventsAreKept'
    BY <1>1, <1>2, <1>4 DEF EventsAreKept
  <2> QED
    BY <1>1, <1>2, <1>3, <1>6, <2>1, BackToLoopInv
<1> QED
  BY <1>1, <1>5, <1>6

LEMMA FinishInv ==
  ASSUME NetlogInv, Finish
  PROVE  NetlogInv'
<1>1. /\ UNCHANGED <<clock, rows, received, faults, begun, gone, handled>>
      /\ tx.step = "counters"
      /\ Forget \/ (tx' = Idle /\ UNCHANGED <<open, mem, cut>>)
  BY DEF Finish, Return
<1>2. /\ faults' \in 0 .. MaxFaults /\ rows' \in Stored /\ StoredInv'
      /\ Dirty = {} /\ gone' \subseteq DOMAIN begun
  BY <1>1 DEF NetlogInv, TypeInv, StoredInv, BatchInv, MemoryInv
<1>3. CASE Forget
  <2>1. \A i \in DOMAIN begun : i[2] \notin Missing /\ i \notin gone' =>
          i \in DOMAIN rows' /\ rows'[i].count = begun[i].count
    BY <1>1, <1>2, UnstoredIsDirty
  <2> QED
    BY <1>1, <1>2, <1>3, <2>1, ForgetInv
<1>4. CASE tx' = Idle /\ UNCHANGED <<open, mem, cut>>
  BY <1>1, <1>2, <1>4, StoredKept, BackToLoopInv
<1> QED
  BY <1>1, <1>3, <1>4

(* devices::flush, answered or not. *)
LEMMA FlushInv ==
  ASSUME NetlogInv, NEW d \in Devices, Flush(d) \/ FlushFails(d) \/ FlushUnheard(d)
  PROVE  NetlogInv'
<1>1. /\ UNCHANGED <<clock, open, rows, begun, cut, gone, handled>>
      /\ tx.step = "counters" /\ tx' = [tx EXCEPT !.todo = tx.todo \ {d}]
      /\ mem' = mem \/ mem' = [mem EXCEPT ![d] = 0]
      /\ received' = received \/ received' = [received EXCEPT ![d] = @ + mem[d]]
  BY DEF Flush, FlushFails, FlushUnheard, ghosts
<1>2. faults' \in 0 .. MaxFaults
  BY FailedTyped DEF Flush, FlushFails, FlushUnheard, NetlogInv, TypeInv
<1>3. /\ tx' \in StoreInProgress /\ tx'.step = "counters"
      /\ tx'.todo = tx.todo \ {d}
  BY <1>1 DEF NetlogInv, TypeInv, StoreInProgress
<1>4. /\ mem' \in [Devices -> Nat] /\ received' \in [Devices -> Nat]
      /\ \A x \in Devices : mem'[x] <= handled
  BY <1>1 DEF NetlogInv, TypeInv
<1>5. MemoryInv' /\ Held' = Held /\ Dirty' = Dirty
  BY <1>1, MemoryKept
<1>6. TypeInv'
  BY <1>1, <1>2, <1>3, <1>4, <1>5 DEF NetlogInv, TypeInv
<1>7. BatchInv'
  BY <1>1, <1>3, <1>5 DEF NetlogInv, BatchInv
<1> QED
  BY <1>1, <1>5, <1>6, <1>7, StoredKept, ApartKept DEF NetlogInv

-----------------------------------------------------------------------------
(* Datagrams *)

(* What handle does besides the alarms. *)
HandleRest(k) ==
  /\ tx = Idle /\ handled < MaxEvents
  /\ mem' = [mem EXCEPT ![DeviceOf[k]] = @ + 1]
  /\ handled' = handled + 1
  /\ UNCHANGED <<clock, tx, rows, received, faults, gone>>

LEMMA RestTyped ==
  ASSUME NetlogInv, NEW k \in Keys, HandleRest(k)
  PROVE  /\ handled \in Nat /\ handled' = handled + 1 /\ handled' \in 0 .. MaxEvents
         /\ mem' \in [Devices -> Nat] /\ \A d \in Devices : mem'[d] <= handled'
         /\ UNCHANGED <<clock, tx, rows, received, faults, gone>>
         /\ BatchInv'
<1>1. DeviceOf[k] \in Devices
  BY NetlogAssumption
<1>2. tx' = Idle
  BY DEF HandleRest
<1>3. BatchInv'
  BY <1>2, IdleTyped DEF BatchInv
<1> QED
  BY <1>1, <1>3, NetlogAssumption DEF HandleRest, NetlogInv, TypeInv

LEMMA EntryFacts ==
  ASSUME NEW e \in Entry
  PROVE  /\ e.born \in Times /\ e.count \in 1 .. MaxEvents /\ e.last \in Times
         /\ e.dirty \in BOOLEAN /\ e # None
BY NoneAssumption DEF Entry

LEMMA BegunFacts ==
  ASSUME NetlogInv, NEW i \in DOMAIN begun
  PROVE  /\ i \in Ids /\ i[1] \in Keys /\ i[2] \in Times /\ i = <<i[1], i[2]>>
         /\ begun[i].count \in 1 .. MaxEvents /\ begun[i].last \in Times
         /\ i[2] \in Nat /\ begun[i].last \in Nat /\ clock \in Nat
BY HistoryFacts, IdPairs DEF NetlogInv, TypeInv, Begun, Times

(* An alarm that leaves the memory, being stored, is stored with its       *)
(* count.                                                                  *)
LEMMA CleanIsStored ==
  ASSUME NetlogInv, NEW k \in Held, ~ open[k].dirty, open[k].born \notin Missing
  PROVE  Id(k) \in DOMAIN rows /\ rows[Id(k)].count = begun[Id(k)].count
<1>1. Id(k) \in DOMAIN begun /\ Id(k) \notin gone
  BY DEF NetlogInv, MemoryInv
<1>2. Id(k)[1] = k /\ Id(k)[2] = open[k].born
  BY DEF Id
<1> QED
  BY <1>1, <1>2 DEF NetlogInv, EventsAreKept

LEMMA CountInv ==
  ASSUME NetlogInv, NEW k \in Keys, HandleRest(k), k \in Held, Count(k)
  PROVE  NetlogInv'
<1> DEFINE e == [open[k] EXCEPT !.count = open[k].count + 1, !.last = clock,
                                !.dirty = TRUE]
           b == [count |-> begun[Id(k)].count + 1, last |-> clock]
<1>1. /\ open' = [j \in Keys |->
           IF j = k THEN e ELSE IF open[j] # None /\ Expired(j) THEN None ELSE open[j]]
      /\ begun' = [begun EXCEPT ![Id(k)] = b]
      /\ cut' = cut
  BY DEF Count
<1>2. /\ open[k] \in Entry /\ Id(k) \in DOMAIN begun /\ Id(k) \notin gone
      /\ begun[Id(k)].count = open[k].count
      /\ open[k].count <= handled /\ handled < MaxEvents /\ clock \in Times
  BY HeldFacts DEF NetlogInv, MemoryInv, TypeInv, HandleRest
<1>3. /\ e \in Entry /\ e.born = open[k].born /\ e.count = open[k].count + 1
      /\ e.last = clock /\ e.dirty
  <2>1. open[k].count + 1 \in 1 .. MaxEvents
    BY <1>2, EntryFacts, NetlogAssumption, RestTyped
  <2> QED
    BY <1>2, <2>1 DEF Entry
<1>4. b \in Begun /\ b.count = e.count /\ b.last = e.last
  BY <1>2, <1>3 DEF Begun, Entry
<1> HIDE DEF e, b
<1>5. /\ open' \in [Keys -> Entry \cup {None}] /\ open'[k] = e
      /\ \A j \in Keys \ {k} :
           \/ open'[j] = open[j]
           \/ open[j] # None /\ Expired(j) /\ open'[j] = None
  BY <1>1, <1>3 DEF NetlogInv, TypeInv
<1>6. /\ begun' \in History /\ DOMAIN begun' = DOMAIN begun /\ begun'[Id(k)] = b
      /\ \A i \in DOMAIN begun \ {Id(k)} : begun'[i] = begun[i]
  <2>1. begun \in [DOMAIN begun -> Begun] /\ DOMAIN begun \subseteq Ids
    BY HistoryFacts DEF NetlogInv, TypeInv
  <2>2. begun' \in [DOMAIN begun -> Begun]
    BY <1>1, <1>4, <2>1
  <2> QED
    BY <1>1, <1>2, <2>1, <2>2, HistoryIntro
<1>7. /\ Held' \subseteq Held /\ k \in Held'
      /\ \A j \in Held' \ {k} : open'[j] = open[j]
      /\ \A j \in Held \ Held' : Expired(j) /\ j # k
      /\ \A j \in Held' : Id(j)' = Id(j)
  <2>1. e # None
    BY <1>3, EntryFacts
  <2>2. /\ Held' \subseteq Held /\ k \in Held'
        /\ \A j \in Held' \ {k} : open'[j] = open[j]
        /\ \A j \in Held \ Held' : Expired(j) /\ j # k
    BY <1>5, <2>1 DEF Held
  <2> QED
    BY <1>3, <1>5, <2>2 DEF Id
<1>8. /\ handled' = handled + 1 /\ handled' \in 0 .. MaxEvents /\ handled \in Nat
      /\ mem' \in [Devices -> Nat] /\ \A d \in Devices : mem'[d] <= handled'
      /\ UNCHANGED <<clock, tx, rows, received, faults, gone>>
      /\ BatchInv'
  BY RestTyped
<1>9. TypeInv'
  <2>1. Cardinality(Held') <= MaxKeys
    <3>1. Cardinality(Held') <= Cardinality(Held) /\ Cardinality(Held') \in Nat
          /\ Cardinality(Held) \in Nat
      BY <1>7, HeldFacts, FS_Subset, FS_CardinalityType DEF NetlogInv
    <3> QED
      BY <3>1, NetlogAssumption DEF NetlogInv, TypeInv
  <2>2. \A j \in Held' : open'[j].count <= handled'
    <3>1. \A j \in Held : open[j].count \in Nat /\ open[j].count <= handled
      BY HeldFacts, EntryFacts DEF NetlogInv, TypeInv
    <3> QED
      BY <1>2, <1>3, <1>5, <1>7, <1>8, <3>1
  <2> QED
    BY <1>5, <1>6, <1>8, <2>1, <2>2 DEF NetlogInv, TypeInv
<1>10. \A j \in Held \ {k} : Id(j) # Id(k)
  BY DEF Id
<1>11. MemoryInv'
  <2>1. ASSUME NEW j \in Held'
        PROVE  /\ Id(j)' \in DOMAIN begun' \ gone'
               /\ begun'[Id(j)'].count = open'[j].count
               /\ begun'[Id(j)'].last = open'[j].last
    BY <1>2, <1>4, <1>5, <1>6, <1>7, <1>8, <1>10 DEF NetlogInv, MemoryInv
  <2>2. \A j \in Held' : open'[j].born = open[j].born
    BY <1>3, <1>5, <1>7
  <2>3. \A i \in DOMAIN begun' :
          i[2] <= clock' /\ (i[1] \in Held' => i[2] <= open'[i[1]].born)
    BY <1>6, <1>7, <1>8, <2>2 DEF NetlogInv, MemoryInv
  <2> QED
    BY <1>6, <1>8, <2>1, <2>3 DEF NetlogInv, MemoryInv
<1>12. StoredInv'
  BY <1>2, <1>3, <1>4, <1>6, <1>8, StoredFacts, EntryFacts
     DEF NetlogInv, StoredInv, TypeInv, Row
<1>13. EventsAreKept'
  <2> SUFFICES ASSUME NEW i \in DOMAIN begun, i[2] \notin Missing, i \notin gone
               PROVE  \/ open'[i[1]] # None /\ Id(i[1])' = i /\ open'[i[1]].dirty
                           /\ open'[i[1]].count = begun'[i].count
                      \/ i \in DOMAIN rows /\ rows[i].count = begun'[i].count
    BY <1>6, <1>8, <1>12 DEF EventsAreKept, StoredInv
  <2>1. CASE i = Id(k)
    <3>1. i[1] = k
      BY <2>1 DEF Id
    <3> QED
      BY <1>3, <1>4, <1>5, <1>6, <1>7, <2>1, <3>1, EntryFacts
  <2>2. CASE i # Id(k)
    <3>1. begun'[i] = begun[i]
      BY <1>6, <2>2
    <3>2. CASE open[i[1]] # None /\ Id(i[1]) = i /\ open[i[1]].dirty
                 /\ open[i[1]].count = begun[i].count
      <4>1. i[1] \in Held /\ ~ Expired(i[1]) /\ i[1] # k
        BY <2>2, <3>2, BegunFacts DEF Held, Expired
      <4>2. i[1] \in Held' /\ open'[i[1]] = open[i[1]] /\ Id(i[1])' = i
        BY <1>7, <3>2, <4>1
      <4> QED
        BY <3>1, <3>2, <4>2
    <3>3. CASE i \in DOMAIN rows /\ rows[i].count = begun[i].count
      BY <3>1, <3>3
    <3> QED
      BY <3>2, <3>3 DEF NetlogInv, EventsAreKept
  <2> QED
    BY <2>1, <2>2
<1>14. QuietInv'
  <2> SUFFICES ASSUME NEW i \in DOMAIN begun, i \notin cut
               PROVE  \/ i[1] \in Held' /\ Id(i[1])' = i
                      \/ begun'[i].last + Window <= clock
    BY <1>1, <1>6, <1>8 DEF QuietInv
  <2>1. CASE i = Id(k)
    BY <1>7, <2>1 DEF Id
  <2>2. CASE i # Id(k) /\ i[1] \in Held /\ Id(i[1]) = i
    <3>1. CASE i[1] \in Held'
      BY <1>7, <2>2, <3>1
    <3>2. CASE i[1] \notin Held'
      BY <1>6, <1>7, <2>2, <3>2 DEF Expired, NetlogInv, MemoryInv
    <3> QED
      BY <3>1, <3>2
  <2>3. CASE i # Id(k) /\ begun[i].last + Window <= clock
    BY <1>6, <2>3
  <2> QED
    BY <2>1, <2>2, <2>3 DEF NetlogInv, QuietInv
<1>15. RunsAreApart'
  <2> SUFFICES ASSUME NEW i \in DOMAIN begun, NEW j \in DOMAIN begun,
                      i[1] = j[1], i[2] < j[2], i \notin cut
               PROVE  begun'[i].last + Window <= j[2]
    BY <1>1, <1>6 DEF RunsAreApart
  <2>1. i # Id(k)
    <3> SUFFICES ASSUME i = Id(k) PROVE FALSE
      OBVIOUS
    <3>1. i[1] = k /\ i[2] = open[k].born /\ j[2] <= open[k].born
      BY DEF Id, NetlogInv, MemoryInv
    <3> QED
      BY <3>1, BegunFacts
  <2> QED
    BY <1>6, <2>1 DEF NetlogInv, RunsAreApart
<1> QED
  BY <1>8, <1>9, <1>11, <1>12, <1>13, <1>14, <1>15 DEF NetlogInv

(* An event is dropped: expired alarms leave the memory all the same. *)
LEMMA DropInv ==
  ASSUME NetlogInv, NEW k \in Keys, HandleRest(k),
         Drop({j \in Held : ~ Expired(j)})
  PROVE  NetlogInv'
<1> DEFINE kept == {j \in Held : ~ Expired(j)}
<1>1. /\ open' = [j \in Keys |-> IF j \in kept THEN open[j] ELSE None]
      /\ UNCHANGED <<begun, cut>>
  BY DEF Drop
<1>2. /\ open' \in [Keys -> Entry \cup {None}] /\ Held' = kept
      /\ \A j \in kept : open'[j] = open[j] /\ Id(j)' = Id(j)
  <2>1. \A j \in kept : open[j] \in Entry /\ j \in Keys /\ open[j] # None
    BY HeldFacts DEF NetlogInv, Held
  <2>2. open' \in [Keys -> Entry \cup {None}]
    BY <1>1, <2>1
  <2>3. \A j \in kept : open'[j] = open[j]
    BY <1>1, <2>1
  <2>4. Held' = kept
    <3> HIDE DEF kept
    <3> QED
      BY <1>1, <2>1, <2>3 DEF Held
  <2> QED
    BY <2>2, <2>3, <2>4 DEF Id
<1>3. \A j \in Held \ kept : ~ open[j].dirty /\ open[j].last + Window <= clock
  BY DEF Expired
<1>4. kept \subseteq Held
  OBVIOUS
<1> HIDE DEF kept
<1>5. /\ handled' = handled + 1 /\ handled' \in 0 .. MaxEvents /\ handled \in Nat
      /\ mem' \in [Devices -> Nat] /\ \A d \in Devices : mem'[d] <= handled'
      /\ UNCHANGED <<clock, tx, rows, received, faults, gone>>
      /\ BatchInv'
  BY RestTyped
<1>6. TypeInv'
  <2>1. Cardinality(Held') <= MaxKeys
    <3>1. /\ Cardinality(Held') <= Cardinality(Held) /\ Cardinality(Held') \in Nat
          /\ Cardinality(Held) \in Nat
      BY <1>2, <1>4, HeldFacts, FS_Subset, FS_CardinalityType DEF NetlogInv
    <3> QED
      BY <3>1, NetlogAssumption DEF NetlogInv, TypeInv
  <2>2. \A j \in Held' : open'[j].count <= handled'
    <3>1. \A j \in Held : open[j].count \in Nat /\ open[j].count <= handled
      BY HeldFacts, EntryFacts DEF NetlogInv, TypeInv
    <3> QED
      BY <1>2, <1>4, <1>5, <3>1
  <2> QED
    BY <1>1, <1>2, <1>5, <2>1, <2>2 DEF NetlogInv, TypeInv
<1>7. MemoryInv'
  BY <1>1, <1>2, <1>4, <1>5 DEF NetlogInv, MemoryInv
<1>8. StoredInv'
  BY <1>1, <1>5 DEF NetlogInv, StoredInv
<1>9. EventsAreKept'
  <2> SUFFICES ASSUME NEW i \in DOMAIN begun, i[2] \notin Missing, i \notin gone
               PROVE  \/ open'[i[1]] # None /\ Id(i[1])' = i /\ open'[i[1]].dirty
                           /\ open'[i[1]].count = begun[i].count
                      \/ i \in DOMAIN rows /\ rows[i].count = begun[i].count
    BY <1>1, <1>5, <1>8 DEF EventsAreKept, StoredInv
  <2>1. CASE open[i[1]] # None /\ Id(i[1]) = i /\ open[i[1]].dirty
               /\ open[i[1]].count = begun[i].count
    <3>1. i[1] \in kept
      BY <1>3, <2>1, BegunFacts DEF Held
    <3> QED
      BY <1>2, <2>1, <3>1
  <2> QED
    BY <2>1 DEF NetlogInv, EventsAreKept
<1>10. QuietInv'
  <2> SUFFICES ASSUME NEW i \in DOMAIN begun, i \notin cut
               PROVE  \/ i[1] \in kept /\ Id(i[1]) = i
                      \/ begun[i].last + Window <= clock
    BY <1>1, <1>2, <1>5 DEF QuietInv
  <2> QED
    BY <1>3 DEF NetlogInv, QuietInv, MemoryInv
<1>11. RunsAreApart'
  BY <1>1 DEF NetlogInv, RunsAreApart
<1> QED
  BY <1>5, <1>6, <1>7, <1>8, <1>9, <1>10, <1>11 DEF NetlogInv

(* A new alarm: what leaves the memory is stored, and has been quiet for   *)
(* the window or counts as cut short.                                      *)
LEMMA BeginInv ==
  ASSUME NetlogInv, NEW k \in Keys, HandleRest(k), NEW kept \in SUBSET Held,
         k \notin kept, k \in Held => Expired(k),
         \A j \in Held \ kept : ~ open[j].dirty,
         Cardinality(kept) < MaxKeys, Begin(k, kept)
  PROVE  NetlogInv'
<1> DEFINE new == [born |-> clock, count |-> 1, last |-> clock, dirty |-> TRUE]
           b == [count |-> 1, last |-> clock]
           n == <<k, clock>>
<1>1. /\ n \notin DOMAIN begun
      /\ open' = [j \in Keys |->
           IF j = k THEN new ELSE IF j \in kept THEN open[j] ELSE None]
      /\ begun' = [i \in DOMAIN begun \cup {n} |-> IF i = n THEN b ELSE begun[i]]
      /\ cut' = cut \cup {Id(j) : j \in {i \in Held : ~ Expired(i)} \ kept}
  BY DEF Begin
<1>2. /\ clock \in Times /\ clock \in Nat /\ 1 \in 1 .. MaxEvents
      /\ n \in Ids /\ n[1] = k /\ n[2] = clock
  BY RestTyped, IdPairs, NetlogAssumption DEF NetlogInv, TypeInv, Times, HandleRest
<1>3. /\ new \in Entry /\ new.born = clock /\ new.count = 1 /\ new.last = clock
      /\ new.dirty /\ new # None
      /\ b \in Begun /\ b.count = 1 /\ b.last = clock
  <2>1. /\ new \in Entry /\ new.born = clock /\ new.count = 1 /\ new.last = clock
        /\ new.dirty
    BY <1>2 DEF Entry
  <2>2. b \in Begun /\ b.count = 1 /\ b.last = clock
    BY <1>2 DEF Begun
  <2> QED
    BY <2>1, <2>2, EntryFacts
<1> HIDE DEF new, b
<1>4. \A i \in Ids : i = n <=> i[1] = k /\ i[2] = clock
  BY <1>2, IdPairs
<1> HIDE DEF n
<1>5. /\ open' \in [Keys -> Entry \cup {None}] /\ Held' = kept \cup {k}
      /\ open'[k] = new
      /\ \A j \in kept : open'[j] = open[j] /\ Id(j)' = Id(j)
      /\ Id(k)' = n
  <2>1. \A j \in kept : open[j] \in Entry /\ j \in Keys /\ open[j] # None
    BY HeldFacts DEF NetlogInv, Held
  <2>2. open' \in [Keys -> Entry \cup {None}]
    BY <1>1, <1>3, <2>1
  <2>3. open'[k] = new /\ \A j \in kept : open'[j] = open[j]
    BY <1>1, <2>1
  <2>4. Held' = kept \cup {k}
    BY <1>1, <1>3, <2>1, <2>3 DEF Held
  <2>5. Id(k)' = n
    BY <1>3, <2>3 DEF Id, n
  <2> QED
    BY <2>2, <2>3, <2>4, <2>5 DEF Id
<1>6. /\ begun' \in History /\ DOMAIN begun' = DOMAIN begun \cup {n}
      /\ begun'[n] = b /\ \A i \in DOMAIN begun : begun'[i] = begun[i]
  <2>1. begun \in [DOMAIN begun -> Begun] /\ DOMAIN begun \subseteq Ids
    BY HistoryFacts DEF NetlogInv, TypeInv
  <2>2. /\ begun' \in [DOMAIN begun \cup {n} -> Begun]
        /\ DOMAIN begun \cup {n} \in SUBSET Ids
    BY <1>1, <1>2, <1>3, <2>1
  <2>3. begun'[n] = b /\ \A i \in DOMAIN begun : begun'[i] = begun[i]
    BY <1>1
  <2> QED
    BY <2>2, <2>3, HistoryIntro
<1>7. /\ handled' = handled + 1 /\ handled' \in 0 .. MaxEvents /\ handled \in Nat
      /\ mem' \in [Devices -> Nat] /\ \A d \in Devices : mem'[d] <= handled'
      /\ UNCHANGED <<clock, tx, rows, received, faults, gone>>
      /\ BatchInv'
  BY RestTyped
<1>8. TypeInv'
  <2>1. Cardinality(Held') <= MaxKeys
    <3>1. IsFiniteSet(kept)
      BY HeldFacts, FS_Subset DEF NetlogInv
    <3>2. Cardinality(kept \cup {k}) = Cardinality(kept) + 1 /\ Cardinality(kept) \in Nat
      BY <3>1, FS_AddElement, FS_CardinalityType
    <3> QED
      BY <1>5, <3>2, NetlogAssumption
  <2>2. \A j \in Held' : open'[j].count <= handled'
    <3>1. \A j \in Held : open[j].count \in Nat /\ open[j].count <= handled
      BY HeldFacts, EntryFacts DEF NetlogInv, TypeInv
    <3> QED
      BY <1>3, <1>5, <1>7, <3>1
  <2> QED
    BY <1>5, <1>6, <1>7, <2>1, <2>2 DEF NetlogInv, TypeInv
<1>9. MemoryInv'
  <2>1. n \notin gone
    BY <1>1 DEF NetlogInv, MemoryInv
  <2>2. ASSUME NEW j \in Held'
        PROVE  /\ Id(j)' \in DOMAIN begun' \ gone'
               /\ begun'[Id(j)'].count = open'[j].count
               /\ begun'[Id(j)'].last = open'[j].last
    BY <1>3, <1>5, <1>6, <1>7, <2>1 DEF NetlogInv, MemoryInv
  <2>3. ASSUME NEW i \in DOMAIN begun'
        PROVE  i[2] <= clock' /\ (i[1] \in Held' => i[2] <= open'[i[1]].born)
    <3>1. CASE i = n
      BY <1>2, <1>3, <1>5, <1>7, <3>1
    <3>2. CASE i \in DOMAIN begun
      BY <1>3, <1>5, <1>7, <3>2 DEF NetlogInv, MemoryInv
    <3> QED
      BY <1>6, <3>1, <3>2
  <2> QED
    BY <1>6, <1>7, <2>2, <2>3 DEF NetlogInv, MemoryInv
<1>10. StoredInv'
  BY <1>6, <1>7 DEF NetlogInv, StoredInv
<1>11. EventsAreKept'
  <2> SUFFICES ASSUME NEW i \in DOMAIN begun', i[2] \notin Missing, i \notin gone
               PROVE  \/ open'[i[1]] # None /\ Id(i[1])' = i /\ open'[i[1]].dirty
                           /\ open'[i[1]].count = begun'[i].count
                      \/ i \in DOMAIN rows /\ rows[i].count = begun'[i].count
    BY <1>7, <1>10 DEF EventsAreKept, StoredInv
  <2>1. CASE i = n
    BY <1>2, <1>3, <1>5, <1>6, <2>1
  <2>2. CASE i \in DOMAIN begun
    <3>1. CASE open[i[1]] # None /\ Id(i[1]) = i /\ open[i[1]].dirty
                 /\ open[i[1]].count = begun[i].count
      <4>1. i[1] \in kept
        BY <2>2, <3>1, BegunFacts DEF Held
      <4> QED
        BY <1>5, <1>6, <2>2, <3>1, <4>1
    <3>2. CASE i \in DOMAIN rows /\ rows[i].count = begun[i].count
      BY <1>6, <2>2, <3>2
    <3> QED
      BY <2>2, <3>1, <3>2 DEF NetlogInv, EventsAreKept
  <2> QED
    BY <1>6, <2>1, <2>2
<1>12. ASSUME NEW i \in DOMAIN begun, i \notin cut'
       PROVE  \/ i[1] \in kept /\ Id(i[1]) = i
              \/ begun[i].last + Window <= clock
  <2>1. i \notin cut
    BY <1>1, <1>12
  <2>2. CASE i[1] \in Held /\ Id(i[1]) = i
    <3>1. CASE Expired(i[1])
      BY <2>2, <3>1 DEF Expired, NetlogInv, MemoryInv
    <3>2. CASE ~ Expired(i[1])
      BY <1>1, <1>12, <2>2, <3>2
    <3> QED
      BY <3>1, <3>2
  <2> QED
    BY <2>1, <2>2 DEF NetlogInv, QuietInv
<1>13. QuietInv'
  <2> SUFFICES ASSUME NEW i \in DOMAIN begun', i \notin cut'
               PROVE  \/ i[1] \in Held' /\ Id(i[1])' = i
                      \/ begun'[i].last + Window <= clock
    BY <1>7 DEF QuietInv
  <2>1. CASE i = n
    BY <1>2, <1>5, <2>1
  <2>2. CASE i \in DOMAIN begun
    BY <1>5, <1>6, <1>12, <2>2
  <2> QED
    BY <1>6, <2>1, <2>2
<1>14. RunsAreApart'
  <2> SUFFICES ASSUME NEW i \in DOMAIN begun', NEW j \in DOMAIN begun',
                      i[1] = j[1], i[2] < j[2], i \notin cut'
               PROVE  begun'[i].last + Window <= j[2]
    BY DEF RunsAreApart
  <2>1. CASE i = n
    <3>1. j[2] <= clock /\ j[2] \in Nat
      BY <1>2, <1>6, BegunFacts DEF NetlogInv, MemoryInv
    <3> QED
      BY <1>2, <2>1, <3>1
  <2>2. CASE i # n /\ j = n
    BY <1>2, <1>6, <1>12, <2>2
  <2>3. CASE i # n /\ j # n
    BY <1>1, <1>6, <2>3 DEF NetlogInv, RunsAreApart
  <2> QED
    BY <2>1, <2>2, <2>3
<1> QED
  BY <1>7, <1>8, <1>9, <1>10, <1>11, <1>13, <1>14 DEF NetlogInv

LEMMA HandleInv ==
  ASSUME NetlogInv, NEW k \in Keys, Handle(k)
  PROVE  NetlogInv'
<1> DEFINE kept == {j \in Held : ~ Expired(j)}
<1>1. /\ HandleRest(k)
      /\ \/ k \in kept /\ Count(k)
         \/ k \notin kept /\ Room(kept) /\ Begin(k, kept)
         \/ /\ k \notin kept
            /\ \E j \in Oldest(kept) : Begin(k, kept \ {j})
         \/ k \notin kept /\ Drop(kept)
  BY DEF Handle, HandleRest
<1>2. kept \in SUBSET Held /\ \A j \in Held \ kept : ~ open[j].dirty
  BY DEF Expired
<1>3. CASE k \in kept /\ Count(k)
  BY <1>1, <1>3, CountInv
<1>4. CASE k \notin kept /\ Room(kept) /\ Begin(k, kept)
  BY <1>1, <1>2, <1>4, BeginInv DEF Room
<1>5. CASE k \notin kept /\ \E j \in Oldest(kept) : Begin(k, kept \ {j})
  <2>1. PICK j \in Oldest(kept) : Begin(k, kept \ {j})
    BY <1>5
  <2>2. j \in kept /\ ~ open[j].dirty
    BY DEF Oldest
  <2>3. Cardinality(kept \ {j}) < MaxKeys
    <3>1. /\ IsFiniteSet(kept) /\ Cardinality(kept) <= Cardinality(Held)
          /\ Cardinality(kept) \in Nat /\ Cardinality(Held) \in Nat
      BY <1>2, HeldFacts, FS_Subset, FS_CardinalityType DEF NetlogInv
    <3>2. Cardinality(kept \ {j}) = Cardinality(kept) - 1
      BY <2>2, <3>1, FS_RemoveElement
    <3> QED
      BY <3>1, <3>2, NetlogAssumption DEF NetlogInv, TypeInv
  <2>4. /\ kept \ {j} \in SUBSET Held /\ k \notin kept \ {j}
        /\ k \in Held => Expired(k)
        /\ \A i \in Held \ (kept \ {j}) : ~ open[i].dirty
    BY <1>2, <1>5, <2>2
  <2> QED
    BY <1>1, <2>1, <2>3, <2>4, BeginInv
<1>6. CASE k \notin kept /\ Drop(kept)
  BY <1>1, <1>6, DropInv
<1> QED
  BY <1>1, <1>3, <1>4, <1>5, <1>6

-----------------------------------------------------------------------------
LEMMA NextInv == NetlogInv /\ [Next]_vars => NetlogInv'
<1> SUFFICES ASSUME NetlogInv, [Next]_vars PROVE NetlogInv'
  OBVIOUS
<1>1. CASE \E k \in Keys : Handle(k)
  BY <1>1, HandleInv
<1>2. CASE Tick
  BY <1>2, TickInv
<1>3. CASE Store
  BY <1>3, StartInv, InsertInv, CommitInv, FlushInv, FinishInv DEF Store
<1>4. CASE Start(TRUE)
  BY <1>4, StartInv
<1>5. CASE Fails \/ Crash \/ CommitUnheard
  BY <1>5, FailsInv, CommitUnheardInv
<1>6. CASE \E d \in Devices : FlushFails(d) \/ FlushUnheard(d)
  BY <1>6, FlushInv
<1>7. CASE UNCHANGED vars
  <2>1. UNCHANGED <<clock, open, mem, tx, rows, received, faults, begun, cut,
                    gone, handled>>
    BY <1>7 DEF vars
  <2>2. MemoryInv' /\ Held' = Held
    BY <2>1, MemoryKept
  <2>3. TypeInv'
    BY <2>1, <2>2 DEF NetlogInv, TypeInv
  <2> QED
    BY <2>1, <2>2, <2>3, StoredKept, ApartKept, BatchKept DEF NetlogInv
<1> QED
  BY <1>1, <1>2, <1>3, <1>4, <1>5, <1>6, <1>7 DEF Next

LEMMA Invariance == Spec => []NetlogInv
<1>1. Init => NetlogInv
  BY InitInv
<1>2. NetlogInv /\ [Next]_vars => NetlogInv'
  BY NextInv
<1> QED
  BY <1>1, <1>2, PTL DEF Spec

-----------------------------------------------------------------------------
(* Results *)

(* Collapser, the store and the alarms keep their types, and Collapser     *)
(* holds max_collapse_keys alarms at most.                                 *)
THEOREM TypeCorrect == Spec => []TypeOK
<1>1. NetlogInv => TypeOK
  <2> SUFFICES ASSUME NetlogInv PROVE TypeOK
    OBVIOUS
  <2>1. mem \in [Devices -> 0 .. MaxEvents]
    BY NetlogAssumption DEF NetlogInv, TypeInv
  <2>2. /\ DOMAIN rows \subseteq Ids /\ Range(rows) \subseteq Row
        /\ DOMAIN tx.staged \subseteq Ids /\ Range(tx.staged) \subseteq Row
    BY StoredFacts DEF NetlogInv, TypeInv, StoreInProgress, Range
  <2> QED
    BY <2>1, <2>2 DEF NetlogInv, TypeInv, TypeOK, StoreInProgress
<1> QED
  BY <1>1, Invariance, PTL

(* Collapser::add, insert_batch and Collapser::stored lose and repeat no   *)
(* event of an alarm, whatever fails between them.                         *)
THEOREM NoEventIsLost == Spec => []EventsAreKept
<1>1. NetlogInv => EventsAreKept
  BY DEF NetlogInv
<1> QED
  BY <1>1, Invariance, PTL

(* Collapser::add begins an alarm only a window after the last event of    *)
(* the one before it, if that was not cut short.                           *)
THEOREM WindowsHold == Spec => []RunsAreApart
<1>1. NetlogInv => RunsAreApart
  BY DEF NetlogInv
<1> QED
  BY <1>1, Invariance, PTL
=============================================================================
