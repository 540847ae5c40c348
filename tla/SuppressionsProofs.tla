------------------------- MODULE SuppressionsProofs -------------------------
(***************************************************************************)
(* The safety properties of Suppressions, for any numbers of people and    *)
(* suppressions.                                                           *)
(***************************************************************************)
EXTENDS Suppressions, TLAPS

(* A transaction about to write has locked its row, so what it checked of  *)
(* the row still holds.                                                    *)
Holds(u) ==
  /\ tx[u].id \in Ids /\ tx[u].op \in Ops
  /\ owner[tx[u].id] = u
  /\ sup[tx[u].id].state = IF tx[u].op = "remove" THEN "active" ELSE "waiting"
  /\ tx[u].op = "approve" => sup[tx[u].id].createdBy # u

WritersHold == \A u \in People : tx[u].pc = "write" => Holds(u)

(* The deletion has locked the rows that it ends, and no others. *)
DeletionHolds ==
  \A i \in Ids :
    /\ owner[i] = Deletion <=> i \in del.ended
    /\ i \in del.ended => /\ del.pc # 0 /\ sup[i].place = "group"
                          /\ sup[i].state \in {"waiting", "active"}

LockInv == WritersHold /\ DeletionHolds

(* What had to wait was activated by somebody else. *)
ActivatedByOther ==
  \A i \in Ids : sup[i].state \in {"active", "removed"} /\ sup[i].waited =>
    sup[i].decidedBy \notin {None, sup[i].createdBy}

WasActive(i) == i \in Ids /\ sup[i].state \in {"active", "removed"}

(* An alarm is closed, or about to be, by what was active once. *)
ClosedByActive ==
  /\ source.state = "suppressed" => WasActive(source.by)
  /\ batch.alarm.state = "suppressed" => WasActive(batch.alarm.by)
  /\ \A i \in batch.matches : WasActive(i)

AlarmInv == ActivatedByOther /\ ClosedByActive

(* A deletion past its statement for a state has every suppression of the  *)
(* group in that state, but those that came too late for the statement.    *)
EndedSoFar ==
  \A i \in Ids \ del.late : sup[i].place = "group" =>
    /\ del.pc \in {2, 3} /\ sup[i].state = "waiting" => i \in del.ended
    /\ del.pc = 3 /\ sup[i].state = "active" => i \in del.ended

(* Only a group that exists is being deleted. *)
DeletesGroup == del.pc # 0 => group

GroupInv == EndedSoFar /\ DeletesGroup /\ EndsWithGroup

SupInv == TypeOK /\ LockInv /\ AlarmInv /\ GroupInv

-----------------------------------------------------------------------------
(* Facts that several steps need. *)

LEMMA IdleTyped == IdleTx \in Transaction
BY DEF IdleTx, Transaction

LEMMA OpenTyped == OpenAlarm \in Alarm
BY DEF OpenAlarm, Alarm

LEMMA IdleBatchTyped == IdleBatch \in Batch
BY OpenTyped, SuppressionsAssumption DEF IdleBatch, Batch, Time

LEMMA ExpiresTyped ==
  ASSUME TypeOK, NEW f \in Periods \cup {None}
  PROVE  Expires(f) \in Nat \cup {None} /\ (f = None <=> Expires(f) = None)
BY SuppressionsAssumption DEF Expires, TypeOK, Time

LEMMA SuppressedTyped ==
  ASSUME NEW i \in Ids
  PROVE  /\ [state |-> "suppressed", by |-> i] \in Alarm
         /\ [state |-> "suppressed", by |-> i].by = i
BY DEF Alarm

(* close_source, by a row as it is written. *)
LEMMA ClosesByActive ==
  ASSUME source \in Alarm, NEW i \in Ids, NEW STATE row, CloseSource(i, row)
  PROVE  /\ source' \in Alarm
         /\ source' = source \/ (source'.by = i /\ row.state = "active")
<1>1. \/ source' = source
      \/ row.state = "active" /\ source' = [state |-> "suppressed", by |-> i]
  BY Zenon DEF CloseSource
<1> QED
  BY <1>1, SuppressedTyped

(* The end of a person's transaction keeps the others' locks. *)
LEMMA FinishKeeps ==
  ASSUME TypeOK, NEW u \in People, Finish(u)
  PROVE  /\ owner' \in [Ids -> People \cup {None, Deletion}]
         /\ tx' \in [People -> Transaction]
         /\ tx'[u] = IdleTx
         /\ \A v \in People \ {u} : tx'[v] = tx[v]
         /\ \A i \in Ids : owner[i] # u => owner'[i] = owner[i]
         /\ \A i \in Ids : owner[i] = u => owner'[i] = None
BY IdleTyped DEF Finish, TypeOK

(* Nothing but the clock, the setting, the source or the batch changes. *)
LEMMA TablesKept ==
  ASSUME SupInv, UNCHANGED <<group, sup, owner, tx, del>>
  PROVE  LockInv' /\ ActivatedByOther' /\ GroupInv'
BY DEF SupInv, LockInv, WritersHold, Holds, DeletionHolds, AlarmInv,
   ActivatedByOther, GroupInv, EndedSoFar, DeletesGroup,
   EndsWithGroup

LEMMA InitInv == Init => SupInv
<1> SUFFICES ASSUME Init PROVE SupInv
  OBVIOUS
<1>1. UnusedRow \in Row
  BY DEF UnusedRow, Row
<1>2. TypeOK
  BY <1>1, IdleTyped, OpenTyped, IdleBatchTyped, SuppressionsAssumption
     DEF Init, TypeOK, Time, UnusedRow, Deleting
<1>3. LockInv
  BY SuppressionsAssumption DEF Init, LockInv, WritersHold, DeletionHolds, IdleTx
<1>4. AlarmInv
  BY DEF Init, AlarmInv, ActivatedByOther, ClosedByActive, UnusedRow,
     OpenAlarm, IdleBatch
<1>5. GroupInv
  BY DEF Init, GroupInv, EndedSoFar, DeletesGroup, EndsWithGroup,
     IdleTx
<1> QED
  BY <1>2, <1>3, <1>4, <1>5 DEF SupInv

-----------------------------------------------------------------------------
LEMMA TickInv ==
  ASSUME SupInv, Tick \/ SetApproval
  PROVE  SupInv'
<1>1. UNCHANGED <<group, sup, owner, tx, del, source, batch>>
  BY DEF Tick, SetApproval
<1>2. now' \in Time
  BY SuppressionsAssumption DEF SupInv, TypeOK, Tick, SetApproval, Time
<1>3. approval' \in BOOLEAN
  BY Zenon DEF SupInv, TypeOK, Tick, SetApproval
<1>4. TypeOK'
  BY <1>1, <1>2, <1>3 DEF SupInv, TypeOK
<1>5. ClosedByActive'
  BY <1>1 DEF SupInv, AlarmInv, ClosedByActive, WasActive
<1> QED
  BY <1>1, <1>4, <1>5, TablesKept DEF SupInv, AlarmInv

LEMMA RequestInv ==
  ASSUME SupInv, NEW u \in People, NEW place \in {"group", "all"},
         Request(u, place)
  PROVE  SupInv'
<1> DEFINE t == [IdleTx EXCEPT !.pc = "insert", !.place = place]
<1>1. t \in Transaction /\ t.pc = "insert" /\ t.place = place
  BY DEF IdleTx, Transaction
<1>2. /\ tx' = [tx EXCEPT ![u] = t]
      /\ UNCHANGED <<now, approval, group, sup, owner, del, source, batch>>
  BY DEF Request
<1> HIDE DEF t
<1>3. /\ tx' \in [People -> Transaction] /\ tx'[u] = t
      /\ \A v \in People \ {u} : tx'[v] = tx[v]
  BY <1>1, <1>2 DEF SupInv, TypeOK
<1>4. TypeOK'
  BY <1>2, <1>3 DEF SupInv, TypeOK
<1>5. LockInv'
  BY <1>1, <1>2, <1>3 DEF SupInv, LockInv, WritersHold, Holds, DeletionHolds
<1>6. AlarmInv'
  BY <1>2 DEF SupInv, AlarmInv, ActivatedByOther, ClosedByActive, WasActive
<1>7. GroupInv'
  BY <1>1, <1>2, <1>3 DEF SupInv, GroupInv, EndedSoFar, DeletesGroup, EndsWithGroup
<1> QED
  BY <1>4, <1>5, <1>6, <1>7 DEF SupInv

LEMMA InsertRequestInv ==
  ASSUME SupInv, NEW u \in People, NEW i \in Ids, NEW f \in Periods,
         InsertRequest(u, i, f)
  PROVE  SupInv'
<1> DEFINE row ==
        [state     |-> IF approval THEN "waiting" ELSE "active",
         place     |-> tx[u].place,
         createdBy |-> u,
         decidedBy |-> None,
         forDays   |-> f,
         expires   |-> IF approval THEN None ELSE Expires(f),
         waited    |-> approval]
<1>1. /\ tx[u].pc = "insert" /\ sup[i].state = "unused"
      /\ sup' = [sup EXCEPT ![i] = row]
      /\ CloseSource(i, row)
      /\ tx' = [tx EXCEPT ![u] = IdleTx]
      /\ del' = IF row.place = "group" /\ Missed(row.state)
                THEN [del EXCEPT !.late = @ \cup {i}] ELSE del
      /\ UNCHANGED <<now, approval, group, owner, batch>>
  BY DEF InsertRequest
<1>2. tx[u].place \in {"group", "all"}
  BY DEF SupInv, TypeOK, Transaction
<1>3. /\ row \in Row
      /\ row.state \in {"active", "removed"} =>
           ~ row.waited /\ (row.forDays = None <=> row.expires = None)
      /\ row.place = tx[u].place
      /\ row.state = "waiting" \/ row.state = "active"
  <2> DEFINE st == IF approval THEN "waiting" ELSE "active"
             ex == IF approval THEN None ELSE Expires(f)
  <2>1. /\ st \in State /\ (st = "waiting" \/ st = "active")
        /\ ex \in Nat \cup {None}
        /\ st \in {"active", "removed"} => ~ approval /\ (f = None <=> ex = None)
    BY ExpiresTyped DEF SupInv, State
  <2>2. approval \in BOOLEAN
    BY DEF SupInv, TypeOK
  <2>3. row = [state |-> st, place |-> tx[u].place, createdBy |-> u,
               decidedBy |-> None, forDays |-> f, expires |-> ex,
               waited |-> approval]
    OBVIOUS
  <2> HIDE DEF st, ex, row
  <2>4. row \in Row
    BY <1>2, <2>1, <2>2, <2>3, Zenon DEF Row
  <2>5. /\ row.state = st /\ row.place = tx[u].place /\ row.forDays = f
        /\ row.expires = ex /\ row.waited = approval
    BY <2>3
  <2> QED
    BY <2>1, <2>4, <2>5
<1> HIDE DEF row
<1>4. /\ sup' \in [Ids -> Row] /\ sup'[i] = row
      /\ \A j \in Ids \ {i} : sup'[j] = sup[j]
  BY <1>1, <1>3 DEF SupInv, TypeOK
<1>5. /\ tx' \in [People -> Transaction] /\ tx'[u] = IdleTx
      /\ \A v \in People \ {u} : tx'[v] = tx[v]
  BY <1>1, IdleTyped DEF SupInv, TypeOK
<1>6. /\ source' \in Alarm
      /\ source' = source \/ (source'.by = i /\ row.state = "active")
  BY <1>1, ClosesByActive DEF SupInv, TypeOK
<1>7. /\ del' \in Deleting /\ del'.pc = del.pc /\ del'.ended = del.ended
      /\ del'.late \subseteq del.late \cup {i} /\ del.late \subseteq del'.late
      /\ row.place = "group" /\ Missed(row.state) => i \in del'.late
  <2>1. del \in Deleting
    BY DEF SupInv, TypeOK
  <2> QED
    BY <1>1, <2>1 DEF Deleting
<1>8. TypeOK'
  BY <1>1, <1>3, <1>4, <1>5, <1>6, <1>7 DEF SupInv, TypeOK
<1>9. LockInv'
  <2>1. WritersHold'
    BY <1>1, <1>4, <1>5 DEF SupInv, LockInv, WritersHold, Holds, IdleTx
  <2>2. DeletionHolds'
    BY <1>1, <1>4, <1>7 DEF SupInv, LockInv, DeletionHolds
  <2> QED
    BY <2>1, <2>2 DEF LockInv
<1>10. AlarmInv'
  BY <1>1, <1>3, <1>4, <1>6 DEF SupInv, AlarmInv, ActivatedByOther,
     ClosedByActive, WasActive
<1>11. GroupInv'
  <2>1. row.place = "group" =>
          /\ ~ group => i \in del'.late
          /\ del.pc \in {2, 3} /\ row.state = "waiting" => i \in del'.late
          /\ del.pc = 3 /\ row.state = "active" => i \in del'.late
    <3>1. /\ del.pc \in 0 .. 3
          /\ EndedStates[1] = "waiting" /\ EndedStates[2] = "active"
      BY DEF SupInv, TypeOK, Deleting, EndedStates
    <3>2. /\ del.pc \in {2, 3} => 1 \in 1 .. del.pc - 1
          /\ del.pc = 3 => 2 \in 1 .. del.pc - 1
      BY <3>1
    <3>3. /\ ~ group => Missed(row.state)
          /\ del.pc \in {2, 3} /\ row.state = "waiting" => Missed(row.state)
          /\ del.pc = 3 /\ row.state = "active" => Missed(row.state)
      BY <3>1, <3>2, Zenon DEF Missed
    <3> QED
      BY <1>7, <3>3, Zenon
  <2>2. EndedSoFar'
    <3> SUFFICES ASSUME NEW j \in Ids \ del'.late, sup'[j].place = "group"
                 PROVE  /\ del'.pc \in {2, 3} /\ sup'[j].state = "waiting" =>
                             j \in del'.ended
                        /\ del'.pc = 3 /\ sup'[j].state = "active" =>
                             j \in del'.ended
      BY DEF EndedSoFar
    <3>1. CASE j = i
      BY <1>3, <1>4, <1>7, <2>1, <3>1
    <3>2. CASE j # i
      BY <1>4, <1>7, <3>2 DEF SupInv, GroupInv, EndedSoFar
    <3> QED
      BY <3>1, <3>2
  <2>3. EndsWithGroup'
    <3> SUFFICES ASSUME ~ group, NEW j \in Ids \ del'.late,
                        sup'[j].place = "group"
                 PROVE  sup'[j].state \notin {"waiting", "active"}
      BY <1>1 DEF EndsWithGroup
    <3>1. j # i
      BY <1>4, <1>7, <2>1
    <3> QED
      BY <1>4, <1>7, <3>1 DEF SupInv, GroupInv, EndsWithGroup
  <2>4. DeletesGroup'
    BY <1>1, <1>7 DEF SupInv, GroupInv, DeletesGroup
  <2> QED
    BY <2>2, <2>3, <2>4 DEF GroupInv
<1> QED
  BY <1>8, <1>9, <1>10, <1>11 DEF SupInv

LEMMA LockRowInv ==
  ASSUME SupInv, NEW u \in People, NEW i \in Ids, NEW op \in Ops,
         LockRow(u, i, op)
  PROVE  SupInv'
<1> DEFINE t == [pc |-> "write", op |-> op, id |-> i, place |-> "all"]
<1>1. /\ owner[i] = None /\ tx[u].pc = "idle"
      /\ owner' = [owner EXCEPT ![i] = u]
      /\ tx' = [tx EXCEPT ![u] = t]
      /\ UNCHANGED <<now, approval, group, sup, del, source, batch>>
  BY DEF LockRow
<1>2. /\ sup[i].state = IF op = "remove" THEN "active" ELSE "waiting"
      /\ op = "approve" => sup[i].createdBy # u
  BY DEF LockRow, May, Ops
<1>3. t \in Transaction /\ t.pc = "write" /\ t.op = op /\ t.id = i
  BY DEF Transaction
<1> HIDE DEF t
<1>4. /\ tx' \in [People -> Transaction] /\ tx'[u] = t
      /\ \A v \in People \ {u} : tx'[v] = tx[v]
  BY <1>1, <1>3 DEF SupInv, TypeOK
<1>5. /\ owner' \in [Ids -> People \cup {None, Deletion}] /\ owner'[i] = u
      /\ \A j \in Ids \ {i} : owner'[j] = owner[j]
  BY <1>1 DEF SupInv, TypeOK
<1>6. TypeOK'
  BY <1>1, <1>4, <1>5 DEF SupInv, TypeOK
<1>7. WritersHold'
  BY <1>1, <1>2, <1>3, <1>4, <1>5, SuppressionsAssumption
     DEF SupInv, LockInv, WritersHold, Holds
<1>8. DeletionHolds'
  BY <1>1, <1>5, SuppressionsAssumption DEF SupInv, LockInv, DeletionHolds
<1>9. AlarmInv'
  BY <1>1 DEF SupInv, AlarmInv, ActivatedByOther, ClosedByActive, WasActive
<1>10. GroupInv'
  BY <1>1, <1>3, <1>4 DEF SupInv, GroupInv, EndedSoFar, DeletesGroup, EndsWithGroup
<1> QED
  BY <1>6, <1>7, <1>8, <1>9, <1>10 DEF SupInv, LockInv

LEMMA WriteRowInv ==
  ASSUME SupInv, NEW u \in People, WriteRow(u)
  PROVE  SupInv'
<1> DEFINE i == tx[u].id
           row == Written(sup[i], u, tx[u].op)
<1>1. /\ tx[u].pc = "write"
      /\ sup' = [sup EXCEPT ![i] = row]
      /\ Finish(u)
      /\ UNCHANGED <<now, approval, group, del, batch>>
  BY DEF WriteRow
<1>2. /\ i \in Ids /\ owner[i] = u /\ sup[i] \in Row
      /\ tx[u].op \in Ops
      /\ sup[i].state = IF tx[u].op = "remove" THEN "active" ELSE "waiting"
      /\ tx[u].op = "approve" => sup[i].createdBy # u
  BY <1>1 DEF SupInv, LockInv, WritersHold, Holds, TypeOK
<1>3. /\ row \in Row
      /\ row.place = sup[i].place /\ row.waited = sup[i].waited
      /\ row.createdBy = sup[i].createdBy
      /\ row.forDays = sup[i].forDays
  <2>1. Expires(sup[i].forDays) \in Nat \cup {None}
    BY <1>2, ExpiresTyped DEF SupInv, Row
  <2> QED
    BY <1>2, <2>1 DEF Written, Approved, Row, State, Ops
<1>4. \/ /\ tx[u].op = "approve" /\ row.state = "active" /\ row.decidedBy = u
         /\ row.expires = Expires(sup[i].forDays)
      \/ /\ tx[u].op # "approve" /\ row.state \in {"rejected", "withdrawn"}
         /\ sup[i].state = "waiting"
      \/ /\ tx[u].op # "approve" /\ row.state = "removed"
         /\ sup[i].state = "active"
         /\ row.decidedBy = sup[i].decidedBy /\ row.expires = sup[i].expires
  BY <1>2 DEF Written, Approved, Row, Ops
<1>5. /\ source' \in Alarm
      /\ source' = source \/ (source'.by = i /\ row.state = "active")
  <2>1. source' = source \/ (tx[u].op = "approve" /\ CloseSource(i, row))
    BY DEF WriteRow
  <2> QED
    BY <1>2, <2>1, ClosesByActive DEF SupInv, TypeOK
<1> HIDE DEF row
<1>6. /\ sup' \in [Ids -> Row] /\ sup'[i] = row
      /\ \A j \in Ids \ {i} : sup'[j] = sup[j]
  BY <1>1, <1>2, <1>3 DEF SupInv, TypeOK
<1>7. /\ owner' \in [Ids -> People \cup {None, Deletion}]
      /\ tx' \in [People -> Transaction] /\ tx'[u] = IdleTx
      /\ \A v \in People \ {u} : tx'[v] = tx[v]
      /\ \A j \in Ids : owner[j] # u => owner'[j] = owner[j]
      /\ \A j \in Ids : owner[j] = u => owner'[j] = None
  BY <1>1, FinishKeeps DEF SupInv
<1>8. sup[i].forDays = None <=> Expires(sup[i].forDays) = None
  BY <1>2, ExpiresTyped DEF SupInv, Row
<1> HIDE DEF i
<1>9. TypeOK'
  BY <1>1, <1>2, <1>3, <1>4, <1>5, <1>6, <1>7, <1>8 DEF SupInv, TypeOK
<1>10. LockInv'
  <2>1. WritersHold'
    BY <1>1, <1>2, <1>6, <1>7 DEF SupInv, LockInv, WritersHold, Holds, IdleTx
  <2>2. DeletionHolds'
    BY <1>1, <1>2, <1>6, <1>7, SuppressionsAssumption
       DEF SupInv, LockInv, DeletionHolds
  <2> QED
    BY <2>1, <2>2 DEF LockInv
<1>11. AlarmInv'
  <2>1. ActivatedByOther'
    BY <1>2, <1>3, <1>4, <1>6, SuppressionsAssumption
       DEF SupInv, AlarmInv, ActivatedByOther
  <2>2. \A j : WasActive(j) => WasActive(j)'
    BY <1>2, <1>4, <1>6 DEF WasActive
  <2>3. \A j : j = i /\ row.state = "active" => WasActive(j)'
    BY <1>2, <1>6 DEF WasActive
  <2>4. ClosedByActive'
    BY <1>1, <1>5, <2>2, <2>3 DEF SupInv, AlarmInv, ClosedByActive
  <2> QED
    BY <2>1, <2>4 DEF AlarmInv
<1>12. GroupInv'
  <2>1. i \notin del.ended
    BY <1>2, SuppressionsAssumption DEF SupInv, LockInv, DeletionHolds
  <2> QED
    BY <1>1, <1>2, <1>3, <1>4, <1>6, <1>7, <2>1 DEF SupInv, GroupInv,
       EndedSoFar, DeletesGroup, EndsWithGroup, IdleTx
<1> QED
  BY <1>9, <1>10, <1>11, <1>12 DEF SupInv

LEMMA RollbackInv ==
  ASSUME SupInv, NEW u \in People, Rollback(u)
  PROVE  SupInv'
<1>1. UNCHANGED <<now, approval, group, sup, del, source, batch>>
  BY DEF Rollback
<1>2. /\ owner' \in [Ids -> People \cup {None, Deletion}]
      /\ tx' \in [People -> Transaction] /\ tx'[u] = IdleTx
      /\ \A v \in People \ {u} : tx'[v] = tx[v]
      /\ \A j \in Ids : owner[j] # u => owner'[j] = owner[j]
      /\ \A j \in Ids : owner[j] = u => owner'[j] = None
  BY FinishKeeps DEF SupInv, Rollback
<1>3. TypeOK'
  BY <1>1, <1>2 DEF SupInv, TypeOK
<1>4. LockInv'
  BY <1>1, <1>2, SuppressionsAssumption DEF SupInv, LockInv, WritersHold,
     Holds, DeletionHolds, IdleTx
<1>5. AlarmInv'
  BY <1>1 DEF SupInv, AlarmInv, ActivatedByOther, ClosedByActive, WasActive
<1>6. GroupInv'
  BY <1>1, <1>2 DEF SupInv, GroupInv, EndedSoFar, DeletesGroup,
     EndsWithGroup, IdleTx
<1> QED
  BY <1>3, <1>4, <1>5, <1>6 DEF SupInv

(* Triage and close_covered only change the source alarm. *)
LEMMA SourceInv ==
  ASSUME SupInv, Triage \/ \E i \in Ids : CloseCovered(i)
  PROVE  SupInv'
<1>1. UNCHANGED <<now, approval, group, sup, owner, tx, del, batch>>
  BY DEF Triage, CloseCovered
<1>2. /\ source' \in Alarm
      /\ \/ source' = source
         \/ source'.state # "suppressed"
         \/ WasActive(source'.by)
  BY OpenTyped DEF SupInv, TypeOK, Triage, CloseCovered, CloseSource, Alarm,
     OpenAlarm, WasActive
<1>3. TypeOK'
  BY <1>1, <1>2 DEF SupInv, TypeOK
<1>4. ClosedByActive'
  BY <1>1, <1>2 DEF SupInv, AlarmInv, ClosedByActive, WasActive
<1> QED
  BY <1>1, <1>3, <1>4, TablesKept DEF SupInv, AlarmInv

-----------------------------------------------------------------------------
(* The deletion of the group *)

LEMMA BeginDeleteInv ==
  ASSUME SupInv, BeginDelete
  PROVE  SupInv'
<1>1. /\ group /\ del.pc = 0 /\ del' = [del EXCEPT !.pc = 1]
      /\ UNCHANGED <<now, approval, group, sup, owner, tx, source, batch>>
  BY DEF BeginDelete
<1>2. del' \in Deleting /\ del'.pc = 1 /\ del'.ended = del.ended
      /\ del'.late = del.late
  BY <1>1 DEF SupInv, TypeOK, Deleting
<1>3. TypeOK'
  BY <1>1, <1>2 DEF SupInv, TypeOK
<1>4. LockInv'
  BY <1>1, <1>2 DEF SupInv, LockInv, WritersHold, Holds, DeletionHolds
<1>5. AlarmInv'
  BY <1>1 DEF SupInv, AlarmInv, ActivatedByOther, ClosedByActive, WasActive
<1>6. GroupInv'
  BY <1>1, <1>2 DEF SupInv, GroupInv, EndedSoFar, DeletesGroup,
     EndsWithGroup
<1> QED
  BY <1>3, <1>4, <1>5, <1>6 DEF SupInv

LEMMA EndSuppressionsInv ==
  ASSUME SupInv, EndSuppressions
  PROVE  SupInv'
<1> DEFINE ending == {i \in Ids : /\ sup[i].place = "group"
                                  /\ sup[i].state = EndedStates[del.pc]}
<1>1. /\ del.pc \in {1, 2}
      /\ \A i \in ending : owner[i] = None
      /\ owner' = [i \in Ids |-> IF i \in ending THEN Deletion ELSE owner[i]]
      /\ del' = [pc |-> del.pc + 1, ended |-> del.ended \cup ending,
                 late |-> del.late \ ending]
      /\ UNCHANGED <<now, approval, group, sup, tx, source, batch>>
  BY DEF EndSuppressions
<1>2. EndedStates[del.pc] = IF del.pc = 1 THEN "waiting" ELSE "active"
  BY <1>1 DEF EndedStates
<1>3. /\ ending \subseteq Ids
      /\ \A i \in Ids : i \in ending <=>
           /\ sup[i].place = "group"
           /\ sup[i].state = IF del.pc = 1 THEN "waiting" ELSE "active"
  BY <1>2
<1> HIDE DEF ending
<1>4. /\ del' \in Deleting
      /\ del'.pc = del.pc + 1 /\ del'.ended = del.ended \cup ending
      /\ del'.late = del.late \ ending
  BY <1>1, <1>3 DEF SupInv, TypeOK, Deleting
<1>5. /\ owner' \in [Ids -> People \cup {None, Deletion}]
      /\ \A i \in Ids : owner'[i] = IF i \in ending THEN Deletion ELSE owner[i]
  BY <1>1 DEF SupInv, TypeOK
<1>6. TypeOK'
  BY <1>1, <1>4, <1>5 DEF SupInv, TypeOK
<1>7. LockInv'
  <2>1. WritersHold'
    BY <1>1, <1>5, SuppressionsAssumption DEF SupInv, LockInv, WritersHold, Holds
  <2>2. DeletionHolds'
    BY <1>1, <1>3, <1>4, <1>5, SuppressionsAssumption
       DEF SupInv, LockInv, DeletionHolds
  <2> QED
    BY <2>1, <2>2 DEF LockInv
<1>8. AlarmInv'
  BY <1>1 DEF SupInv, AlarmInv, ActivatedByOther, ClosedByActive, WasActive
<1>9. GroupInv'
  BY <1>1, <1>3, <1>4 DEF SupInv, GroupInv, EndedSoFar, DeletesGroup, EndsWithGroup
<1> QED
  BY <1>6, <1>7, <1>8, <1>9 DEF SupInv

LEMMA FinishDeleteKeeps ==
  ASSUME TypeOK, NEW late \in SUBSET Ids, FinishDelete(late)
  PROVE  /\ owner' \in [Ids -> People \cup {None, Deletion}]
         /\ \A i \in Ids : owner'[i] = IF owner[i] = Deletion THEN None ELSE owner[i]
         /\ del' \in Deleting /\ del'.pc = 0 /\ del'.ended = {}
      /\ del'.late = late
BY DEF FinishDelete, TypeOK, Deleting

LEMMA DeleteGroupInv ==
  ASSUME SupInv, DeleteGroup
  PROVE  SupInv'
<1>1. /\ del.pc = 3 /\ group' = FALSE
      /\ sup' = [i \in Ids |-> IF i \in del.ended THEN EndedRow(sup[i]) ELSE sup[i]]
      /\ UNCHANGED <<now, approval, tx, source, batch>>
  BY DEF DeleteGroup
<1>2. /\ owner' \in [Ids -> People \cup {None, Deletion}]
      /\ \A i \in Ids : owner'[i] = IF owner[i] = Deletion THEN None ELSE owner[i]
      /\ del' \in Deleting /\ del'.pc = 0 /\ del'.ended = {}
      /\ del'.late = del.late
  <2>1. del.late \in SUBSET Ids
    BY DEF SupInv, TypeOK, Deleting
  <2> QED
    BY <2>1, FinishDeleteKeeps DEF DeleteGroup, SupInv
<1>3. ASSUME NEW i \in del.ended
      PROVE  /\ EndedRow(sup[i]) \in Row
             /\ EndedRow(sup[i]).place = sup[i].place
             /\ \/ EndedRow(sup[i]).state = "withdrawn" /\ sup[i].state = "waiting"
                \/ /\ sup[i].state = "active"
                   /\ EndedRow(sup[i]) = [sup[i] EXCEPT !.state = "removed"]
  <2>1. i \in Ids /\ sup[i] \in Row /\ sup[i].state \in {"waiting", "active"}
    BY DEF SupInv, TypeOK, Deleting, LockInv, DeletionHolds
  <2> QED
    BY <2>1 DEF EndedRow, Row, State
<1>4. sup' \in [Ids -> Row]
  BY <1>1, <1>3 DEF SupInv, TypeOK
<1>5. /\ \A i \in Ids \ del.ended : sup'[i] = sup[i]
      /\ \A i \in Ids \cap del.ended : sup'[i].place = sup[i].place /\
           \/ sup[i].state = "waiting" /\ sup'[i].state = "withdrawn"
           \/ /\ sup[i].state = "active" /\ sup'[i].state = "removed"
              /\ sup'[i].waited = sup[i].waited
              /\ sup'[i].createdBy = sup[i].createdBy
              /\ sup'[i].decidedBy = sup[i].decidedBy
              /\ sup'[i].forDays = sup[i].forDays
              /\ sup'[i].expires = sup[i].expires
  <2>1. \A i \in Ids \ del.ended : sup'[i] = sup[i]
    BY <1>1
  <2>2. ASSUME NEW i \in Ids \cap del.ended
        PROVE  /\ sup'[i].place = sup[i].place
               /\ \/ sup[i].state = "waiting" /\ sup'[i].state = "withdrawn"
                  \/ /\ sup[i].state = "active" /\ sup'[i].state = "removed"
                     /\ sup'[i].waited = sup[i].waited
                     /\ sup'[i].createdBy = sup[i].createdBy
                     /\ sup'[i].decidedBy = sup[i].decidedBy
                     /\ sup'[i].forDays = sup[i].forDays
                     /\ sup'[i].expires = sup[i].expires
    <3>1. sup'[i] = EndedRow(sup[i]) /\ sup[i] \in Row
      BY <1>1 DEF SupInv, TypeOK
    <3>2. CASE sup[i].state = "active" /\ sup'[i] = [sup[i] EXCEPT !.state = "removed"]
      BY <3>1, <3>2 DEF Row
    <3> QED
      BY <1>3, <3>1, <3>2
  <2> QED
    BY <2>1, <2>2
<1>6. TypeOK'
  <2>1. \A i \in Ids : sup'[i].state \in {"active", "removed"} =>
          sup'[i].forDays = None <=> sup'[i].expires = None
    BY <1>5 DEF SupInv, TypeOK
  <2>2. group' \in BOOLEAN
    BY <1>1
  <2> QED
    BY <1>1, <1>2, <1>4, <2>1, <2>2 DEF SupInv, TypeOK
<1>7. LockInv'
  BY <1>1, <1>2, <1>5, SuppressionsAssumption
     DEF SupInv, LockInv, WritersHold, Holds, DeletionHolds
<1>8. AlarmInv'
  BY <1>1, <1>5 DEF SupInv, AlarmInv, ActivatedByOther, ClosedByActive, WasActive
<1>9. GroupInv'
  <2>1. EndedSoFar' /\ DeletesGroup'
    BY <1>2 DEF EndedSoFar, DeletesGroup
  <2>2. EndsWithGroup'
    BY <1>1, <1>2, <1>5 DEF SupInv, GroupInv, EndedSoFar, EndsWithGroup
  <2> QED
    BY <2>1, <2>2 DEF GroupInv
<1> QED
  BY <1>6, <1>7, <1>8, <1>9 DEF SupInv

LEMMA RollbackDeleteInv ==
  ASSUME SupInv, RollbackDelete
  PROVE  SupInv'
<1>1. del.pc # 0 /\ UNCHANGED <<now, approval, group, sup, tx, source, batch>>
  BY DEF RollbackDelete
<1>2. /\ owner' \in [Ids -> People \cup {None, Deletion}]
      /\ \A i \in Ids : owner'[i] = IF owner[i] = Deletion THEN None ELSE owner[i]
      /\ del' \in Deleting /\ del'.pc = 0 /\ del'.ended = {}
      /\ del'.late = {}
  BY FinishDeleteKeeps DEF RollbackDelete, SupInv
<1>3. TypeOK'
  BY <1>1, <1>2 DEF SupInv, TypeOK
<1>4. LockInv'
  BY <1>1, <1>2, SuppressionsAssumption
     DEF SupInv, LockInv, WritersHold, Holds, DeletionHolds
<1>5. AlarmInv'
  BY <1>1 DEF SupInv, AlarmInv, ActivatedByOther, ClosedByActive, WasActive
<1>6. GroupInv'
  BY <1>1, <1>2 DEF SupInv, GroupInv, EndedSoFar, DeletesGroup,
     EndsWithGroup
<1> QED
  BY <1>3, <1>4, <1>5, <1>6 DEF SupInv

-----------------------------------------------------------------------------
(* Alarm batches *)

LEMMA BatchInv ==
  ASSUME SupInv, ArriveBatch \/ ReadSuppressions \/ InsertAlarm \/ EndBatch
  PROVE  SupInv'
<1>1. UNCHANGED <<now, approval, group, sup, owner, tx, del, source>>
  BY DEF ArriveBatch, ReadSuppressions, InsertAlarm, EndBatch
<1>2. /\ batch' \in Batch
      /\ batch'.alarm.state = "suppressed" => WasActive(batch'.alarm.by)
      /\ \A i \in batch'.matches : WasActive(i)
  <2>0. /\ batch \in Batch /\ now \in Time
        /\ batch.alarm.state = "suppressed" => WasActive(batch.alarm.by)
        /\ \A i \in batch.matches : WasActive(i)
    BY DEF SupInv, TypeOK, AlarmInv, ClosedByActive
  <2>1. CASE ArriveBatch
    BY <2>0, <2>1 DEF ArriveBatch, Batch
  <2>2. CASE ReadSuppressions
    <3>1. \A i \in {j \in Ids : Matches(sup[j])} : WasActive(i)
      BY DEF Matches, WasActive
    <3> QED
      BY <2>0, <2>2, <3>1 DEF ReadSuppressions, Batch
  <2>3. CASE batch' = IdleBatch
    BY <2>3, IdleBatchTyped DEF IdleBatch, OpenAlarm
  <2>4. CASE \E i \in batch.matches :
               batch' = [batch EXCEPT !.pc = "done", !.matches = {},
                           !.alarm = [state |-> "suppressed", by |-> i]]
    <3>1. PICK i \in batch.matches :
            batch' = [batch EXCEPT !.pc = "done", !.matches = {},
                        !.alarm = [state |-> "suppressed", by |-> i]]
      BY <2>4
    <3> DEFINE a == [state |-> "suppressed", by |-> i]
    <3>2. a \in Alarm /\ a.by = i /\ WasActive(i)
      BY <2>0, SuppressedTyped DEF WasActive
    <3> HIDE DEF a
    <3>3. batch' \in Batch /\ batch'.alarm = a /\ batch'.matches = {}
      BY <2>0, <3>1, <3>2 DEF Batch, a
    <3> QED
      BY <3>2, <3>3
  <2> QED
    BY <2>1, <2>2, <2>3, <2>4 DEF InsertAlarm, EndBatch
<1>3. TypeOK'
  BY <1>1, <1>2 DEF SupInv, TypeOK
<1>4. ClosedByActive'
  BY <1>1, <1>2 DEF SupInv, AlarmInv, ClosedByActive, WasActive
<1> QED
  BY <1>1, <1>3, <1>4, TablesKept DEF SupInv, AlarmInv

-----------------------------------------------------------------------------
LEMMA NextInv == SupInv /\ [Next]_vars => SupInv'
<1> SUFFICES ASSUME SupInv, [Next]_vars PROVE SupInv'
  OBVIOUS
<1>1. CASE \E u \in People : PersonNext(u)
  BY <1>1, RequestInv, InsertRequestInv, LockRowInv, WriteRowInv, RollbackInv
     DEF PersonNext
<1>2. CASE Tick \/ SetApproval
  BY <1>2, TickInv
<1>3. CASE Triage \/ \E i \in Ids : CloseCovered(i)
  BY <1>3, SourceInv
<1>4. CASE BeginDelete \/ EndSuppressions \/ DeleteGroup \/ RollbackDelete
  BY <1>4, BeginDeleteInv, EndSuppressionsInv, DeleteGroupInv, RollbackDeleteInv
<1>5. CASE ArriveBatch \/ ReadSuppressions \/ InsertAlarm \/ EndBatch
  BY <1>5, BatchInv
<1>6. CASE UNCHANGED vars
  <2>1. UNCHANGED <<now, approval, group, sup, owner, tx, del, source, batch>>
    BY <1>6 DEF vars
  <2>2. TypeOK' /\ ClosedByActive'
    BY <2>1 DEF SupInv, TypeOK, AlarmInv, ClosedByActive, WasActive
  <2> QED
    BY <2>1, <2>2, TablesKept DEF SupInv, AlarmInv
<1> QED
  BY <1>1, <1>2, <1>3, <1>4, <1>5, <1>6 DEF Next

LEMMA Invariance == Spec => []SupInv
<1>1. Init => SupInv
  BY InitInv
<1>2. SupInv /\ [Next]_vars => SupInv'
  BY NextInv
<1> QED
  BY <1>1, <1>2, PTL DEF Spec

-----------------------------------------------------------------------------
(* Results *)

(* Suppressions, transactions, the deletion and the alarms keep their      *)
(* types; a suppression has an end when one was asked for, from its        *)
(* activation on.                                                          *)
THEOREM TypeCorrect == Spec => []TypeOK
<1>1. SupInv => TypeOK
  BY DEF SupInv
<1> QED
  BY <1>1, Invariance, PTL

(* An alarm that ingest or close_source closed was closed by a suppression *)
(* that was active, approved by somebody else if it had to wait.           *)
THEOREM ClosedByApproved == Spec => []QuietedByApproved
<1>1. SupInv => QuietedByApproved
  BY DEF SupInv, AlarmInv, ActivatedByOther, ClosedByActive, WasActive,
     QuietedByApproved
<1> QED
  BY <1>1, Invariance, PTL

(* host_group_writes::delete leaves no suppression of the group waiting or *)
(* active, whatever decisions, withdrawals and removals overlap it, except *)
(* a row that an overlapping request inserted too late for its statement.  *)
THEOREM DeletionEndsAll == Spec => []EndsWithGroup
<1>1. SupInv => EndsWithGroup
  BY DEF SupInv, GroupInv
<1> QED
  BY <1>1, Invariance, PTL

(* decide, withdraw, remove and the deletion of the group change a row     *)
(* only from the state that they checked, overlapping or not.              *)
THEOREM OneOutcome == Spec => Lifecycle
<1> DEFINE Moves ==
  \A i \in Ids : sup'[i].state # sup[i].state =>
       <<sup[i].state, sup'[i].state>> \in
         {"unused"} \X {"waiting", "active"}
         \cup {"waiting"} \X {"active", "rejected", "withdrawn"}
         \cup {<<"active", "removed">>}
<1>1. ASSUME SupInv, [Next]_vars
      PROVE  [Moves]_vars
  <2>1. CASE UNCHANGED sup
    BY <2>1
  <2>2. ASSUME NEW u \in People, NEW i \in Ids, NEW f \in Periods,
               InsertRequest(u, i, f)
        PROVE  Moves
    BY <1>1, <2>2 DEF InsertRequest, SupInv, TypeOK
  <2>3. ASSUME NEW u \in People, WriteRow(u)
        PROVE  Moves
    <3>1. /\ tx[u].id \in Ids /\ tx[u].op \in Ops /\ sup[tx[u].id] \in Row
          /\ sup[tx[u].id].state = IF tx[u].op = "remove" THEN "active" ELSE "waiting"
      BY <1>1, <2>3 DEF WriteRow, SupInv, LockInv, WritersHold, Holds, TypeOK
    <3>2. Written(sup[tx[u].id], u, tx[u].op).state =
            CASE tx[u].op = "approve"  -> "active"
              [] tx[u].op = "reject"   -> "rejected"
              [] tx[u].op = "withdraw" -> "withdrawn"
              [] tx[u].op = "remove"   -> "removed"
      BY <3>1 DEF Written, Approved, Row, Ops
    <3>3. \A i \in Ids : sup'[i] = IF i = tx[u].id
                                   THEN Written(sup[tx[u].id], u, tx[u].op)
                                   ELSE sup[i]
      BY <1>1, <2>3, <3>1 DEF WriteRow, SupInv, TypeOK
    <3> QED
      BY <3>1, <3>2, <3>3 DEF Ops
  <2>4. CASE DeleteGroup
    <3>1. \A i \in del.ended :
            sup[i] \in Row /\ sup[i].state \in {"waiting", "active"}
      BY <1>1 DEF SupInv, LockInv, DeletionHolds, TypeOK, Deleting
    <3>2. \A i \in Ids : sup'[i] = IF i \in del.ended THEN EndedRow(sup[i])
                                                      ELSE sup[i]
      BY <2>4 DEF DeleteGroup
    <3> QED
      BY <3>1, <3>2 DEF EndedRow, Row
  <2> QED
    BY <1>1, <2>1, <2>2, <2>3, <2>4 DEF Next, PersonNext, vars, Tick,
       SetApproval, Request, LockRow, Rollback, Triage, CloseCovered,
       BeginDelete, EndSuppressions, RollbackDelete, ArriveBatch,
       ReadSuppressions, InsertAlarm, EndBatch
<1> QED
  BY <1>1, Invariance, PTL DEF Spec, Lifecycle
=============================================================================
