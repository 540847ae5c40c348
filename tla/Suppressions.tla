---------------------------- MODULE Suppressions ----------------------------
(***************************************************************************)
(* Alarm suppressions: people request, decide, withdraw and remove them,   *)
(* a host group is deleted under them, and ingest closes new alarms by     *)
(* them.                                                                   *)
(*                                                                         *)
(* Every transaction runs at READ COMMITTED.  decide, withdraw and remove  *)
(* lock the suppression's row, check it and write it later; request checks *)
(* the group and inserts later, and locks nothing.  The rules, programs    *)
(* and commands all match here: the alarms are of the one program that the *)
(* suppressions are about, on one host, which is in the group.             *)
(***************************************************************************)
EXTENDS Naturals, FiniteSets

CONSTANTS
  People,    \* console users, each with at most one transaction at a time
  Ids,       \* rows of alarm_suppressions
  MaxTime,   \* bound on the clock
  Periods,   \* for_days a person may ask for, in ticks; None: until removed
  None,      \* NULL
  Deletion   \* the transaction that deletes the group, as a holder of locks

ASSUME SuppressionsAssumption ==
  /\ None \notin People \cup Nat
  /\ Deletion \notin People \cup {None}
  /\ MaxTime \in Nat
  /\ Periods \subseteq Nat \cup {None}

VARIABLES
  now,       \* the platform's clock
  approval,  \* setting suppressions.require_approval
  group,     \* does the host group exist?
  sup,       \* table alarm_suppressions
  owner,     \* the transaction that has locked each of its rows
  tx,        \* the people's transactions
  del,       \* the group's deletion: its next statement, and what it ends
  source,    \* the alarm the suppressions are derived from
  batch      \* an alarm batch with a new alarm, and what became of it

vars == <<now, approval, group, sup, owner, tx, del, source, batch>>

Time == 0 .. MaxTime

State == {"waiting", "active", "rejected", "withdrawn", "removed"}

(* "unused" is a row that does not exist yet.  waited is a history: was    *)
(* the row inserted waiting?                                               *)
Row ==
  [state : State \cup {"unused"}, place : {"group", "all"},
   createdBy : People \cup {None}, decidedBy : People \cup {None, Deletion},
   forDays : Periods \cup {None}, expires : Nat \cup {None}, waited : BOOLEAN]

UnusedRow ==
  [state |-> "unused", place |-> "all", createdBy |-> None,
   decidedBy |-> None, forDays |-> None, expires |-> None, waited |-> FALSE]

Ops == {"approve", "reject", "withdraw", "remove"}

Transaction ==
  [pc : {"idle", "insert", "write"}, op : Ops \cup {None},
   id : Ids \cup {None}, place : {"group", "all"}]

IdleTx == [pc |-> "idle", op |-> None, id |-> None, place |-> "all"]

(* An alarm: open, closed by a suppression, or triaged by a person. *)
Alarm == [state : {"open", "suppressed", "triaged"}, by : Ids \cup {None}]

(* The group's deletion.  late is a history: the rows that requests put    *)
(* into the group behind the statement that ends rows of their state.      *)
Deleting == [pc : 0 .. 3, ended : SUBSET Ids, late : SUBSET Ids]

(* An alarm batch. *)
Batch == [pc : {"idle", "read", "insert", "done"}, at : Time,
          matches : SUBSET Ids, alarm : Alarm]

TypeOK ==
  /\ now \in Time
  /\ approval \in BOOLEAN
  /\ group \in BOOLEAN
  /\ sup \in [Ids -> Row]
  /\ owner \in [Ids -> People \cup {None, Deletion}]
  /\ tx \in [People -> Transaction]
  /\ del \in Deleting
  /\ source \in Alarm
  /\ batch \in Batch
  /\ \A i \in Ids : sup[i].state \in {"active", "removed"} =>
       sup[i].forDays = None <=> sup[i].expires = None

OpenAlarm == [state |-> "open", by |-> None]

IdleBatch ==
  [pc |-> "idle", at |-> 0, matches |-> {}, alarm |-> OpenAlarm]

Init ==
  /\ now = 0
  /\ approval \in BOOLEAN
  /\ group = TRUE
  /\ sup = [i \in Ids |-> UnusedRow]
  /\ owner = [i \in Ids |-> None]
  /\ tx = [u \in People |-> IdleTx]
  /\ del = [pc |-> 0, ended |-> {}, late |-> {}]
  /\ source = OpenAlarm
  /\ batch = IdleBatch

Tick ==
  /\ now < MaxTime
  /\ now' = now + 1
  /\ UNCHANGED <<approval, group, sup, owner, tx, del, source, batch>>

SetApproval ==
  /\ approval' = ~ approval
  /\ UNCHANGED <<now, group, sup, owner, tx, del, source, batch>>

(* Faulty variant: the active suppressions are ended before the waiting.   *)
EndedStatesSwapped == <<"active", "waiting">>

(* The states that the statements of host_group_writes::delete end, in     *)
(* order.                                                                  *)
EndedStates == <<"waiting", "active">>

---------------------------------------------------------------------------
(* request *)

(* The checks: a group must exist. *)
Request(u, place) ==
  /\ tx[u].pc = "idle"
  /\ place = "group" => group
  /\ tx' = [tx EXCEPT ![u] = [IdleTx EXCEPT !.pc = "insert", !.place = place]]
  /\ UNCHANGED <<now, approval, group, sup, owner, del, source, batch>>

Expires(forDays) == IF forDays = None THEN None ELSE now + forDays

(* close_source: an active suppression that covers the alarm closes it if  *)
(* it is still open.                                                       *)
CloseSource(i, row) ==
  source' = IF /\ row.state = "active"
               /\ source.state = "open"
               /\ row.place = "group" => group
            THEN [state |-> "suppressed", by |-> i]
            ELSE source

(* The group's deletion does not see a row inserted now in this state. *)
Missed(state) == ~ group \/ \E n \in 1 .. del.pc - 1 : EndedStates[n] = state

(* The rest of request: the setting decides whether the row waits.  The    *)
(* group is not looked at again, and no lock keeps its deletion away.      *)
InsertRequest(u, i, forDays) ==
  LET row ==
        [state     |-> IF approval THEN "waiting" ELSE "active",
         place     |-> tx[u].place,
         createdBy |-> u,
         decidedBy |-> None,
         forDays   |-> forDays,
         expires   |-> IF approval THEN None ELSE Expires(forDays),
         waited    |-> approval]
  IN
  /\ tx[u].pc = "insert"
  /\ sup[i].state = "unused"
  /\ sup' = [sup EXCEPT ![i] = row]
  /\ CloseSource(i, row)
  /\ tx' = [tx EXCEPT ![u] = IdleTx]
  /\ del' = IF row.place = "group" /\ Missed(row.state)
            THEN [del EXCEPT !.late = @ \cup {i}] ELSE del
  /\ UNCHANGED <<now, approval, group, owner, batch>>

---------------------------------------------------------------------------
(* decide, withdraw and remove *)

(* Faulty variant: decide does not compare the requester with the caller. *)
MayAnyone(u, i, op) ==
  CASE op = "approve"  -> /\ sup[i].state = "waiting"
                          /\ sup[i].place = "group" => group
    [] op = "reject"   -> sup[i].state = "waiting"
    [] op = "withdraw" -> sup[i].state = "waiting" /\ sup[i].createdBy = u
    [] op = "remove"   -> sup[i].state = "active"

(* What the transaction checks once it has the row: the row's state, who   *)
(* asked for it, and for an approval that the row's group still exists.    *)
May(u, i, op) ==
  CASE op = "approve"  -> /\ sup[i].state = "waiting"
                          /\ sup[i].createdBy # u
                          /\ sup[i].place = "group" => group
    [] op = "reject"   -> sup[i].state = "waiting" /\ sup[i].createdBy # u
    [] op = "withdraw" -> sup[i].state = "waiting" /\ sup[i].createdBy = u
    [] op = "remove"   -> sup[i].state = "active"

(* Faulty variant: the SELECT has no FOR UPDATE. *)
LockRowUnlocked(u, i, op) ==
  /\ tx[u].pc = "idle"
  /\ May(u, i, op)
  /\ tx' = [tx EXCEPT ![u] =
       [pc |-> "write", op |-> op, id |-> i, place |-> "all"]]
  /\ UNCHANGED <<now, approval, group, sup, owner, del, source, batch>>

(* SELECT ... FOR UPDATE, which waits for the row's owner. *)
LockRow(u, i, op) ==
  /\ tx[u].pc = "idle"
  /\ owner[i] = None
  /\ May(u, i, op)
  /\ owner' = [owner EXCEPT ![i] = u]
  /\ tx' = [tx EXCEPT ![u] =
       [pc |-> "write", op |-> op, id |-> i, place |-> "all"]]
  /\ UNCHANGED <<now, approval, group, sup, del, source, batch>>

(* Faulty variant: the period of an approved request has no end. *)
ApprovedForever(row, u) ==
  [row EXCEPT !.state = "active", !.decidedBy = u]

(* The For period starts with the approval. *)
Approved(row, u) ==
  [row EXCEPT !.state = "active", !.decidedBy = u,
              !.expires = Expires(row.forDays)]

Written(row, u, op) ==
  CASE op = "approve"  -> Approved(row, u)
    [] op = "reject"   -> [row EXCEPT !.state = "rejected", !.decidedBy = u]
    [] op = "withdraw" -> [row EXCEPT !.state = "withdrawn", !.decidedBy = u]
    [] op = "remove"   -> [row EXCEPT !.state = "removed"]

(* The end of a transaction: its row is unlocked. *)
Finish(u) ==
  /\ owner' = [i \in Ids |-> IF owner[i] = u THEN None ELSE owner[i]]
  /\ tx' = [tx EXCEPT ![u] = IdleTx]

(* The write and the commit. *)
WriteRow(u) ==
  LET i == tx[u].id
      row == Written(sup[i], u, tx[u].op)
  IN
  /\ tx[u].pc = "write"
  /\ sup' = [sup EXCEPT ![i] = row]
  /\ IF tx[u].op = "approve" THEN CloseSource(i, row) ELSE UNCHANGED source
  /\ Finish(u)
  /\ UNCHANGED <<now, approval, group, del, batch>>

(* A database error or a deadline: the transaction rolls back. *)
Rollback(u) ==
  /\ tx[u].pc # "idle"
  /\ Finish(u)
  /\ UNCHANGED <<now, approval, group, sup, del, source, batch>>

(* A person's triage of the source alarm, which may open it again. *)
Triage ==
  /\ source' \in {OpenAlarm, [state |-> "triaged", by |-> None]}
  /\ UNCHANGED <<now, approval, group, sup, owner, tx, del, batch>>

(* close_covered, in a transaction of its own after a bulk request: by     *)
(* then the suppression may have been removed.                             *)
CloseCovered(i) ==
  /\ sup[i].state = "active" /\ sup[i].place = "all"
  /\ CloseSource(i, sup[i])
  /\ UNCHANGED <<now, approval, group, sup, owner, tx, del, batch>>

---------------------------------------------------------------------------
(* host_group_writes::delete, once no role reaches the group *)

BeginDelete ==
  /\ group
  /\ del.pc = 0
  /\ del' = [del EXCEPT !.pc = 1]
  /\ UNCHANGED <<now, approval, group, sup, owner, tx, source, batch>>

(* UPDATE alarm_suppressions ... WHERE state = ...: waits for the owners   *)
(* of the rows, and holds them.  The new states show with the commit.      *)
EndSuppressions ==
  LET rows == {i \in Ids : /\ sup[i].place = "group"
                           /\ sup[i].state = EndedStates[del.pc]}
  IN
  /\ del.pc \in {1, 2}
  /\ \A i \in rows : owner[i] = None
  /\ owner' = [i \in Ids |-> IF i \in rows THEN Deletion ELSE owner[i]]
  /\ del' = [pc |-> del.pc + 1, ended |-> del.ended \cup rows,
             late |-> del.late \ rows]
  /\ UNCHANGED <<now, approval, group, sup, tx, source, batch>>

EndedRow(row) ==
  IF row.state = "waiting"
  THEN [row EXCEPT !.state = "withdrawn", !.decidedBy = Deletion]
  ELSE [row EXCEPT !.state = "removed"]

FinishDelete(late) ==
  /\ owner' = [i \in Ids |-> IF owner[i] = Deletion THEN None ELSE owner[i]]
  /\ del' = [pc |-> 0, ended |-> {}, late |-> late]

(* DELETE FROM console_asset_groups, and the commit. *)
DeleteGroup ==
  /\ del.pc = 3
  /\ group' = FALSE
  /\ sup' = [i \in Ids |->
       IF i \in del.ended THEN EndedRow(sup[i]) ELSE sup[i]]
  /\ FinishDelete(del.late)
  /\ UNCHANGED <<now, approval, tx, source, batch>>

RollbackDelete ==
  /\ del.pc # 0
  /\ FinishDelete({})
  /\ UNCHANGED <<now, approval, group, sup, tx, source, batch>>

---------------------------------------------------------------------------
(* alarms::insert_batch with a new alarm *)

(* The batch's time is taken when it arrives. *)
ArriveBatch ==
  /\ batch.pc = "idle"
  /\ batch' = [batch EXCEPT !.pc = "read", !.at = now]
  /\ UNCHANGED <<now, approval, group, sup, owner, tx, del, source>>

(* The suppressions that the batch's query returns; a group that is gone   *)
(* has no hosts.                                                           *)
Matches(row) ==
  /\ row.state = "active"
  /\ row.expires # None => row.expires > batch.at
  /\ row.place = "group" => group

ReadSuppressions ==
  /\ batch.pc = "read"
  /\ batch' = [batch EXCEPT !.pc = "insert",
                            !.matches = {i \in Ids : Matches(sup[i])}]
  /\ UNCHANGED <<now, approval, group, sup, owner, tx, del, source>>

(* The first suppression that matches closes the alarm (any here: ids are  *)
(* alike); with none it stays open, and nothing more is said of it.        *)
InsertAlarm ==
  /\ batch.pc = "insert"
  /\ \/ /\ batch.matches = {}
        /\ batch' = IdleBatch
     \/ \E i \in batch.matches :
          batch' = [batch EXCEPT !.pc = "done", !.matches = {},
                      !.alarm = [state |-> "suppressed", by |-> i]]
  /\ UNCHANGED <<now, approval, group, sup, owner, tx, del, source>>

(* The next batch, or the end of one that failed. *)
EndBatch ==
  /\ batch.pc # "idle"
  /\ batch' = IdleBatch
  /\ UNCHANGED <<now, approval, group, sup, owner, tx, del, source>>

PersonNext(u) ==
  \/ \E place \in {"group", "all"} : Request(u, place)
  \/ \E i \in Ids, forDays \in Periods : InsertRequest(u, i, forDays)
  \/ \E i \in Ids, op \in Ops : LockRow(u, i, op)
  \/ WriteRow(u)
  \/ Rollback(u)

Next ==
  \/ Tick
  \/ SetApproval
  \/ \E u \in People : PersonNext(u)
  \/ Triage
  \/ \E i \in Ids : CloseCovered(i)
  \/ BeginDelete
  \/ EndSuppressions
  \/ DeleteGroup
  \/ RollbackDelete
  \/ ArriveBatch
  \/ ReadSuppressions
  \/ InsertAlarm
  \/ EndBatch

Spec == Init /\ [][Next]_vars

---------------------------------------------------------------------------
(* Properties *)

(* A suppression waits, is decided, withdrawn or ended once, and an active *)
(* one only goes away: no two of the transactions that race for a row,     *)
(* the group's deletion among them, overwrite each other's outcome.        *)
Lifecycle ==
  [][\A i \in Ids : sup'[i].state # sup[i].state =>
       <<sup[i].state, sup'[i].state>> \in
         {"unused"} \X {"waiting", "active"}
         \cup {"waiting"} \X {"active", "rejected", "withdrawn"}
         \cup {<<"active", "removed">>}]_vars

(* The suppression that closed an alarm was activated, and one that had to *)
(* wait was activated by somebody other than the requester, whatever the   *)
(* setting was switched to meanwhile.                                      *)
QuietedByApproved ==
  \A alarm \in {source, batch.alarm} : alarm.state = "suppressed" =>
    LET row == sup[alarm.by] IN
    /\ row.state \in {"active", "removed"}
    /\ row.waited => row.decidedBy \notin {None, row.createdBy}

(* Deleting a group ends its suppressions, also those that are being       *)
(* approved, withdrawn or removed meanwhile: none stays waiting or active, *)
(* except a row that an overlapping request inserted too late for the      *)
(* deletion's statement to see it.                                         *)
EndsWithGroup ==
  ~ group => \A i \in Ids \ del.late :
    sup[i].place = "group" => sup[i].state \notin {"waiting", "active"}
=============================================================================
