-------------------------------- MODULE Cases --------------------------------
(***************************************************************************)
(* Investigation cases: people open cases with items, decide each item's   *)
(* outcome, close and reopen the cases; the console's lazy checks reopen   *)
(* closed cases when an accepted risk runs out or resolved evidence comes  *)
(* back, and clear accepted risks that ran out in open cases.              *)
(*                                                                         *)
(* A transaction locks its case's row first, in the step that also makes   *)
(* its checks, and writes with its commit.  What it puts into the unique   *)
(* index of active items is there, for others to wait on, from the         *)
(* statement on.  Items are alarms, findings and vulnerabilities; status   *)
(* "open" is open or investigating.  The version that a request states is  *)
(* the one its page showed: a request with an older one is refused and     *)
(* changes nothing, so only those with the current one are actions.        *)
(***************************************************************************)
EXTENDS Integers, FiniteSets

CONSTANTS
  CaseIds,     \* rows of cases
  Refs,        \* what items point at
  People,      \* console users, one request at a time each
  Jobs,        \* console requests that run the lazy checks
  ReopenBatch, \* REOPEN_BATCH
  Watch,       \* EVIDENCE_WATCH_DAYS, in ticks
  MaxTime,     \* bound on the clock
  MaxChanges,  \* bound on the changes of the evidence
  MaxFaults,   \* bound on the transactions that fail
  None         \* NULL

ASSUME CasesAssumption ==
  /\ None \notin CaseIds \cup Refs \cup People \cup Jobs \cup Nat
  /\ None \notin {"resolved", "accepted_risk", "expected"}
  /\ People \cap Jobs = {}
  /\ ReopenBatch \in Nat \ {0}
  /\ Watch \in Nat
  /\ MaxTime \in Nat /\ MaxChanges \in Nat /\ MaxFaults \in Nat

VARIABLES
  now,      \* the platform's clock
  present,  \* the refs whose evidence is there
  status,   \* cases.status, by case; "unused": no such row
  closedAt, \* cases.closed_at
  item,     \* table case_items: by case and ref, a row or None
  owner,    \* the transaction that has locked each case's row
  claimed,  \* the transaction with an uncommitted entry in the unique index
  tx,       \* the transactions of people and jobs
  changes,  \* the changes of the evidence so far
  faults    \* the failed transactions so far

tables == <<status, closedAt, item>>
vars == <<now, present, status, closedAt, item, owner, claimed, tx, changes,
          faults>>

Sessions == People \cup Jobs

Time == 0 .. MaxTime

(* "expected" stands for the outcomes that are plain decisions. *)
Outcomes == {"resolved", "accepted_risk", "expected"}

Row ==
  [active : BOOLEAN, outcome : Outcomes \cup {None}, until : Nat \cup {None}]

NewRow == [active |-> TRUE, outcome |-> None, until |-> None]

Triggers == {"accepted_risk_expired", "evidence_returned", "clear"}

Ops == {"create", "add", "remove", "outcome", "close", "reopen"} \cup Triggers

(* pc "load": a job is about to list what is due; "next": it visits the    *)
(* listed cases in todo; "items": it has locked one.  claims: the refs to  *)
(* put into the unique index; refs: what the request is about.             *)
Transaction ==
  [pc : {"idle", "load", "next", "items", "claim", "commit"}, op : Ops \cup {None},
   case : CaseIds \cup {None}, refs : SUBSET Refs, outcome : Outcomes \cup {None},
   claims : SUBSET Refs, todo : SUBSET CaseIds, at : Time]

IdleTx ==
  [pc |-> "idle", op |-> None, case |-> None, refs |-> {}, outcome |-> None,
   claims |-> {}, todo |-> {}, at |-> 0]

TypeOK ==
  /\ now \in Time
  /\ present \in SUBSET Refs
  /\ status \in [CaseIds -> {"unused", "open", "closed"}]
  /\ closedAt \in [CaseIds -> Time \cup {None}]
  /\ item \in [CaseIds -> [Refs -> Row \cup {None}]]
  /\ owner \in [CaseIds -> Sessions \cup {None}]
  /\ claimed \in [Refs -> Sessions \cup {None}]
  /\ tx \in [Sessions -> Transaction]
  /\ changes \in 0 .. MaxChanges
  /\ faults \in 0 .. MaxFaults
  /\ \A c \in CaseIds, r \in Refs : item[c][r] # None =>
       (item[c][r].until # None <=> item[c][r].outcome = "accepted_risk")

Init ==
  /\ now = 0
  /\ present = Refs
  /\ status = [c \in CaseIds |-> "unused"]
  /\ closedAt = [c \in CaseIds |-> None]
  /\ item = [c \in CaseIds |-> [r \in Refs |-> None]]
  /\ owner = [c \in CaseIds |-> None]
  /\ claimed = [r \in Refs |-> None]
  /\ tx = [s \in Sessions |-> IdleTx]
  /\ changes = 0
  /\ faults = 0

Items(c) == {r \in Refs : item[c][r] # None}

Active(c, r) == item[c][r] # None /\ item[c][r].active

(* TAKEN: another open case holds one of the case's items. *)
Taken(c) ==
  \E r \in Items(c), other \in CaseIds \ {c} : Active(other, r)

(* outcome_until has passed. *)
RanOut(row, at) == row.outcome = "accepted_risk" /\ row.until <= at

(* item_gone is about the evidence. *)
Returned(r, row) == row.outcome = "resolved" /\ r \in present

---------------------------------------------------------------------------
(* Outside the cases *)

Tick ==
  /\ now < MaxTime
  /\ now' = now + 1
  /\ UNCHANGED <<present, tables, owner, claimed, tx, changes, faults>>

(* A scan, an inventory or an alarm changes what is there. *)
EvidenceChanges(r) ==
  /\ changes < MaxChanges
  /\ present' = IF r \in present THEN present \ {r} ELSE present \cup {r}
  /\ changes' = changes + 1
  /\ UNCHANGED <<now, tables, owner, claimed, tx, faults>>

---------------------------------------------------------------------------
(* The end of a transaction *)

Released(s) ==
  /\ owner' = [c \in CaseIds |-> IF owner[c] = s THEN None ELSE owner[c]]
  /\ claimed' = [r \in Refs |-> IF claimed[r] = s THEN None ELSE claimed[r]]

(* A person's request ends with its transaction; a job goes on with the    *)
(* next case.                                                              *)
AfterTx(s) ==
  IF s \in People
  THEN IdleTx
  ELSE [IdleTx EXCEPT !.pc = "next", !.op = tx[s].op, !.todo = tx[s].todo,
                      !.at = tx[s].at]

Finish(s) ==
  /\ Released(s)
  /\ tx' = [tx EXCEPT ![s] = AfterTx(s)]

(* A database error or a deadlock: the request fails. *)
Fail(s) ==
  /\ tx[s].pc # "idle"
  /\ faults < MaxFaults
  /\ faults' = faults + 1
  /\ Released(s)
  /\ tx' = [tx EXCEPT ![s] = IdleTx]
  /\ UNCHANGED <<now, present, tables, changes>>

---------------------------------------------------------------------------
(* What people do *)

(* Faulty variant: the case's row is not locked. *)
BeginUnlocked(s, op, c, refs, outcome, claims) ==
  /\ tx[s].pc = "idle"
  /\ tx' = [tx EXCEPT ![s] = [IdleTx EXCEPT !.op = op, !.case = c,
              !.pc = IF claims = {} THEN "commit" ELSE "claim",
              !.refs = refs, !.outcome = outcome, !.claims = claims,
              !.at = now]]
  /\ UNCHANGED <<now, present, tables, owner, claimed, changes, faults>>

Begin(s, op, c, refs, outcome, claims) ==
  /\ tx[s].pc = "idle"
  /\ owner[c] = None
  /\ owner' = [owner EXCEPT ![c] = s]
  /\ tx' = [tx EXCEPT ![s] = [IdleTx EXCEPT !.op = op, !.case = c,
              !.pc = IF claims = {} THEN "commit" ELSE "claim",
              !.refs = refs, !.outcome = outcome, !.claims = claims,
              !.at = now]]
  /\ UNCHANGED <<now, present, tables, claimed, changes, faults>>

HeldElsewhere(c, r) == \E other \in CaseIds \ {c} : Active(other, r)

(* create: a new row, which nobody else sees, and its items. *)
Create(u, c, refs) ==
  /\ status[c] = "unused"
  /\ \A r \in refs : ~ HeldElsewhere(c, r)
  /\ Begin(u, "create", c, refs, None, refs)

AddItem(u, c, r) ==
  /\ status[c] = "open"
  /\ item[c][r] = None /\ ~ HeldElsewhere(c, r)
  /\ Begin(u, "add", c, {r}, None, {r})

RemoveItem(u, c, r) ==
  /\ status[c] = "open"
  /\ r \in Items(c)
  /\ Begin(u, "remove", c, {r}, None, {})

(* set_outcome, which clears with None; resolved needs the evidence gone.  *)
SetOutcome(u, c, r, outcome) ==
  /\ status[c] = "open"
  /\ r \in Items(c)
  /\ outcome = "resolved" => r \notin present
  /\ Begin(u, "outcome", c, {r}, outcome, {})

(* blocking_item *)
Blocking(c, r) ==
  LET row == item[c][r] IN
  row.outcome = None \/ Returned(r, row) \/ RanOut(row, now)

(* update to closed *)
Close(u, c) ==
  /\ status[c] = "open"
  /\ \A r \in Items(c) : ~ Blocking(c, r)
  /\ Begin(u, "close", c, {}, None, {})

(* update from closed, after reopen_conflict *)
Reopen(u, c) ==
  /\ status[c] = "closed"
  /\ ~ Taken(c)
  /\ Begin(u, "reopen", c, {}, None, Items(c))

---------------------------------------------------------------------------
(* The unique index, and the commit *)

(* Faulty variant: the index does not tell an active item of another case. *)
ClaimUnindexed(s) ==
  LET t == tx[s] IN
  /\ t.pc = "claim"
  /\ \A r \in t.claims : claimed[r] = None
  /\ claimed' = [r \in Refs |-> IF r \in t.claims THEN s ELSE claimed[r]]
  /\ tx' = [tx EXCEPT ![s].pc = "commit", ![s].claims = {}]
  /\ UNCHANGED <<now, present, tables, owner, changes, faults>>

(* The INSERT or UPDATE of active items waits for other transactions with  *)
(* the same refs.  (Two that wait for each other are a deadlock, of which  *)
(* the database fails one.)                                                *)
Claim(s) ==
  LET t == tx[s] IN
  /\ t.pc = "claim"
  /\ \A r \in t.claims : claimed[r] = None /\ ~ HeldElsewhere(t.case, r)
  /\ claimed' = [r \in Refs |-> IF r \in t.claims THEN s ELSE claimed[r]]
  /\ tx' = [tx EXCEPT ![s].pc = "commit", ![s].claims = {}]
  /\ UNCHANGED <<now, present, tables, owner, changes, faults>>

(* unique_violation: ItemInCase, or the job leaves the case closed. *)
Violate(s) ==
  /\ tx[s].pc = "claim"
  /\ \E r \in tx[s].claims : HeldElsewhere(tx[s].case, r)
  /\ Finish(s)
  /\ UNCHANGED <<now, present, tables, changes, faults>>

(* An UPDATE of every item of the case. *)
Reactivated(c, cleared) ==
  [r \in Refs |->
     IF item[c][r] = None THEN None
     ELSE IF r \in cleared THEN NewRow
     ELSE [item[c][r] EXCEPT !.active = TRUE]]

(* Faulty variant: the date of an accepted risk outlives it. *)
DecidedDateKept(row, outcome, at) ==
  [row EXCEPT !.outcome = outcome,
              !.until = IF outcome = "accepted_risk" THEN at + 1 ELSE @]

Decided(row, outcome, at) ==
  [row EXCEPT !.outcome = outcome,
              !.until = IF outcome = "accepted_risk" THEN at + 1 ELSE None]

(* The case's items as the transaction leaves them. *)
Written(t) ==
  LET rows == item[t.case] IN
  CASE t.op \in {"create", "add"} ->
         [r \in Refs |-> IF r \in t.refs THEN NewRow ELSE rows[r]]
    [] t.op = "remove" ->
         [r \in Refs |-> IF r \in t.refs THEN None ELSE rows[r]]
    [] t.op = "outcome" ->
         [r \in Refs |-> IF r \in t.refs THEN Decided(rows[r], t.outcome, t.at)
                                         ELSE rows[r]]
    [] t.op = "close" ->
         [r \in Refs |-> IF rows[r] = None THEN None
                         ELSE [rows[r] EXCEPT !.active = FALSE]]
    [] t.op \in {"reopen", "accepted_risk_expired", "evidence_returned"} ->
         Reactivated(t.case, t.refs)
    [] t.op = "clear" ->
         [r \in Refs |-> IF r \in t.refs THEN NewRow ELSE rows[r]]

Commit(s) ==
  LET t == tx[s]
      c == t.case
  IN
  /\ t.pc = "commit"
  /\ item' = [item EXCEPT ![c] = Written(t)]
  /\ status' = [status EXCEPT ![c] = IF t.op = "close" THEN "closed" ELSE "open"]
  /\ closedAt' = [closedAt EXCEPT ![c] = IF t.op = "close" THEN t.at ELSE None]
  /\ Finish(s)
  /\ UNCHANGED <<now, present, changes, faults>>

---------------------------------------------------------------------------
(* reopen_due *)

(* The case's items that a check is about. *)
DueItems(op, c, at) ==
  {r \in Items(c) :
     IF op = "evidence_returned" THEN Returned(r, item[c][r])
                                 ELSE RanOut(item[c][r], at)}

Due(op, c, at) ==
  /\ DueItems(op, c, at) # {}
  /\ IF op = "clear" THEN status[c] = "open"
                     ELSE status[c] = "closed" /\ ~ Taken(c)
  /\ op = "evidence_returned" => closedAt[c] >= at - Watch

(* Does c come before d in a check's list? *)
Precedes(op, c, d, at) ==
  IF op = "clear"
  THEN \A r \in DueItems(op, d, at) : \E q \in DueItems(op, c, at) :
         item[c][q].until <= item[d][r].until
  ELSE closedAt[c] >= closedAt[d]

StartChecks(j) ==
  /\ tx[j].pc = "idle"
  /\ tx' = [tx EXCEPT ![j] = [IdleTx EXCEPT !.pc = "load", !.at = now,
              !.op = "accepted_risk_expired"]]
  /\ UNCHANGED <<now, present, tables, owner, claimed, changes, faults>>

(* ORDER BY ... LIMIT REOPEN_BATCH, without a lock. *)
LoadDue(j, batch) ==
  LET due == {c \in CaseIds : Due(tx[j].op, c, tx[j].at)} IN
  /\ tx[j].pc = "load"
  /\ batch \subseteq due
  /\ batch = due \/ Cardinality(batch) = ReopenBatch
  /\ Cardinality(batch) <= ReopenBatch
  /\ \A c \in batch, d \in due \ batch : Precedes(tx[j].op, c, d, tx[j].at)
  /\ tx' = [tx EXCEPT ![j].pc = "next", ![j].todo = batch]
  /\ UNCHANGED <<now, present, tables, owner, claimed, changes, faults>>

(* Faulty variant: the job ends with its first check. *)
NextCheckNone(j) ==
  /\ tx[j].pc = "next" /\ tx[j].todo = {}
  /\ tx' = [tx EXCEPT ![j] = IdleTx]
  /\ UNCHANGED <<now, present, tables, owner, claimed, changes, faults>>

(* The next check, or the end of the job. *)
NextCheck(j) ==
  /\ tx[j].pc = "next" /\ tx[j].todo = {}
  /\ tx' = [tx EXCEPT ![j] =
       IF tx[j].op = "clear" THEN IdleTx
       ELSE [tx[j] EXCEPT !.pc = "load",
               !.op = IF tx[j].op = "accepted_risk_expired"
                      THEN "evidence_returned" ELSE "clear"]]
  /\ UNCHANGED <<now, present, tables, owner, claimed, changes, faults>>

(* What the job reads again with its lock. *)
StillDue(op, c, at) ==
  IF op = "clear" THEN status[c] # "closed" ELSE Due(op, c, at)

(* SELECT ... FOR UPDATE SKIP LOCKED: the case is skipped if it is locked  *)
(* or no longer due.                                                       *)
LockDue(j, c) ==
  LET t == tx[j] IN
  /\ t.pc = "next"
  /\ c \in t.todo
  /\ IF owner[c] = None /\ StillDue(t.op, c, t.at)
     THEN /\ owner' = [owner EXCEPT ![c] = j]
          /\ tx' = [tx EXCEPT ![j].pc = "items", ![j].case = c,
                              ![j].todo = @ \ {c}]
     ELSE /\ tx' = [tx EXCEPT ![j].todo = @ \ {c}]
          /\ UNCHANGED owner
  /\ UNCHANGED <<now, present, tables, claimed, changes, faults>>

(* The items that lose their outcome, by a statement of its own. *)
ReadItems(j) ==
  LET t == tx[j] IN
  /\ t.pc = "items"
  /\ tx' = [tx EXCEPT ![j].pc = IF t.op = "clear" THEN "commit" ELSE "claim",
              ![j].refs = DueItems(t.op, t.case, t.at),
              ![j].claims = IF t.op = "clear" THEN {} ELSE Items(t.case)]
  /\ UNCHANGED <<now, present, tables, owner, claimed, changes, faults>>

PersonNext(u) ==
  \/ \E c \in CaseIds, refs \in SUBSET Refs : Create(u, c, refs)
  \/ \E c \in CaseIds, r \in Refs : AddItem(u, c, r)
  \/ \E c \in CaseIds, r \in Refs : RemoveItem(u, c, r)
  \/ \E c \in CaseIds, r \in Refs, outcome \in Outcomes \cup {None} :
       SetOutcome(u, c, r, outcome)
  \/ \E c \in CaseIds : Close(u, c)
  \/ \E c \in CaseIds : Reopen(u, c)

TxNext(s) ==
  \/ Claim(s)
  \/ Violate(s)
  \/ Commit(s)

JobNext(j) ==
  \/ StartChecks(j)
  \/ \E batch \in SUBSET CaseIds : LoadDue(j, batch)
  \/ NextCheck(j)
  \/ \E c \in CaseIds : LockDue(j, c)
  \/ ReadItems(j)

Next ==
  \/ Tick
  \/ \E r \in Refs : EvidenceChanges(r)
  \/ \E u \in People : PersonNext(u)
  \/ \E j \in Jobs : JobNext(j)
  \/ \E s \in Sessions : TxNext(s)
  \/ \E s \in Sessions : Fail(s)

Spec == Init /\ [][Next]_vars

(* Transactions end, and people keep looking at their cases, which is what *)
(* runs the checks.                                                        *)
Fairness ==
  /\ \A j \in Jobs : WF_vars(JobNext(j))
  /\ \A s \in Sessions : WF_vars(TxNext(s))

FairSpec == Spec /\ Fairness

---------------------------------------------------------------------------
(* Properties *)

(* An open case holds all of its items, a closed one none, and no item is  *)
(* held by two cases: whatever requests to open, add and reopen race and   *)
(* fail, a case is never open with an item that another one took.          *)
HeldByOneCase ==
  \A c \in CaseIds, r \in Refs : item[c][r] # None =>
    /\ item[c][r].active <=> status[c] = "open"
    /\ item[c][r].active => ~ HeldElsewhere(c, r)

(* Every item of a closed case has an outcome: the check that clears what  *)
(* ran out in open cases does not race with a close.                       *)
ClosedIsDecided ==
  \A c \in CaseIds : status[c] = "closed" =>
    \A r \in Items(c) : item[c][r].outcome # None

(* A closed case whose accepted risk ran out, or whose resolved evidence   *)
(* is back while it is watched, does not stay closed: the checks reopen    *)
(* it, unless another open case takes one of its items.                    *)
DueIsReopened ==
  \A c \in CaseIds :
    []<>(/\ ~ Due("accepted_risk_expired", c, now)
         /\ ~ Due("evidence_returned", c, now))
=============================================================================
