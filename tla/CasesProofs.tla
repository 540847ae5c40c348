----------------------------- MODULE CasesProofs -----------------------------
(***************************************************************************)
(* The safety properties of Cases, for any numbers of cases, items, people *)
(* and jobs.                                                               *)
(***************************************************************************)
EXTENDS Cases, TLAPS

Reopening == {"reopen", "accepted_risk_expired", "evidence_returned"}

(* The status that an operation finds its case in. *)
Before(op) ==
  IF op = "create" THEN "unused" ELSE IF op \in Reopening THEN "closed" ELSE "open"

(* The refs that a transaction makes active. *)
Activates(t) ==
  IF t.op \in {"create", "add"} THEN t.refs
  ELSE IF t.op \in Reopening THEN Items(t.case) ELSE {}

(* A transaction past its checks has its case's row locked, and what it    *)
(* checked of the case still holds.                                        *)
Holds(s) ==
  tx[s].pc \in {"items", "claim", "commit"} =>
    /\ tx[s].op \in Ops /\ tx[s].case \in CaseIds
    /\ owner[tx[s].case] = s
    /\ status[tx[s].case] = Before(tx[s].op)

Prepared(s) ==
  tx[s].pc \in {"claim", "commit"} =>
    /\ tx[s].op \in {"outcome", "clear"} => tx[s].refs \subseteq Items(tx[s].case)
    /\ tx[s].op = "close" =>
         \A r \in Items(tx[s].case) : item[tx[s].case][r].outcome # None

(* What it makes active, it will put or has put into the unique index. *)
Indexed(s) ==
  /\ tx[s].pc = "claim" => Activates(tx[s]) \subseteq tx[s].claims
  /\ tx[s].pc = "commit" => \A r \in Activates(tx[s]) : claimed[r] = s

(* A job's operation is a check, and it lists cases that exist. *)
Listed(s) ==
  /\ s \in Jobs /\ tx[s].pc # "idle" => tx[s].op \in Triggers
  /\ \A c \in tx[s].todo : status[c] # "unused"

SessionOK(s) == Holds(s) /\ Prepared(s) /\ Indexed(s) /\ Listed(s)

SessionsOK == \A s \in Sessions : SessionOK(s)

(* An uncommitted entry of the unique index is of a transaction that only  *)
(* has to commit, and no other case holds its item.                        *)
ClaimsHold ==
  \A r \in Refs : claimed[r] # None =>
    /\ tx[claimed[r]].pc = "commit"
    /\ ~ HeldElsewhere(tx[claimed[r]].case, r)

UnusedIsEmpty == \A c \in CaseIds : status[c] = "unused" => Items(c) = {}

TablesOK == HeldByOneCase /\ ClosedIsDecided /\ UnusedIsEmpty

CasesInv == TypeOK /\ SessionsOK /\ ClaimsHold /\ TablesOK

-----------------------------------------------------------------------------
(* Facts that several steps need. *)

LEMMA IdleTyped ==
  /\ IdleTx \in Transaction
  /\ IdleTx.pc = "idle" /\ IdleTx.todo = {}
BY CasesAssumption DEF IdleTx, Transaction, Time

LEMMA TablesKept ==
  ASSUME TablesOK, UNCHANGED tables
  PROVE  TablesOK'
BY DEF TablesOK, tables, HeldByOneCase, HeldElsewhere, Active, ClosedIsDecided,
   UnusedIsEmpty, Items

(* A step of a session that leaves the tables and the others' locks alone  *)
(* disturbs no other session.                                              *)
LEMMA OthersKept ==
  ASSUME SessionsOK, NEW s \in Sessions, UNCHANGED tables,
         \A v \in Sessions \ {s} : tx'[v] = tx[v],
         \A c \in CaseIds : owner[c] \notin {s, None} => owner'[c] = owner[c],
         \A r \in Refs : claimed[r] \notin {s, None} => claimed'[r] = claimed[r],
         TypeOK
  PROVE  \A v \in Sessions \ {s} : SessionOK(v)'
<1> SUFFICES ASSUME NEW v \in Sessions \ {s}
             PROVE  SessionOK(v)'
  OBVIOUS
<1>1. /\ tx'[v] = tx[v] /\ v # None /\ UNCHANGED <<status, item>>
      /\ SessionOK(v) /\ tx[v] \in Transaction
  BY CasesAssumption DEF SessionsOK, tables, TypeOK, Sessions
<1>2. Holds(v)' /\ Listed(v)'
  BY <1>1 DEF SessionOK, Holds, Listed
<1>3. Prepared(v)'
  BY <1>1 DEF SessionOK, Prepared, Items
<1>4. Indexed(v)'
  <2>1. Activates(tx[v])' = Activates(tx[v])
    BY <1>1 DEF Activates, Items
  <2>2. Activates(tx[v]) \subseteq Refs
    BY <1>1 DEF Activates, Items, Transaction
  <2> QED
    BY <1>1, <2>1, <2>2 DEF SessionOK, Indexed
<1> QED
  BY <1>2, <1>3, <1>4 DEF SessionOK

(* The end of a transaction. *)
LEMMA ReleasedKeeps ==
  ASSUME TypeOK, NEW s \in Sessions, Released(s)
  PROVE  /\ owner' \in [CaseIds -> Sessions \cup {None}]
         /\ claimed' \in [Refs -> Sessions \cup {None}]
         /\ \A c \in CaseIds : owner[c] \notin {s, None} => owner'[c] = owner[c]
         /\ \A r \in Refs : claimed[r] \notin {s, None} => claimed'[r] = claimed[r]
         /\ \A r \in Refs : claimed'[r] # None =>
              claimed'[r] = claimed[r] /\ claimed[r] # s
BY DEF Released, TypeOK

LEMMA InitInv == Init => CasesInv
<1> SUFFICES ASSUME Init PROVE CasesInv
  OBVIOUS
<1>1. TypeOK
  BY IdleTyped, CasesAssumption DEF Init, TypeOK, Time
<1>2. SessionsOK
  BY IdleTyped DEF Init, SessionsOK, SessionOK, Holds, Prepared, Indexed, Listed
<1>3. ClaimsHold /\ TablesOK
  BY DEF Init, ClaimsHold, TablesOK, HeldByOneCase, ClosedIsDecided,
     UnusedIsEmpty, Items
<1> QED
  BY <1>1, <1>2, <1>3 DEF CasesInv

-----------------------------------------------------------------------------
(* Outside the cases. *)

LEMMA OutsideInv ==
  ASSUME CasesInv, Tick \/ \E r \in Refs : EvidenceChanges(r)
  PROVE  CasesInv'
<1>1. UNCHANGED <<status, closedAt, item, owner, claimed, tx, faults>>
  BY DEF Tick, EvidenceChanges, tables
<1>2. now' \in Time /\ present' \in SUBSET Refs /\ changes' \in 0 .. MaxChanges
  BY CasesAssumption DEF Tick, EvidenceChanges, CasesInv, TypeOK, Time
<1>3. TypeOK'
  BY <1>1, <1>2 DEF CasesInv, TypeOK
<1>4. SessionsOK'
  BY <1>1 DEF CasesInv, SessionsOK, SessionOK, Holds, Prepared, Indexed, Listed,
     Activates, Items
<1>5. ClaimsHold'
  BY <1>1 DEF CasesInv, ClaimsHold, HeldElsewhere, Active
<1> QED
  BY <1>1, <1>3, <1>4, <1>5, TablesKept DEF CasesInv, tables

-----------------------------------------------------------------------------
(* Requests of people. *)

LEMMA BeginInv ==
  ASSUME CasesInv, NEW u \in People, NEW op \in Ops \ Triggers,
         NEW c \in CaseIds, NEW refs \in SUBSET Refs,
         NEW outcome \in Outcomes \cup {None}, NEW STATE claims,
         claims \in SUBSET Refs,
         status[c] = Before(op),
         op \in {"create", "add"} => refs \subseteq claims,
         op = "reopen" => Items(c) \subseteq claims,
         op = "outcome" => refs \subseteq Items(c),
         op = "close" => \A r \in Items(c) : item[c][r].outcome # None,
         Begin(u, op, c, refs, outcome, claims)
  PROVE  CasesInv'
<1> DEFINE t == [IdleTx EXCEPT !.op = op, !.case = c,
                   !.pc = IF claims = {} THEN "commit" ELSE "claim",
                   !.refs = refs, !.outcome = outcome, !.claims = claims,
                   !.at = now]
<1>1. /\ tx[u].pc = "idle" /\ owner[c] = None
      /\ owner' = [owner EXCEPT ![c] = u]
      /\ tx' = [tx EXCEPT ![u] = t]
      /\ UNCHANGED <<now, present, status, closedAt, item, claimed, changes, faults>>
  BY DEF Begin, tables
<1>2. /\ t \in Transaction /\ t.op = op /\ t.case = c /\ t.refs = refs
      /\ t.claims = claims /\ t.todo = {}
      /\ t.pc = IF claims = {} THEN "commit" ELSE "claim"
  BY DEF IdleTx, Transaction, CasesInv, TypeOK
<1> HIDE DEF t
<1>3. /\ tx' \in [Sessions -> Transaction] /\ tx'[u] = t
      /\ \A v \in Sessions \ {u} : tx'[v] = tx[v]
  BY <1>1, <1>2 DEF CasesInv, TypeOK, Sessions
<1>4. /\ owner' \in [CaseIds -> Sessions \cup {None}] /\ owner'[c] = u
      /\ \A d \in CaseIds \ {c} : owner'[d] = owner[d]
  BY <1>1 DEF CasesInv, TypeOK, Sessions
<1>5. TypeOK'
  BY <1>1, <1>3, <1>4 DEF CasesInv, TypeOK
<1>6. \A v \in Sessions \ {u} : SessionOK(v)'
  BY <1>1, <1>3, <1>4, OthersKept DEF CasesInv, Sessions, tables
<1>7. SessionOK(u)'
  <2>1. Holds(u)' /\ Prepared(u)'
    BY <1>1, <1>2, <1>3, <1>4 DEF Holds, Prepared, Items, Triggers
  <2>2. Activates(tx[u])' \subseteq claims
    BY <1>1, <1>2, <1>3 DEF Activates, Items, Reopening, Triggers
  <2>3. Indexed(u)'
    BY <1>2, <1>3, <2>2 DEF Indexed
  <2>4. Listed(u)'
    BY <1>2, <1>3, CasesAssumption DEF Listed
  <2> QED
    BY <2>1, <2>3, <2>4 DEF SessionOK
<1>8. ClaimsHold'
  BY <1>1, <1>3 DEF CasesInv, TypeOK, ClaimsHold, HeldElsewhere, Active, Sessions
<1>9. TablesOK'
  BY <1>1, TablesKept DEF CasesInv, tables
<1> QED
  BY <1>5, <1>6, <1>7, <1>8, <1>9 DEF CasesInv, SessionsOK

LEMMA PersonInv ==
  ASSUME CasesInv, NEW u \in People, PersonNext(u)
  PROVE  CasesInv'
<1>1. ASSUME NEW c \in CaseIds, NEW refs \in SUBSET Refs, Create(u, c, refs)
      PROVE  CasesInv'
  BY <1>1, BeginInv DEF Create, Before, Ops, Triggers
<1>2. ASSUME NEW c \in CaseIds, NEW r \in Refs, AddItem(u, c, r)
      PROVE  CasesInv'
  BY <1>2, BeginInv DEF AddItem, Before, Ops, Triggers, Reopening
<1>3. ASSUME NEW c \in CaseIds, NEW r \in Refs, RemoveItem(u, c, r)
      PROVE  CasesInv'
  BY <1>3, BeginInv DEF RemoveItem, Before, Ops, Triggers, Reopening
<1>4. ASSUME NEW c \in CaseIds, NEW r \in Refs, NEW outcome \in Outcomes \cup {None},
             SetOutcome(u, c, r, outcome)
      PROVE  CasesInv'
  BY <1>4, BeginInv DEF SetOutcome, Before, Ops, Triggers, Reopening
<1>5. ASSUME NEW c \in CaseIds, Close(u, c)
      PROVE  CasesInv'
  <2>1. \A r \in Items(c) : item[c][r].outcome # None
    BY <1>5 DEF Close, Blocking
  <2> QED
    BY <1>5, <2>1, BeginInv DEF Close, Before, Ops, Triggers, Reopening
<1>6. ASSUME NEW c \in CaseIds, Reopen(u, c)
      PROVE  CasesInv'
  <2>1. Items(c) \in SUBSET Refs
    BY DEF Items
  <2> QED
    BY <1>6, <2>1, BeginInv DEF Reopen, Before, Ops, Triggers, Reopening
<1> QED
  BY <1>1, <1>2, <1>3, <1>4, <1>5, <1>6 DEF PersonNext

-----------------------------------------------------------------------------
(* The unique index, and the end of a transaction. *)

LEMMA ClaimInv ==
  ASSUME CasesInv, NEW s \in Sessions, Claim(s)
  PROVE  CasesInv'
<1> DEFINE t == [tx[s] EXCEPT !.pc = "commit", !.claims = {}]
<1>1. /\ tx[s].pc = "claim"
      /\ \A r \in tx[s].claims : claimed[r] = None /\ ~ HeldElsewhere(tx[s].case, r)
      /\ claimed' = [r \in Refs |-> IF r \in tx[s].claims THEN s ELSE claimed[r]]
      /\ tx' = [tx EXCEPT ![s] = t]
      /\ UNCHANGED <<now, present, status, closedAt, item, owner, changes, faults>>
  BY DEF Claim, tables
<1>2. /\ t \in Transaction /\ t.op = tx[s].op /\ t.case = tx[s].case
      /\ t.refs = tx[s].refs /\ t.todo = tx[s].todo /\ t.pc = "commit"
  BY DEF Transaction, CasesInv, TypeOK
<1> HIDE DEF t
<1>3. /\ tx' \in [Sessions -> Transaction] /\ tx'[s] = t
      /\ \A v \in Sessions \ {s} : tx'[v] = tx[v]
  BY <1>1, <1>2 DEF CasesInv, TypeOK
<1>4. /\ claimed' \in [Refs -> Sessions \cup {None}]
      /\ \A r \in Refs : claimed'[r] = IF r \in tx[s].claims THEN s ELSE claimed[r]
  BY <1>1 DEF CasesInv, TypeOK
<1>5. TypeOK'
  BY <1>1, <1>3, <1>4 DEF CasesInv, TypeOK
<1>6. \A v \in Sessions \ {s} : SessionOK(v)'
  BY <1>1, <1>3, <1>4, OthersKept DEF CasesInv, tables
<1>7. SessionOK(s)'
  <2>1. SessionOK(s) /\ tx[s] \in Transaction
    BY DEF CasesInv, SessionsOK, TypeOK
  <2>2. Holds(s)' /\ Prepared(s)' /\ Listed(s)'
    BY <1>1, <1>2, <1>3, <2>1 DEF SessionOK, Holds, Prepared, Items, Listed
  <2>3. /\ Activates(tx[s])' = Activates(tx[s])
        /\ Activates(tx[s]) \subseteq tx[s].claims /\ tx[s].claims \subseteq Refs
    <3>1. Activates(tx[s])' = Activates(tx[s])
      BY <1>1, <1>2, <1>3 DEF Activates, Items
    <3>2. Activates(tx[s]) \subseteq tx[s].claims
      BY <1>1, <2>1 DEF SessionOK, Indexed
    <3>3. tx[s].claims \subseteq Refs
      BY <2>1 DEF Transaction
    <3> QED
      BY <3>1, <3>2, <3>3
  <2>4. Indexed(s)'
    BY <1>2, <1>3, <1>4, <2>3 DEF Indexed
  <2> QED
    BY <2>2, <2>4 DEF SessionOK
<1>8. ClaimsHold'
  <2>1. s # None
    BY CasesAssumption DEF Sessions
  <2> QED
    BY <1>1, <1>2, <1>3, <1>4, <2>1 DEF CasesInv, TypeOK, ClaimsHold,
       HeldElsewhere, Active
<1>9. TablesOK'
  BY <1>1, TablesKept DEF CasesInv, tables
<1> QED
  BY <1>5, <1>6, <1>7, <1>8, <1>9 DEF CasesInv, SessionsOK

LEMMA AfterTyped ==
  ASSUME CasesInv, NEW s \in Sessions
  PROVE  /\ AfterTx(s) \in Transaction
         /\ AfterTx(s).pc \in {"idle", "next"}
         /\ AfterTx(s).pc # "idle" => AfterTx(s).op = tx[s].op /\ s \in Jobs
         /\ AfterTx(s).todo \subseteq tx[s].todo
<1>1. CASE s \in People
  BY <1>1, IdleTyped DEF AfterTx
<1>2. CASE s \notin People
  <2>1. tx[s] \in Transaction /\ s \in Jobs
    BY <1>2 DEF CasesInv, TypeOK, Sessions
  <2> QED
    BY <1>2, <2>1 DEF AfterTx, IdleTx, Transaction
<1> QED
  BY <1>1, <1>2

(* A transaction that ends without a write: refused or failed. *)
LEMMA EndInv ==
  ASSUME CasesInv, NEW s \in Sessions, Violate(s) \/ Fail(s)
  PROVE  CasesInv'
<1>1. /\ tx[s].pc # "idle" /\ Released(s)
      /\ UNCHANGED <<now, present, status, closedAt, item, changes>>
      /\ faults' \in 0 .. MaxFaults
  BY CasesAssumption DEF Violate, Fail, Finish, tables, CasesInv, TypeOK
<1>2. PICK t \in Transaction :
        /\ tx' = [tx EXCEPT ![s] = t]
        /\ t.pc \in {"idle", "next"} /\ t.todo \subseteq tx[s].todo
        /\ t.pc # "idle" => t.op = tx[s].op
  <2>1. CASE Violate(s)
    BY <2>1, AfterTyped DEF Violate, Finish
  <2>2. CASE Fail(s)
    BY <2>2, IdleTyped DEF Fail
  <2> QED
    BY <2>1, <2>2
<1>3. /\ tx' \in [Sessions -> Transaction] /\ tx'[s] = t
      /\ \A v \in Sessions \ {s} : tx'[v] = tx[v]
  BY <1>2 DEF CasesInv, TypeOK
<1>4. /\ owner' \in [CaseIds -> Sessions \cup {None}]
      /\ claimed' \in [Refs -> Sessions \cup {None}]
      /\ \A c \in CaseIds : owner[c] \notin {s, None} => owner'[c] = owner[c]
      /\ \A r \in Refs : claimed[r] \notin {s, None} => claimed'[r] = claimed[r]
      /\ \A r \in Refs : claimed'[r] # None =>
           claimed'[r] = claimed[r] /\ claimed[r] # s
  BY <1>1, ReleasedKeeps DEF CasesInv
<1>5. TypeOK'
  BY <1>1, <1>3, <1>4 DEF CasesInv, TypeOK
<1>6. \A v \in Sessions \ {s} : SessionOK(v)'
  BY <1>1, <1>3, <1>4, OthersKept DEF CasesInv, tables
<1>7. SessionOK(s)'
  BY <1>1, <1>2, <1>3 DEF CasesInv, SessionsOK, SessionOK, Holds, Prepared,
     Indexed, Listed
<1>8. ClaimsHold'
  BY <1>1, <1>3, <1>4 DEF CasesInv, TypeOK, ClaimsHold, HeldElsewhere, Active
<1>9. TablesOK'
  BY <1>1, TablesKept DEF CasesInv, tables
<1> QED
  BY <1>5, <1>6, <1>7, <1>8, <1>9 DEF CasesInv, SessionsOK

-----------------------------------------------------------------------------
(* What a transaction writes. *)

(* until is set exactly with an accepted risk. *)
DatedRow(row) == row # None =>
  (row \in Row /\ (row.until # None <=> row.outcome = "accepted_risk"))

LEMMA NewRowTyped ==
  /\ NewRow \in Row /\ NewRow.active /\ DatedRow(NewRow)
<1>1. NewRow \in Row /\ NewRow.active
  BY DEF NewRow, Row
<1>2. NewRow.until = None /\ NewRow.outcome = None /\ None # "accepted_risk"
  BY CasesAssumption DEF NewRow
<1> QED
  BY <1>1, <1>2 DEF DatedRow

LEMMA DecidedTyped ==
  ASSUME NEW row \in Row, NEW outcome \in Outcomes \cup {None}, NEW at \in Time
  PROVE  /\ Decided(row, outcome, at) \in Row
         /\ Decided(row, outcome, at).active = row.active
         /\ DatedRow(Decided(row, outcome, at))
<1> DEFINE until == IF outcome = "accepted_risk" THEN at + 1 ELSE None
<1>1. until \in Nat \cup {None} /\ (until # None <=> outcome = "accepted_risk")
  BY CasesAssumption DEF Time
<1>2. Decided(row, outcome, at) = [row EXCEPT !.outcome = outcome, !.until = until]
  BY DEF Decided
<1> HIDE DEF until
<1> QED
  BY <1>1, <1>2 DEF Row, DatedRow

LEMMA SetActiveTyped ==
  ASSUME NEW row \in Row, NEW b \in BOOLEAN, DatedRow(row), row # None
  PROVE  /\ [row EXCEPT !.active = b] \in Row
         /\ [row EXCEPT !.active = b].active = b
         /\ [row EXCEPT !.active = b].outcome = row.outcome
         /\ DatedRow([row EXCEPT !.active = b])
BY DEF Row, DatedRow

(* Row by row: a case that is closed gets inactive items with outcomes,    *)
(* any other only active ones, each of which was active before or is in    *)
(* the unique index.                                                       *)
LEMMA WrittenRows ==
  ASSUME CasesInv, NEW s \in Sessions, tx[s].pc = "commit", NEW r \in Refs
  PROVE  LET w == Written(tx[s])[r] IN
         /\ w \in Row \cup {None} /\ DatedRow(w)
         /\ w # None /\ tx[s].op # "close" =>
              w.active /\ (r \in Activates(tx[s]) \/ Active(tx[s].case, r))
         /\ w # None /\ tx[s].op = "close" => ~ w.active /\ w.outcome # None
<1> DEFINE t == tx[s]
           c == tx[s].case
           row == item[c][r]
           w == Written(tx[s])[r]
           Good == /\ w \in Row \cup {None} /\ DatedRow(w)
                   /\ w # None /\ tx[s].op # "close" =>
                        w.active /\ (r \in Activates(t) \/ Active(c, r))
                   /\ w # None /\ tx[s].op = "close" =>
                        ~ w.active /\ w.outcome # None
<1>1. /\ t \in Transaction /\ c \in CaseIds /\ t.op \in Ops
      /\ status[c] = Before(t.op)
      /\ t.op \in {"outcome", "clear"} => t.refs \subseteq Items(c)
      /\ t.op = "close" => \A q \in Items(c) : item[c][q].outcome # None
  BY DEF CasesInv, TypeOK, SessionsOK, SessionOK, Holds, Prepared
<1>2. /\ row \in Row \cup {None} /\ DatedRow(row)
      /\ row # None => (row.active <=> status[c] = "open")
      /\ status[c] = "unused" => row = None
  BY <1>1 DEF CasesInv, TypeOK, DatedRow, TablesOK, HeldByOneCase, UnusedIsEmpty,
     Items
<1>3. CASE t.op \in {"create", "add"}
  <2>1. w = IF r \in t.refs THEN NewRow ELSE row
    BY <1>3 DEF Written
  <2>2. r \in t.refs => r \in Activates(t)
    BY <1>3 DEF Activates
  <2>3. r \notin t.refs /\ row # None => row.active
    BY <1>1, <1>2, <1>3 DEF Before, Reopening
  <2> QED
    BY <1>2, <1>3, <2>1, <2>2, <2>3, NewRowTyped DEF Active
<1>4. CASE t.op = "remove"
  <2>1. w = IF r \in t.refs THEN None ELSE row
    BY <1>4 DEF Written
  <2>2. row # None => row.active
    BY <1>1, <1>2, <1>4 DEF Before, Reopening
  <2>3. DatedRow(None)
    BY DEF DatedRow
  <2> QED
    BY <1>2, <1>4, <2>1, <2>2, <2>3 DEF Active
<1>5. CASE t.op = "outcome"
  <2>1. w = IF r \in t.refs THEN Decided(row, t.outcome, t.at) ELSE row
    BY <1>5 DEF Written
  <2>2. row # None => row.active
    BY <1>1, <1>2, <1>5 DEF Before, Reopening
  <2>3. t.outcome \in Outcomes \cup {None} /\ t.at \in Time
    BY <1>1 DEF Transaction
  <2>4. r \in t.refs => row # None /\ row \in Row
    BY <1>1, <1>2, <1>5 DEF Items
  <2> QED
    BY <1>2, <1>5, <2>1, <2>2, <2>3, <2>4, DecidedTyped DEF Active
<1>6. CASE t.op = "close"
  <2>1. w = IF row = None THEN None ELSE [row EXCEPT !.active = FALSE]
    BY <1>6 DEF Written
  <2>2. row # None => row.outcome # None
    BY <1>1, <1>6 DEF Items
  <2>3. DatedRow(None)
    BY DEF DatedRow
  <2> QED
    BY <1>2, <1>6, <2>1, <2>2, <2>3, SetActiveTyped
<1>7. CASE t.op \in Reopening
  <2>1. w = IF row = None THEN None
            ELSE IF r \in t.refs THEN NewRow ELSE [row EXCEPT !.active = TRUE]
    BY <1>7 DEF Written, Reactivated, Reopening
  <2>2. row # None => r \in Activates(t)
    BY <1>7 DEF Activates, Reopening, Items
  <2>3. DatedRow(None) /\ t.op # "close"
    BY <1>7 DEF DatedRow, Reopening
  <2> QED
    BY <1>2, <2>1, <2>2, <2>3, SetActiveTyped, NewRowTyped
<1>8. CASE t.op = "clear"
  <2>1. w = IF r \in t.refs THEN NewRow ELSE row
    BY <1>8 DEF Written
  <2>2. row # None => row.active
    BY <1>1, <1>2, <1>8 DEF Before, Reopening
  <2>3. r \in t.refs => row # None
    BY <1>1, <1>8 DEF Items
  <2> QED
    BY <1>2, <1>8, <2>1, <2>2, <2>3, NewRowTyped DEF Active
<1> QED
  BY <1>1, <1>3, <1>4, <1>5, <1>6, <1>7, <1>8 DEF Ops, Reopening, Triggers

-----------------------------------------------------------------------------
LEMMA CommitInv ==
  ASSUME CasesInv, NEW s \in Sessions, Commit(s)
  PROVE  CasesInv'
<1>1. PICK c, w : c \in CaseIds /\ c = tx[s].case /\ w = Written(tx[s])
  BY DEF Commit, CasesInv, SessionsOK, SessionOK, Holds
<1>2. /\ tx[s].pc = "commit"
      /\ item' = [item EXCEPT ![c] = w]
      /\ status' = [status EXCEPT ![c] = IF tx[s].op = "close" THEN "closed" ELSE "open"]
      /\ closedAt' = [closedAt EXCEPT ![c] = IF tx[s].op = "close" THEN tx[s].at ELSE None]
      /\ Released(s) /\ tx' = [tx EXCEPT ![s] = AfterTx(s)]
      /\ UNCHANGED <<now, present, changes, faults>>
  BY <1>1 DEF Commit, Finish
<1>3. /\ tx[s] \in Transaction /\ tx[s].op \in Ops /\ owner[c] = s
      /\ status[c] = Before(tx[s].op) /\ s # None
      /\ \A r \in Activates(tx[s]) : r \in Refs /\ claimed[r] = s
  <2>1. SessionOK(s) /\ tx[s] \in Transaction /\ s # None
    BY CasesAssumption DEF CasesInv, SessionsOK, TypeOK, Sessions
  <2>2. Activates(tx[s]) \subseteq Refs
    BY <2>1 DEF Activates, Items, Transaction
  <2> QED
    BY <1>1, <1>2, <2>1, <2>2 DEF SessionOK, Holds, Indexed
<1>4. ASSUME NEW r \in Refs
      PROVE  /\ w[r] \in Row \cup {None} /\ DatedRow(w[r])
             /\ w[r] # None /\ tx[s].op # "close" =>
                  w[r].active /\ (r \in Activates(tx[s]) \/ Active(c, r))
             /\ w[r] # None /\ tx[s].op = "close" =>
                  ~ w[r].active /\ w[r].outcome # None
  BY <1>1, <1>2, WrittenRows
<1>5. w \in [Refs -> Row \cup {None}]
  <2>1. w = [r \in Refs |-> w[r]]
    BY <1>1, <1>3 DEF Written, Reactivated, Ops, Triggers
  <2> QED
    BY <1>4, <2>1
<1>6. /\ item' \in [CaseIds -> [Refs -> Row \cup {None}]] /\ item'[c] = w
      /\ \A d \in CaseIds \ {c} : item'[d] = item[d]
  BY <1>1, <1>2, <1>5 DEF CasesInv, TypeOK
<1>7. /\ status' \in [CaseIds -> {"unused", "open", "closed"}]
      /\ status'[c] = IF tx[s].op = "close" THEN "closed" ELSE "open"
      /\ \A d \in CaseIds \ {c} : status'[d] = status[d]
  BY <1>1, <1>2 DEF CasesInv, TypeOK
<1>8. closedAt' \in [CaseIds -> Time \cup {None}]
  BY <1>2, <1>3 DEF CasesInv, TypeOK, Transaction
<1>9. /\ tx' \in [Sessions -> Transaction] /\ tx'[s] = AfterTx(s)
      /\ \A v \in Sessions \ {s} : tx'[v] = tx[v]
  BY <1>2, AfterTyped DEF CasesInv, TypeOK
<1>10. /\ owner' \in [CaseIds -> Sessions \cup {None}]
       /\ claimed' \in [Refs -> Sessions \cup {None}]
       /\ \A d \in CaseIds : owner[d] \notin {s, None} => owner'[d] = owner[d]
       /\ \A r \in Refs : claimed[r] \notin {s, None} => claimed'[r] = claimed[r]
       /\ \A r \in Refs : claimed'[r] # None =>
            claimed'[r] = claimed[r] /\ claimed[r] # s
  BY <1>2, ReleasedKeeps DEF CasesInv
<1>11. TypeOK'
  <2>1. \A d \in CaseIds, r \in Refs : item'[d][r] # None =>
          (item'[d][r].until # None <=> item'[d][r].outcome = "accepted_risk")
    BY <1>1, <1>4, <1>6 DEF CasesInv, TypeOK, DatedRow
  <2> QED
    BY <1>2, <1>6, <1>7, <1>8, <1>9, <1>10, <2>1 DEF CasesInv, TypeOK
<1>12. SessionsOK'
  <2>1. SessionOK(s)'
    <3>1. \A d \in CaseIds : status[d] # "unused" => status'[d] # "unused"
      BY <1>7
    <3>2. Listed(s)'
      BY <1>2, <1>3, <1>9, <3>1, AfterTyped
         DEF CasesInv, SessionsOK, SessionOK, Listed, Transaction
    <3> QED
      BY <1>9, <3>2, AfterTyped DEF SessionOK, Holds, Prepared, Indexed
  <2>2. ASSUME NEW v \in Sessions \ {s}
        PROVE  SessionOK(v)'
    <3>1. /\ tx'[v] = tx[v] /\ v # None /\ SessionOK(v)
          /\ tx[v] \in Transaction
      BY <1>9, CasesAssumption DEF CasesInv, SessionsOK, TypeOK, Sessions
    <3>2. CASE tx[v].pc \in {"items", "claim", "commit"}
      <4>1. tx[v].case \in CaseIds \ {c} /\ owner[tx[v].case] = v
        BY <1>3, <3>1, <3>2 DEF SessionOK, Holds
      <4>2. /\ item'[tx[v].case] = item[tx[v].case]
            /\ status'[tx[v].case] = status[tx[v].case]
            /\ owner'[tx[v].case] = v
        BY <1>6, <1>7, <1>10, <3>1, <4>1
      <4>3. Activates(tx[v])' = Activates(tx[v]) /\ Activates(tx[v]) \subseteq Refs
        BY <3>1, <4>2 DEF Activates, Items, Transaction
      <4>4. Holds(v)' /\ Prepared(v)'
        BY <3>1, <4>1, <4>2 DEF SessionOK, Holds, Prepared, Items
      <4>5. Indexed(v)'
        BY <1>10, <3>1, <4>3 DEF SessionOK, Indexed
      <4>6. Listed(v)'
        BY <1>7, <3>1 DEF SessionOK, Listed, Transaction
      <4> QED
        BY <4>4, <4>5, <4>6 DEF SessionOK
    <3>3. CASE tx[v].pc \notin {"items", "claim", "commit"}
      BY <1>7, <3>1, <3>3 DEF SessionOK, Holds, Prepared, Indexed, Listed,
         Transaction
    <3> QED
      BY <3>2, <3>3
  <2> QED
    BY <2>1, <2>2 DEF SessionsOK
<1>13. ClaimsHold'
  <2> SUFFICES ASSUME NEW r \in Refs, claimed'[r] # None
               PROVE  /\ tx'[claimed'[r]].pc = "commit"
                      /\ ~ HeldElsewhere(tx[claimed[r]].case, r)'
    BY DEF ClaimsHold
  <2>1. /\ claimed'[r] = claimed[r] /\ claimed[r] \in Sessions \ {s}
        /\ tx[claimed[r]].pc = "commit"
        /\ ~ HeldElsewhere(tx[claimed[r]].case, r)
    BY <1>10 DEF CasesInv, ClaimsHold, TypeOK
  <2>2. tx'[claimed'[r]] = tx[claimed[r]]
    BY <1>9, <2>1
  <2>3. r \notin Activates(tx[s])
    BY <1>3, <2>1
  <2>4. tx[claimed[r]].case # c
    BY <1>3, <2>1 DEF CasesInv, SessionsOK, SessionOK, Holds
  <2>5. \A d \in CaseIds : Active(d, r)' => Active(d, r)
    BY <1>4, <1>6, <2>3 DEF Active
  <2> QED
    BY <2>1, <2>2, <2>5 DEF HeldElsewhere
<1>14. HeldByOneCase'
  <2>1. ASSUME NEW d \in CaseIds, NEW r \in Refs, Active(d, r)'
        PROVE  Active(d, r) \/ (d = c /\ r \in Activates(tx[s]))
    BY <1>4, <1>6, <2>1 DEF Active
  <2>2. \A r \in Activates(tx[s]) : ~ HeldElsewhere(c, r)
    BY <1>1, <1>3 DEF CasesInv, ClaimsHold
  <2>3. ASSUME NEW d \in CaseIds, NEW r \in Refs, item'[d][r] # None
        PROVE  item'[d][r].active <=> status'[d] = "open"
    BY <1>4, <1>6, <1>7, <2>3 DEF CasesInv, TablesOK, HeldByOneCase
  <2>4. ASSUME NEW d \in CaseIds, NEW r \in Refs, NEW e \in CaseIds \ {d},
               Active(d, r)', Active(e, r)'
        PROVE  FALSE
    BY <2>1, <2>2, <2>4 DEF CasesInv, TablesOK, HeldByOneCase, HeldElsewhere, Active
  <2> QED
    BY <2>3, <2>4 DEF HeldByOneCase, HeldElsewhere, Active
<1>15. ClosedIsDecided' /\ UnusedIsEmpty'
  BY <1>4, <1>6, <1>7 DEF CasesInv, TablesOK, ClosedIsDecided, UnusedIsEmpty, Items
<1> QED
  BY <1>11, <1>12, <1>13, <1>14, <1>15 DEF CasesInv, TablesOK

-----------------------------------------------------------------------------
(* The checks of the jobs. *)

(* A step of a job that only changes what the job remembers. *)
LEMMA JobStepInv ==
  ASSUME CasesInv, NEW j \in Jobs, tx[j].pc # "commit",
         NEW STATE t, t \in Transaction,
         tx' = [tx EXCEPT ![j] = t],
         t.pc \in {"idle", "load", "next"},
         t.pc # "idle" => t.op \in Triggers,
         \A c \in t.todo : status[c] # "unused",
         UNCHANGED <<now, present, tables, owner, claimed, changes, faults>>
  PROVE  CasesInv'
<1>1. UNCHANGED <<now, present, status, closedAt, item, owner, claimed, changes,
                  faults>>
  BY DEF tables
<1>2. /\ tx' \in [Sessions -> Transaction] /\ tx'[j] = t /\ j \in Sessions
      /\ \A v \in Sessions \ {j} : tx'[v] = tx[v]
  BY DEF CasesInv, TypeOK, Sessions
<1>3. TypeOK'
  BY <1>1, <1>2 DEF CasesInv, TypeOK
<1>4. \A v \in Sessions \ {j} : SessionOK(v)'
  BY <1>1, <1>2, OthersKept DEF CasesInv, tables
<1>5. SessionOK(j)'
  BY <1>1, <1>2 DEF SessionOK, Holds, Prepared, Indexed, Listed
<1>6. ClaimsHold'
  BY <1>1, <1>2 DEF CasesInv, TypeOK, ClaimsHold, HeldElsewhere, Active
<1>7. TablesOK'
  BY <1>1, TablesKept DEF CasesInv, tables
<1> QED
  BY <1>3, <1>4, <1>5, <1>6, <1>7 DEF CasesInv, SessionsOK

LEMMA StartChecksInv ==
  ASSUME CasesInv, NEW j \in Jobs, StartChecks(j)
  PROVE  CasesInv'
<1> DEFINE t == [IdleTx EXCEPT !.pc = "load", !.at = now,
                   !.op = "accepted_risk_expired"]
<1>1. /\ t \in Transaction /\ t.pc = "load" /\ t.todo = {}
      /\ t.op = "accepted_risk_expired"
  BY DEF CasesInv, TypeOK, IdleTx, Transaction, Ops, Triggers
<1>2. /\ tx[j].pc = "idle" /\ tx' = [tx EXCEPT ![j] = t]
      /\ UNCHANGED <<now, present, tables, owner, claimed, changes, faults>>
  BY DEF StartChecks
<1> HIDE DEF t
<1> QED
  BY <1>1, <1>2, JobStepInv DEF Triggers

LEMMA LoadDueInv ==
  ASSUME CasesInv, NEW j \in Jobs, NEW batch \in SUBSET CaseIds, LoadDue(j, batch)
  PROVE  CasesInv'
<1> DEFINE t == [tx[j] EXCEPT !.pc = "next", !.todo = batch]
<1>1. tx[j] \in Transaction /\ tx[j].pc = "load" /\ tx[j].op \in Triggers
  BY DEF LoadDue, CasesInv, TypeOK, SessionsOK, SessionOK, Listed, Sessions
<1>2. t \in Transaction /\ t.pc = "next" /\ t.todo = batch /\ t.op = tx[j].op
  BY <1>1 DEF Transaction
<1>3. /\ tx' = [tx EXCEPT ![j] = t]
      /\ UNCHANGED <<now, present, tables, owner, claimed, changes, faults>>
  BY DEF LoadDue
<1>4. \A c \in batch : status[c] # "unused"
  <2>1. \A c \in batch : Due(tx[j].op, c, tx[j].at)
    BY DEF LoadDue
  <2> QED
    BY <2>1 DEF Due
<1> HIDE DEF t
<1> QED
  BY <1>1, <1>2, <1>3, <1>4, JobStepInv

LEMMA NextCheckInv ==
  ASSUME CasesInv, NEW j \in Jobs, NextCheck(j)
  PROVE  CasesInv'
<1> DEFINE op == IF tx[j].op = "accepted_risk_expired"
                 THEN "evidence_returned" ELSE "clear"
           t == IF tx[j].op = "clear" THEN IdleTx
                ELSE [tx[j] EXCEPT !.pc = "load", !.op = op]
<1>1. tx[j] \in Transaction /\ tx[j].pc = "next" /\ tx[j].todo = {}
  BY DEF NextCheck, CasesInv, TypeOK, Sessions
<1>2. /\ t \in Transaction /\ t.pc \in {"idle", "load"} /\ t.todo = {}
      /\ t.pc # "idle" => t.op \in Triggers
  <2>1. op \in Triggers /\ op \in Ops
    BY DEF Triggers, Ops
  <2>2. CASE tx[j].op = "clear"
    BY <2>2, IdleTyped
  <2>3. CASE tx[j].op # "clear"
    <3> HIDE DEF op
    <3> QED
      BY <1>1, <2>1, <2>3 DEF Transaction
  <2> QED
    BY <2>2, <2>3
<1>3. /\ tx' = [tx EXCEPT ![j] = t]
      /\ UNCHANGED <<now, present, tables, owner, claimed, changes, faults>>
  BY Zenon DEF NextCheck
<1> HIDE DEF t
<1> QED
  BY <1>1, <1>2, <1>3, JobStepInv

LEMMA LockDueInv ==
  ASSUME CasesInv, NEW j \in Jobs, NEW c \in CaseIds, LockDue(j, c)
  PROVE  CasesInv'
<1>1. /\ tx[j].pc = "next" /\ c \in tx[j].todo
      /\ UNCHANGED <<now, present, tables, claimed, changes, faults>>
  BY DEF LockDue
<1>2. /\ tx[j] \in Transaction /\ j \in Sessions /\ tx[j].op \in Triggers
      /\ \A d \in tx[j].todo : status[d] # "unused"
  BY <1>1 DEF CasesInv, TypeOK, SessionsOK, SessionOK, Listed, Sessions
<1>3. CASE ~ (owner[c] = None /\ StillDue(tx[j].op, c, tx[j].at))
  <2> DEFINE t == [tx[j] EXCEPT !.todo = @ \ {c}]
  <2>1. /\ t \in Transaction /\ t.pc = "next" /\ t.op = tx[j].op
        /\ t.todo = tx[j].todo \ {c}
    BY <1>1, <1>2 DEF Transaction
  <2>2. tx' = [tx EXCEPT ![j] = t] /\ UNCHANGED owner
    BY <1>3 DEF LockDue
  <2> HIDE DEF t
  <2> QED
    BY <1>1, <1>2, <2>1, <2>2, JobStepInv
<1>4. CASE owner[c] = None /\ StillDue(tx[j].op, c, tx[j].at)
  <2> DEFINE t == [tx[j] EXCEPT !.pc = "items", !.case = c, !.todo = @ \ {c}]
  <2>1. /\ t \in Transaction /\ t.pc = "items" /\ t.op = tx[j].op
        /\ t.case = c /\ t.todo = tx[j].todo \ {c}
    BY <1>2 DEF Transaction
  <2>2. tx' = [tx EXCEPT ![j] = t] /\ owner' = [owner EXCEPT ![c] = j]
    BY <1>4 DEF LockDue
  <2> HIDE DEF t
  <2>3. /\ tx' \in [Sessions -> Transaction] /\ tx'[j] = t
        /\ \A v \in Sessions \ {j} : tx'[v] = tx[v]
    BY <1>2, <2>1, <2>2 DEF CasesInv, TypeOK
  <2>4. /\ owner' \in [CaseIds -> Sessions \cup {None}] /\ owner'[c] = j
        /\ \A d \in CaseIds \ {c} : owner'[d] = owner[d]
    BY <1>2, <2>2 DEF CasesInv, TypeOK
  <2>5. UNCHANGED <<now, present, status, closedAt, item, claimed, changes, faults>>
    BY <1>1 DEF tables
  <2>6. TypeOK'
    BY <2>3, <2>4, <2>5 DEF CasesInv, TypeOK
  <2>7. \A v \in Sessions \ {j} : SessionOK(v)'
    BY <1>2, <1>4, <2>3, <2>4, <2>5, OthersKept DEF CasesInv, tables
  <2>8. status[c] = Before(tx[j].op)
    <3>1. status[c] \in {"unused", "open", "closed"} /\ status[c] # "unused"
      BY <1>1, <1>2 DEF CasesInv, TypeOK
    <3> QED
      BY <1>2, <1>4, <3>1 DEF StillDue, Due, Before, Reopening, Triggers
  <2>9. SessionOK(j)'
    <3>1. Holds(j)'
      BY <1>2, <2>1, <2>3, <2>4, <2>5, <2>8 DEF Holds, Ops
    <3> QED
      BY <1>2, <2>1, <2>3, <2>5, <3>1 DEF SessionOK, Prepared, Indexed, Listed
  <2>10. ClaimsHold'
    BY <1>1, <2>3, <2>5 DEF CasesInv, TypeOK, ClaimsHold, HeldElsewhere, Active
  <2>11. TablesOK'
    BY <1>1, TablesKept DEF CasesInv
  <2> QED
    BY <2>6, <2>7, <2>9, <2>10, <2>11 DEF CasesInv, SessionsOK
<1> QED
  BY <1>3, <1>4

LEMMA ReadItemsInv ==
  ASSUME CasesInv, NEW j \in Jobs, ReadItems(j)
  PROVE  CasesInv'
<1> DEFINE pc == IF tx[j].op = "clear" THEN "commit" ELSE "claim"
           refs == DueItems(tx[j].op, tx[j].case, tx[j].at)
           claims == IF tx[j].op = "clear" THEN {} ELSE Items(tx[j].case)
           t == [tx[j] EXCEPT !.pc = pc, !.refs = refs, !.claims = claims]
<1>1. /\ tx[j].pc = "items" /\ tx' = [tx EXCEPT ![j] = t]
      /\ UNCHANGED <<now, present, status, closedAt, item, owner, claimed,
                     changes, faults>>
  BY DEF ReadItems, tables
<1>2. /\ tx[j] \in Transaction /\ j \in Sessions /\ tx[j].op \in Triggers
      /\ SessionOK(j)
  BY <1>1 DEF CasesInv, TypeOK, SessionsOK, SessionOK, Listed, Sessions
<1>3. /\ refs \subseteq Items(tx[j].case) /\ Items(tx[j].case) \subseteq Refs
      /\ pc \in {"claim", "commit"}
      /\ pc = "commit" <=> tx[j].op = "clear"
      /\ claims \subseteq Refs
      /\ tx[j].op # "clear" => claims = Items(tx[j].case)
  BY DEF DueItems, Items
<1> HIDE DEF pc, refs, claims
<1>4. /\ t \in Transaction /\ t.pc = pc /\ t.op = tx[j].op /\ t.refs = refs
      /\ t.claims = claims /\ t.case = tx[j].case /\ t.todo = tx[j].todo
  BY <1>2, <1>3 DEF Transaction
<1> HIDE DEF t
<1>5. /\ tx' \in [Sessions -> Transaction] /\ tx'[j] = t
      /\ \A v \in Sessions \ {j} : tx'[v] = tx[v]
  BY <1>1, <1>2, <1>4 DEF CasesInv, TypeOK
<1>6. TypeOK'
  BY <1>1, <1>5 DEF CasesInv, TypeOK
<1>7. \A v \in Sessions \ {j} : SessionOK(v)'
  BY <1>1, <1>2, <1>5, OthersKept DEF CasesInv, tables
<1>8. SessionOK(j)'
  <2>1. Holds(j)' /\ Listed(j)'
    BY <1>1, <1>2, <1>3, <1>4, <1>5 DEF SessionOK, Holds, Listed
  <2>2. Items(tx[j].case)' = Items(tx[j].case)
    BY <1>1, <1>4, <1>5 DEF Items
  <2>3. Prepared(j)'
    BY <1>2, <1>3, <1>4, <1>5, <2>2 DEF Prepared, Triggers
  <2>4. Indexed(j)'
    BY <1>2, <1>3, <1>4, <1>5, <2>2 DEF Indexed, Activates, Triggers, Reopening
  <2> QED
    BY <2>1, <2>3, <2>4 DEF SessionOK
<1>9. ClaimsHold'
  BY <1>1, <1>5 DEF CasesInv, TypeOK, ClaimsHold, HeldElsewhere, Active
<1>10. TablesOK'
  BY <1>1, TablesKept DEF CasesInv, tables
<1> QED
  BY <1>6, <1>7, <1>8, <1>9, <1>10 DEF CasesInv, SessionsOK

-----------------------------------------------------------------------------
LEMMA NextInv == CasesInv /\ [Next]_vars => CasesInv'
<1> SUFFICES ASSUME CasesInv, [Next]_vars PROVE CasesInv'
  OBVIOUS
<1>1. CASE Tick \/ \E r \in Refs : EvidenceChanges(r)
  BY <1>1, OutsideInv
<1>2. CASE \E u \in People : PersonNext(u)
  BY <1>2, PersonInv
<1>3. CASE \E j \in Jobs : JobNext(j)
  BY <1>3, StartChecksInv, LoadDueInv, NextCheckInv, LockDueInv, ReadItemsInv
     DEF JobNext
<1>4. CASE \E s \in Sessions : TxNext(s) \/ Fail(s)
  BY <1>4, ClaimInv, CommitInv, EndInv DEF TxNext
<1>5. CASE UNCHANGED vars
  <2>1. UNCHANGED <<now, present, status, closedAt, item, owner, claimed, tx,
                    changes, faults>>
    BY <1>5 DEF vars
  <2>2. TypeOK'
    BY <2>1 DEF CasesInv, TypeOK
  <2>3. SessionsOK'
    BY <2>1 DEF CasesInv, SessionsOK, SessionOK, Holds, Prepared, Indexed, Listed,
       Activates, Items
  <2>4. ClaimsHold'
    BY <2>1 DEF CasesInv, ClaimsHold, HeldElsewhere, Active
  <2> QED
    BY <2>1, <2>2, <2>3, <2>4, TablesKept DEF CasesInv, tables
<1> QED
  BY <1>1, <1>2, <1>3, <1>4, <1>5 DEF Next

LEMMA Invariance == Spec => []CasesInv
<1>1. Init => CasesInv
  BY InitInv
<1>2. CasesInv /\ [Next]_vars => CasesInv'
  BY NextInv
<1> QED
  BY <1>1, <1>2, PTL DEF Spec

-----------------------------------------------------------------------------
(* Results *)

(* Cases, items, locks and transactions keep their types, and an item has  *)
(* a date exactly when its outcome is an accepted risk, as the table's     *)
(* check demands.                                                          *)
THEOREM TypeCorrect == Spec => []TypeOK
<1>1. CasesInv => TypeOK
  BY DEF CasesInv
<1> QED
  BY <1>1, Invariance, PTL

(* create, add_item, update and reopen_due never leave an item in two open *)
(* cases, nor an open case without one of its items.                       *)
THEOREM OneCaseHolds == Spec => []HeldByOneCase
<1>1. CasesInv => HeldByOneCase
  BY DEF CasesInv, TablesOK
<1> QED
  BY <1>1, Invariance, PTL

(* No item of a closed case is without an outcome: the checks that update  *)
(* makes before it closes a case still hold when it commits.               *)
THEOREM ClosedStaysDecided == Spec => []ClosedIsDecided
<1>1. CasesInv => ClosedIsDecided
  BY DEF CasesInv, TablesOK
<1> QED
  BY <1>1, Invariance, PTL
=============================================================================
