---------------------------- MODULE AlarmsProofs ----------------------------
(***************************************************************************)
(* Proofs about Alarms, for every number of batches and analysts, and      *)
(* every bound.                                                            *)
(***************************************************************************)
EXTENDS Alarms, TLAPS

(* A batch past its first statement holds the agent's row. *)
LockHeld ==
  \A s \in Slots : req[s].pc \in {"lookup", "write"} => lock = s

(* So what its lookup read of the row's existence and count, which only    *)
(* batches change, is still so when it writes.                             *)
LookupCurrent ==
  \A s \in Slots : req[s].pc = "write" =>
    /\ req[s].known <=> rows > 0
    /\ req[s].seenCount = alarm.count

(* A page that shows the alarm's version shows its state. *)
ViewsCurrent ==
  \A u \in Analysts : view[u] # None =>
    /\ rows > 0
    /\ view[u].version <= alarm.version
    /\ view[u].version = alarm.version => view[u].state = alarm.state

AlarmInv ==
  TypeOK /\ LockHeld /\ LookupCurrent /\ ViewsCurrent /\ OneRow /\ HourlyIsGrowth

---------------------------------------------------------------------------
(* Types of the records that the actions build. *)

LEMMA IdleType == IdleRequest \in Request
BY BoundsAssumption DEF IdleRequest, Request, Time, State

LEMMA AlarmFields ==
  ASSUME NEW a \in Alarm
  PROVE  /\ a.state \in State
         /\ a.version \in Nat
         /\ a.count \in 0 .. MaxCount
         /\ a.until \in Expiry
BY DEF Alarm

(* A write to the triage columns: a new state and expiry, the next version. *)
Triaged(a, state, until) ==
  [a EXCEPT !.state = state, !.until = until, !.version = @ + 1]

LEMMA TriageWrite ==
  ASSUME NEW a \in Alarm, NEW b, NEW state \in State,
         NEW until \in Expiry, b = Triaged(a, state, until)
  PROVE  /\ b \in Alarm
         /\ b.state = state /\ b.until = until /\ b.version = a.version + 1
         /\ b.count = a.count
<1>1. a.version + 1 \in Nat
  BY AlarmFields
<1>2. ASSUME NEW v \in Nat
      PROVE  [a EXCEPT !.state = state, !.until = until, !.version = v]
               \in Alarm
  BY Zenon DEF Alarm
<1>3. b \in Alarm
  BY <1>1, <1>2 DEF Triaged
<1> QED
  BY <1>3 DEF Alarm, Triaged

(* The same where the expiry stays. *)
LEMMA StateWrite ==
  ASSUME NEW a \in Alarm, NEW b, NEW state \in State,
         b = [a EXCEPT !.state = state, !.version = @ + 1]
  PROVE  /\ b \in Alarm
         /\ b.state = state /\ b.until = a.until
         /\ b.version = a.version + 1
         /\ b.count = a.count
<1>1. a.version + 1 \in Nat
  BY AlarmFields
<1>2. ASSUME NEW v \in Nat
      PROVE  [a EXCEPT !.state = state, !.version = v] \in Alarm
  BY Zenon DEF Alarm
<1>3. b \in Alarm
  BY <1>1, <1>2
<1> QED
  BY <1>3 DEF Alarm

LEMMA RequestFields ==
  ASSUME NEW r \in Request
  PROVE  /\ r.count \in 0 .. MaxCount
         /\ r.seenCount \in 0 .. MaxCount
         /\ r.at \in Time
         /\ r.known \in BOOLEAN
         /\ r.seenExpired \in BOOLEAN
BY DEF Request

(* What the end of a transaction leaves. *)
LEMMA FinishChanges ==
  ASSUME TypeOK, LockHeld, NEW s \in Slots, Finish(s)
  PROVE  /\ req' \in [Slots -> Request]
         /\ lock' \in Slots \cup {None}
         /\ req'[s] = IdleRequest
         /\ \A t \in Slots \ {s} : req'[t] = req[t]
         /\ LockHeld'
<1>1. req \in [Slots -> Request] /\ lock \in Slots \cup {None}
  BY DEF TypeOK, timeline
<1>2. req' = [req EXCEPT ![s] = IdleRequest]
  BY DEF Finish
<1>3. req' \in [Slots -> Request] /\ req'[s] = IdleRequest
  BY <1>1, <1>2, IdleType
<1>4. \A t \in Slots \ {s} : req'[t] = req[t]
  BY <1>1, <1>2
<1>5. lock' = IF lock = s THEN None ELSE lock
  BY DEF Finish
<1>6. LockHeld'
  BY <1>3, <1>4, <1>5 DEF LockHeld, IdleRequest
<1> QED
  BY <1>1, <1>3, <1>4, <1>5, <1>6

(* A batch that writes is the only one past its first statement. *)
LEMMA Alone ==
  ASSUME LockHeld, NEW s \in Slots, NEW t \in Slots \ {s},
         req[s].pc \in {"lookup", "write"}
  PROVE  req[t].pc # "write"
BY DEF LockHeld

---------------------------------------------------------------------------
(* Every action keeps the invariant. *)

LEMMA InitInv == Init => AlarmInv
<1> SUFFICES ASSUME Init PROVE AlarmInv
  OBVIOUS
<1>1. alarm \in Alarm
  BY BoundsAssumption DEF Init, Alarm, State, Expiry
<1>2. NoHours \in [Time -> Nat] /\ \A t \in Time : NoHours[t] = 0
  BY DEF NoHours
<1>3. req \in [Slots -> Request]
  BY IdleType DEF Init
<1>4. TypeOK
  BY <1>1, <1>3, <1>2, BoundsAssumption DEF Init, TypeOK, Time
<1>5. LockHeld /\ LookupCurrent /\ ViewsCurrent /\ OneRow /\ HourlyIsGrowth
  BY <1>2 DEF Init, IdleRequest, LockHeld, LookupCurrent, ViewsCurrent, OneRow,
              HourlyIsGrowth
<1> QED
  BY <1>4, <1>5 DEF AlarmInv

(* An hour that is old stays old. *)
LEMMA TickInv == AlarmInv /\ Tick => AlarmInv'
<1> SUFFICES ASSUME AlarmInv, Tick PROVE AlarmInv'
  OBVIOUS
<1>1. \A t \in Time : Old(t) => Old(t)'
  BY BoundsAssumption DEF AlarmInv, TypeOK, Tick, Old, Time
<1>2. HourlyIsGrowth'
  BY <1>1 DEF AlarmInv, Tick, timeline, HourlyIsGrowth
<1> QED
  BY <1>2, BoundsAssumption DEF AlarmInv, Tick, timeline, TypeOK, Time,
     LockHeld, LookupCurrent, ViewsCurrent, OneRow

LEMMA StartInv == AlarmInv /\ Start => AlarmInv'
BY BoundsAssumption DEF AlarmInv, Start, timeline, TypeOK, LockHeld,
   LookupCurrent, ViewsCurrent, OneRow, HourlyIsGrowth, Old

LEMMA AlarmBatchInv ==
  ASSUME AlarmInv, NEW s \in Slots, AlarmBatch(s)
  PROVE  AlarmInv'
<1> DEFINE new == [IdleRequest EXCEPT !.pc = "lock", !.at = now,
                                      !.count = starts]
<1>1. TypeOK /\ req \in [Slots -> Request]
  BY DEF AlarmInv, TypeOK
<1>2. new \in Request
  BY <1>1, IdleType DEF Request, TypeOK
<1>3. new.pc = "lock"
  BY DEF IdleRequest
<1>4. req' = [req EXCEPT ![s] = new]
  BY DEF AlarmBatch
<1> HIDE DEF new
<1>5. req' \in [Slots -> Request] /\ req'[s].pc = "lock"
  BY <1>1, <1>2, <1>3, <1>4
<1>6. \A t \in Slots \ {s} : req'[t] = req[t]
  BY <1>1, <1>4
<1>7. UNCHANGED <<test, now, starts, lock, rows, alarm, timeline, via, view>>
  BY DEF AlarmBatch
<1>8. TypeOK'
  BY <1>1, <1>5, <1>7 DEF TypeOK, timeline
<1>9. LockHeld' /\ LookupCurrent'
  BY <1>5, <1>6, <1>7 DEF AlarmInv, LockHeld, LookupCurrent
<1>10. ViewsCurrent' /\ OneRow' /\ HourlyIsGrowth'
  BY <1>7 DEF AlarmInv, ViewsCurrent, OneRow, HourlyIsGrowth,
     Old, timeline
<1> QED
  BY <1>8, <1>9, <1>10 DEF AlarmInv

LEMMA UpdateDroppedInv ==
  ASSUME AlarmInv, NEW s \in Slots, UpdateDropped(s)
  PROVE  AlarmInv'
<1>1. TypeOK /\ req \in [Slots -> Request] /\ req[s] \in Request
  BY DEF AlarmInv, TypeOK
<1>2. [req[s] EXCEPT !.pc = "lookup"] \in Request
  BY <1>1, Zenon DEF Request
<1>3. req' = [req EXCEPT ![s] = [req[s] EXCEPT !.pc = "lookup"]]
  BY DEF UpdateDropped
<1>4. req' \in [Slots -> Request] /\ req'[s] = [req[s] EXCEPT !.pc = "lookup"]
  BY <1>1, <1>2, <1>3
<1>5. req'[s].pc = "lookup"
  BY <1>1, <1>4 DEF Request
<1>6. \A t \in Slots \ {s} : req'[t] = req[t]
  BY <1>1, <1>3
<1>7. /\ UNCHANGED <<test, now, starts, rows, alarm, timeline, via, view>>
      /\ lock = None /\ lock' = s
  BY DEF UpdateDropped
<1>8. TypeOK'
  BY <1>1, <1>4, <1>7 DEF TypeOK, timeline
<1>9. \A t \in Slots : req[t].pc \notin {"lookup", "write"}
  BY <1>7, NoSlotAssumption DEF AlarmInv, LockHeld
<1>10. LockHeld' /\ LookupCurrent'
  BY <1>5, <1>6, <1>7, <1>9 DEF LockHeld, LookupCurrent
<1>11. ViewsCurrent' /\ OneRow' /\ HourlyIsGrowth'
  BY <1>7 DEF AlarmInv, ViewsCurrent, OneRow, HourlyIsGrowth,
     Old, timeline
<1> QED
  BY <1>8, <1>10, <1>11 DEF AlarmInv

LEMMA LookupInv ==
  ASSUME AlarmInv, NEW s \in Slots, Lookup(s)
  PROVE  AlarmInv'
<1> DEFINE expired == /\ alarm.state = "accepted_risk"
                      /\ alarm.until <= req[s].at
           new == [req[s] EXCEPT !.pc = "write", !.known = rows > 0,
                     !.seenCount = alarm.count, !.seenState = alarm.state,
                     !.seenExpired = expired]
<1>1. /\ TypeOK /\ req \in [Slots -> Request] /\ req[s] \in Request
      /\ alarm \in Alarm
  BY DEF AlarmInv, TypeOK
<1>2. expired \in BOOLEAN /\ (rows > 0) \in BOOLEAN
  OBVIOUS
<1>3. alarm.count \in 0 .. MaxCount /\ alarm.state \in State
  BY <1>1, AlarmFields
<1>4. req' = [req EXCEPT ![s] = new]
  BY DEF Lookup
<1>5. /\ new.pc = "write" /\ new.known = (rows > 0)
      /\ new.seenCount = alarm.count
  BY <1>1 DEF Request
<1>6. new \in Request
  <2> HIDE DEF expired
  <2> QED
    BY <1>1, <1>2, <1>3, Zenon DEF Request
<1> HIDE DEF new
<1>7. req' \in [Slots -> Request] /\ req'[s] = new
  BY <1>1, <1>4, <1>6
<1>8. \A t \in Slots \ {s} : req'[t] = req[t]
  BY <1>1, <1>4
<1>9. /\ UNCHANGED <<test, now, starts, lock, rows, alarm, timeline, via, view>>
      /\ req[s].pc = "lookup"
  BY DEF Lookup
<1>10. TypeOK'
  BY <1>1, <1>7, <1>9 DEF TypeOK, timeline
<1>11. LockHeld'
  BY <1>7, <1>8, <1>9 DEF AlarmInv, LockHeld
<1>12. LookupCurrent'
  BY <1>5, <1>7, <1>8, <1>9 DEF AlarmInv, LookupCurrent
<1>13. ViewsCurrent' /\ OneRow' /\ HourlyIsGrowth'
  BY <1>9 DEF AlarmInv, ViewsCurrent, OneRow, HourlyIsGrowth,
     Old, timeline
<1> QED
  BY <1>10, <1>11, <1>12, <1>13 DEF AlarmInv

(* The batch that inserts found no row, and none came since. *)
LEMMA InsertInv ==
  ASSUME AlarmInv, NEW s \in Slots, Insert(s)
  PROVE  AlarmInv'
<1>1. /\ TypeOK /\ req \in [Slots -> Request] /\ req[s] \in Request
      /\ rows \in Nat /\ LockHeld
  BY DEF AlarmInv, TypeOK
<1>2. req[s].pc = "write" /\ ~ req[s].known /\ rows' = rows + 1 /\ Finish(s)
  BY DEF Insert
<1>3. rows = 0
  BY <1>1, <1>2 DEF AlarmInv, LookupCurrent
<1>4. rows' = 1
  BY <1>2, <1>3
<1>5. PICK state \in {IF test THEN "mitigated" ELSE "open", "false_positive"} :
        alarm' = [state |-> state, version |-> 0, count |-> req[s].count,
                  until |-> None]
  BY DEF Insert
<1>6. req[s].count \in 0 .. MaxCount
  BY <1>1, RequestFields
<1>7. state \in {"open", "mitigated", "false_positive"}
  BY <1>5
<1>8. /\ alarm' \in Alarm
      /\ alarm'.state # "accepted_risk" /\ alarm'.until = None
  BY <1>5, <1>6, <1>7, BoundsAssumption DEF Alarm, State, Closed,
     Expiry
<1>9. UNCHANGED <<test, now, starts, view>> /\ via' = "ingest"
  BY DEF Insert
<1>10. /\ req' \in [Slots -> Request] /\ lock' \in Slots \cup {None}
       /\ req'[s] = IdleRequest
       /\ \A t \in Slots \ {s} : req'[t] = req[t]
       /\ LockHeld'
  BY <1>1, <1>2, FinishChanges
<1>11. /\ hours' \in [Time -> Nat] /\ grew' = hours'
       /\ \A t \in Time : hours'[t] <= grew'[t]
  <2>1. hours' = [NoHours EXCEPT ![req[s].at] = req[s].count] /\ grew' = hours'
    BY DEF Insert
  <2>2. NoHours \in [Time -> Nat] /\ req[s].count \in Nat
    BY <1>6, BoundsAssumption DEF NoHours
  <2>3. hours' \in [Time -> Nat]
    BY <2>1, <2>2
  <2> QED
    BY <2>1, <2>3
<1>12. TypeOK'
  BY <1>1, <1>4, <1>8, <1>9, <1>10, <1>11 DEF TypeOK
<1>13. LookupCurrent'
  BY <1>1, <1>2, <1>10, Alone DEF LookupCurrent, IdleRequest
<1>14. ViewsCurrent'
  BY <1>3, <1>9 DEF AlarmInv, ViewsCurrent
<1>15. OneRow' /\ HourlyIsGrowth'
  BY <1>4, <1>11 DEF OneRow, HourlyIsGrowth
<1> QED
  BY <1>10, <1>12, <1>13, <1>14, <1>15 DEF AlarmInv

(* The alarm after a resend that adds starts. *)
LEMMA RaiseAlarm ==
  ASSUME AlarmInv, NEW s \in Slots, Raise(s),
         ~ (req[s].count <= req[s].seenCount)
  PROVE  /\ alarm' \in Alarm
         /\ alarm'.state = "accepted_risk" <=> alarm'.until # None
         /\ hours' \in [Time -> Nat] /\ grew' \in [Time -> Nat]
         /\ HourlyIsGrowth'
         /\ \/ alarm'.version = alarm.version /\ alarm'.state = alarm.state
            \/ alarm'.version = alarm.version + 1
<1> DEFINE r == req[s]
           recurred == ~ test /\ (r.seenState = "mitigated" \/ r.seenExpired)
           before == IF recurred THEN Reopened ELSE alarm
           count == IF r.count > before.count THEN r.count ELSE before.count
           more == r.count - alarm.count
<1>1. /\ r \in Request /\ alarm \in Alarm
      /\ (alarm.state = "accepted_risk" <=> alarm.until # None)
  BY DEF AlarmInv, TypeOK
<1>2. r.pc = "write"
  BY DEF Raise
<1>3. r.seenCount = alarm.count
  BY <1>2 DEF AlarmInv, LookupCurrent
<1>4. r.count \in 0 .. MaxCount /\ r.count > alarm.count
  BY <1>1, <1>3, RequestFields, AlarmFields, BoundsAssumption
<1>5. more \in Nat /\ r.at \in Time
  BY <1>1, <1>4, AlarmFields, RequestFields, BoundsAssumption
<1>6. /\ Reopened \in Alarm
      /\ Reopened.state = "open" /\ Reopened.until = None
      /\ Reopened.version = alarm.version + 1
      /\ Reopened.count = alarm.count
  <2>1. "open" \in State /\ None \in Expiry
    BY DEF State, Expiry
  <2>2. Reopened = Triaged(alarm, "open", None)
    BY DEF Reopened, Triaged
  <2> QED
    BY <1>1, <2>1, <2>2, TriageWrite
<1>7. /\ before \in Alarm
      /\ before.state = "accepted_risk" <=> before.until # None
      /\ \/ before.version = alarm.version /\ before.state = alarm.state
         \/ before.version = alarm.version + 1
      /\ before.count = alarm.count
  BY <1>1, <1>6
<1>8. /\ alarm' = [before EXCEPT !.count = count]
      /\ hours' = [hours EXCEPT ![r.at] = @ + (r.count - r.seenCount)]
      /\ grew' = [grew EXCEPT ![r.at] = @ + (alarm'.count - alarm.count)]
      /\ now' = now
  BY DEF Raise, Hourly
<1>9. count = r.count
  BY <1>4, <1>7
<1> HIDE DEF before, count, r
<1>10. alarm' = [before EXCEPT !.count = r.count]
  BY <1>8, <1>9
<1>11. r.count \in Nat
  BY <1>4, BoundsAssumption
<1>12. /\ alarm' \in Alarm
       /\ alarm'.state = before.state /\ alarm'.until = before.until
       /\ alarm'.version = before.version
       /\ alarm'.count = r.count
  BY <1>4, <1>7, <1>10, <1>11 DEF Alarm
<1>13. /\ hours' = [hours EXCEPT ![r.at] = @ + more]
       /\ grew' = [grew EXCEPT ![r.at] = @ + more]
  BY <1>3, <1>8, <1>12
<1>14. /\ hours \in [Time -> Nat] /\ grew \in [Time -> Nat]
       /\ HourlyIsGrowth
  BY DEF AlarmInv, TypeOK
<1> HIDE DEF more
<1>15. hours' \in [Time -> Nat] /\ grew' \in [Time -> Nat]
  BY <1>5, <1>13, <1>14
<1>16. HourlyIsGrowth'
  BY <1>5, <1>8, <1>13, <1>14 DEF HourlyIsGrowth, Old
<1> QED
  BY <1>7, <1>12, <1>15, <1>16

LEMMA RaiseInv ==
  ASSUME AlarmInv, NEW s \in Slots, Raise(s)
  PROVE  AlarmInv'
<1>1. /\ TypeOK /\ alarm \in Alarm /\ req[s] \in Request /\ LockHeld
      /\ HourlyIsGrowth
  BY DEF AlarmInv, TypeOK
<1>2. req[s].pc = "write" /\ Finish(s)
  BY DEF Raise
<1>3. UNCHANGED <<test, now, starts, rows, view>>
  BY DEF Raise
<1>4. /\ alarm' \in Alarm
      /\ alarm'.state = "accepted_risk" <=> alarm'.until # None
      /\ hours' \in [Time -> Nat] /\ grew' \in [Time -> Nat]
      /\ HourlyIsGrowth'
      /\ \/ alarm'.version = alarm.version /\ alarm'.state = alarm.state
         \/ alarm'.version = alarm.version + 1
  <2>1. CASE req[s].count <= req[s].seenCount
    <3>1. alarm' = alarm /\ hours' = hours /\ grew' = grew
      BY <2>1 DEF Raise, timeline
    <3> QED
      BY <1>1, <1>3, <3>1 DEF TypeOK, HourlyIsGrowth, Old
  <2>2. CASE ~ (req[s].count <= req[s].seenCount)
    BY <2>2, RaiseAlarm
  <2> QED
    BY <2>1, <2>2
<1>5. via' \in {"none", "ingest", "triage", "suppression"}
  BY <1>1 DEF Raise, TypeOK
<1>6. /\ req' \in [Slots -> Request] /\ lock' \in Slots \cup {None}
      /\ req'[s] = IdleRequest
      /\ \A t \in Slots \ {s} : req'[t] = req[t]
      /\ LockHeld'
  BY <1>1, <1>2, FinishChanges
<1>7. TypeOK'
  BY <1>1, <1>3, <1>4, <1>5, <1>6 DEF TypeOK, timeline
<1>8. LookupCurrent'
  BY <1>1, <1>2, <1>6, Alone DEF LookupCurrent, IdleRequest
<1>9. ViewsCurrent'
  BY <1>1, <1>3, <1>4, AlarmFields DEF AlarmInv, ViewsCurrent, TypeOK, View
<1>10. OneRow' /\ HourlyIsGrowth'
  BY <1>3, <1>4 DEF AlarmInv, OneRow, HourlyIsGrowth,
     Old, timeline
<1> QED
  BY <1>6, <1>7, <1>8, <1>9, <1>10 DEF AlarmInv

LEMMA FailInv ==
  ASSUME AlarmInv, NEW s \in Slots, Fail(s)
  PROVE  AlarmInv'
<1>1. TypeOK /\ LockHeld
  BY DEF AlarmInv
<1>2. Finish(s) /\ UNCHANGED <<test, now, starts, rows, alarm, timeline, via, view>>
  BY DEF Fail
<1>3. /\ req' \in [Slots -> Request] /\ lock' \in Slots \cup {None}
      /\ req'[s] = IdleRequest
      /\ \A t \in Slots \ {s} : req'[t] = req[t]
      /\ LockHeld'
  BY <1>1, <1>2, FinishChanges
<1>4. TypeOK'
  BY <1>1, <1>2, <1>3 DEF TypeOK, timeline
<1>5. LookupCurrent'
  BY <1>2, <1>3 DEF AlarmInv, LookupCurrent, IdleRequest
<1>6. ViewsCurrent' /\ OneRow' /\ HourlyIsGrowth'
  BY <1>2 DEF AlarmInv, ViewsCurrent, OneRow, HourlyIsGrowth,
     Old, timeline
<1> QED
  BY <1>3, <1>4, <1>5, <1>6 DEF AlarmInv

LEMMA ReadInv ==
  ASSUME AlarmInv, NEW u \in Analysts, Read(u)
  PROVE  AlarmInv'
<1> DEFINE page == [state |-> alarm.state, version |-> alarm.version]
<1>1. /\ TypeOK /\ alarm \in Alarm
      /\ view \in [Analysts -> View \cup {None}]
  BY DEF AlarmInv, TypeOK
<1>2. page \in View
  BY <1>1, AlarmFields DEF View
<1>3. /\ rows > 0 /\ view' = [view EXCEPT ![u] = page]
      /\ UNCHANGED <<test, now, starts, lock, req, rows, alarm, timeline, via>>
  BY DEF Read
<1>4. view' \in [Analysts -> View \cup {None}] /\ view'[u] = page
  BY <1>1, <1>2, <1>3
<1>5. \A w \in Analysts \ {u} : view'[w] = view[w]
  BY <1>1, <1>3
<1>6. TypeOK'
  BY <1>1, <1>3, <1>4 DEF TypeOK, timeline
<1>7. ViewsCurrent'
  BY <1>1, <1>3, <1>4, <1>5, AlarmFields DEF AlarmInv, ViewsCurrent
<1>8. LockHeld' /\ LookupCurrent' /\ OneRow' /\ HourlyIsGrowth'
  BY <1>3 DEF AlarmInv, LockHeld, LookupCurrent, OneRow, HourlyIsGrowth,
     Old, timeline
<1> QED
  BY <1>6, <1>7, <1>8 DEF AlarmInv

LEMMA UpdateTriageInv ==
  ASSUME AlarmInv, NEW u \in Analysts, NEW state \in State,
         NEW until \in Expiry, UpdateTriage(u, state, until)
  PROVE  AlarmInv'
<1>1. /\ TypeOK /\ alarm \in Alarm
      /\ view \in [Analysts -> View \cup {None}]
  BY DEF AlarmInv, TypeOK
<1>2. /\ alarm' = [alarm EXCEPT !.state = state, !.until = until,
                                !.version = @ + 1]
      /\ (state = "accepted_risk" <=> until # None)
      /\ via' = "triage"
      /\ view' = [view EXCEPT ![u] = None]
      /\ UNCHANGED <<test, now, starts, lock, req, rows, timeline>>
  BY DEF UpdateTriage
<1>3. /\ alarm' \in Alarm
      /\ alarm'.state = state /\ alarm'.until = until
      /\ alarm'.version = alarm.version + 1
      /\ alarm'.count = alarm.count
  <2>1. alarm' = Triaged(alarm, state, until)
    BY <1>2 DEF Triaged
  <2> QED
    BY <1>1, <2>1, TriageWrite
<1>4. /\ view' \in [Analysts -> View \cup {None}] /\ view'[u] = None
      /\ \A w \in Analysts \ {u} : view'[w] = view[w]
  BY <1>1, <1>2
<1>5. TypeOK'
  BY <1>1, <1>2, <1>3, <1>4 DEF TypeOK, timeline
<1>6. ViewsCurrent'
  BY <1>1, <1>2, <1>3, <1>4, AlarmFields DEF AlarmInv, ViewsCurrent, View
<1>7. LockHeld' /\ LookupCurrent' /\ OneRow' /\ HourlyIsGrowth'
  BY <1>2, <1>3 DEF AlarmInv, LockHeld, LookupCurrent, OneRow, HourlyIsGrowth,
     Old, timeline
<1> QED
  BY <1>5, <1>6, <1>7 DEF AlarmInv

LEMMA CloseSourceInv ==
  ASSUME AlarmInv, CloseSource
  PROVE  AlarmInv'
<1>1. /\ TypeOK /\ alarm \in Alarm
      /\ view \in [Analysts -> View \cup {None}]
      /\ (alarm.state = "accepted_risk" <=> alarm.until # None)
  BY DEF AlarmInv, TypeOK
<1>2. /\ alarm.state = "open"
      /\ alarm' = [alarm EXCEPT !.state = "false_positive", !.version = @ + 1]
      /\ via' = "suppression"
      /\ UNCHANGED <<test, now, starts, lock, req, rows, timeline, view>>
  BY DEF CloseSource
<1>3. /\ alarm' \in Alarm
      /\ alarm'.state = "false_positive" /\ alarm'.until = alarm.until
      /\ alarm'.version = alarm.version + 1
      /\ alarm'.count = alarm.count
  <2>1. "false_positive" \in State
    BY DEF State, Closed
  <2> QED
    BY <1>1, <1>2, <2>1, StateWrite
<1>4. TypeOK'
  BY <1>1, <1>2, <1>3 DEF TypeOK, timeline
<1>5. ViewsCurrent'
  BY <1>1, <1>2, <1>3, AlarmFields DEF AlarmInv, ViewsCurrent, View
<1>6. LockHeld' /\ LookupCurrent' /\ OneRow' /\ HourlyIsGrowth'
  BY <1>2, <1>3 DEF AlarmInv, LockHeld, LookupCurrent, OneRow, HourlyIsGrowth,
     Old, timeline
<1> QED
  BY <1>4, <1>5, <1>6 DEF AlarmInv

LEMMA PruneInv ==
  ASSUME AlarmInv, PruneAlarmHourly
  PROVE  AlarmInv'
<1>1. /\ TypeOK /\ HourlyIsGrowth
      /\ hours \in [Time -> Nat] /\ grew \in [Time -> Nat]
  BY DEF AlarmInv, TypeOK
<1>2. /\ hours' = [t \in Time |-> IF Old(t) THEN 0 ELSE hours[t]]
      /\ UNCHANGED <<test, now, starts, lock, req, rows, alarm, grew, via, view>>
  BY DEF PruneAlarmHourly
<1>3. hours' \in [Time -> Nat]
  BY <1>1, <1>2
<1>4. TypeOK'
  BY <1>1, <1>2, <1>3 DEF TypeOK
<1>5. HourlyIsGrowth'
  BY <1>1, <1>2 DEF HourlyIsGrowth, Old
<1>6. LockHeld' /\ LookupCurrent' /\ ViewsCurrent' /\ OneRow'
  BY <1>2 DEF AlarmInv, LockHeld, LookupCurrent, ViewsCurrent, OneRow
<1> QED
  BY <1>4, <1>5, <1>6 DEF AlarmInv

LEMMA NextInv == AlarmInv /\ [Next]_vars => AlarmInv'
<1> SUFFICES ASSUME AlarmInv, [Next]_vars PROVE AlarmInv'
  OBVIOUS
<1>1. CASE Tick
  BY <1>1, TickInv
<1>2. CASE Start
  BY <1>2, StartInv
<1>3. CASE \E s \in Slots : AlarmBatch(s) \/ Step(s) \/ Fail(s)
  BY <1>3, AlarmBatchInv, UpdateDroppedInv, LookupInv, InsertInv, RaiseInv,
     FailInv DEF Step
<1>4. CASE \E u \in Analysts :
             \/ Read(u)
             \/ \E state \in State, until \in Expiry :
                  UpdateTriage(u, state, until)
  BY <1>4, ReadInv, UpdateTriageInv
<1>5. CASE CloseSource
  BY <1>5, CloseSourceInv
<1>6. CASE PruneAlarmHourly
  BY <1>6, PruneInv
<1>7. CASE UNCHANGED vars
  BY <1>7 DEF vars, AlarmInv, TypeOK, LockHeld, LookupCurrent, ViewsCurrent,
              OneRow, HourlyIsGrowth,
     Old, timeline
<1> QED
  BY <1>1, <1>2, <1>3, <1>4, <1>5, <1>7, <1>6 DEF Next

LEMMA Invariance == Spec => []AlarmInv
<1>1. Init => AlarmInv
  BY InitInv
<1>2. AlarmInv /\ [Next]_vars => AlarmInv'
  BY NextInv
<1> QED
  BY <1>1, <1>2, PTL DEF Spec

---------------------------------------------------------------------------
(* Results *)

(* The state keeps its types; in particular an alarm has an expiry exactly *)
(* while its risk is accepted, whichever of ingest, triage and suppression *)
(* wrote it last.                                                          *)
THEOREM TypeCorrect == Spec => []TypeOK
<1>1. AlarmInv => TypeOK
  BY DEF AlarmInv
<1> QED
  BY <1>1, Invariance, PTL

(* insert_batch never stores an alarm twice, however many batches of the   *)
(* agent overlap.                                                          *)
THEOREM NeverTwice == Spec => []OneRow
<1>1. AlarmInv => OneRow
  BY DEF AlarmInv
<1> QED
  BY <1>1, Invariance, PTL

(* insert_batch counts every start into one hour, however batches are      *)
(* resent, delayed and interleaved, and prune_alarm_hourly takes nothing   *)
(* from an hour that is to be kept.                                        *)
THEOREM HoursShowGrowth == Spec => []HourlyIsGrowth
<1>1. AlarmInv => HourlyIsGrowth
  BY DEF AlarmInv
<1> QED
  BY <1>1, Invariance, PTL

(* update_triage replaces only the state its caller was shown. *)
THEOREM TriageReplacesSeen == Spec => ReplacesWhatWasSeen
<1> DEFINE Seen ==
      \A u \in Analysts :
        view[u] # None /\ view'[u] = None => view[u].state = alarm.state
<1>1. ASSUME AlarmInv, [Next]_vars
      PROVE  [Seen]_vars
  <2>1. SUFFICES ASSUME Next, NEW u \in Analysts, view[u] # None,
                        view'[u] = None
                 PROVE  view[u].state = alarm.state
    BY <1>1
  <2>2. view \in [Analysts -> View \cup {None}]
    BY <1>1 DEF AlarmInv, TypeOK
  <2>3. ~ (view' = view)
    BY <2>1
  <2>4. PICK w \in Analysts :
          \/ Read(w)
          \/ \E state \in State, until \in Expiry :
               UpdateTriage(w, state, until)
    BY <2>1, <2>3 DEF Next, Tick, Start, AlarmBatch, Step, UpdateDropped,
       Lookup, Insert, Raise, Fail, CloseSource,
       PruneAlarmHourly
  <2>5. CASE Read(w)
    <3>1. view' = [view EXCEPT ![w] = [state |-> alarm.state,
                                       version |-> alarm.version]]
      BY <2>5 DEF Read
    <3>2. w = u
      BY <2>1, <2>2, <3>1
    <3>3. [state |-> alarm.state, version |-> alarm.version] \in View
      BY <1>1, AlarmFields DEF AlarmInv, TypeOK, View
    <3> QED
      BY <2>1, <2>2, <3>1, <3>2, <3>3, NoPageAssumption
  <2>6. CASE \E state \in State, until \in Expiry :
               UpdateTriage(w, state, until)
    <3>1. /\ view' = [view EXCEPT ![w] = None]
          /\ alarm.version = view[w].version
      BY <2>6 DEF UpdateTriage
    <3>2. w = u
      BY <2>1, <2>2, <3>1
    <3> QED
      BY <1>1, <2>1, <3>1, <3>2 DEF AlarmInv, ViewsCurrent
  <2> QED
    BY <2>4, <2>5, <2>6
<1> QED
  BY <1>1, Invariance, PTL DEF Spec, ReplacesWhatWasSeen
=============================================================================
