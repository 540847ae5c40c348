------------------------------- MODULE Alarms -------------------------------
(***************************************************************************)
(* One threat alarm (protocol P14): alarm batches that store and raise it, *)
(* the starts per hour of its timeline, which maintenance prunes, and the  *)
(* console's writes to its triage columns.                                 *)
(*                                                                         *)
(* insert_batch is one transaction at READ COMMITTED.  Its first statement *)
(* updates the agent's row and so holds that row's lock until it ends; the *)
(* alarm is then looked up without a lock and written later.  A console    *)
(* write locks the alarm's row, checks and writes in one step.             *)
(***************************************************************************)
EXTENDS Naturals

CONSTANTS
  Slots,      \* alarm batches that can exist at a time
  Analysts,   \* console users
  MaxCount,   \* bound on the starts that match the rule
  MaxTime,    \* bound on the clock
  MaxVersion, \* bound on console writes
  Retention,  \* how long maintenance keeps an hour (seven days)
  None

ASSUME NoSlotAssumption == None \notin Slots

ASSUME BoundsAssumption ==
  /\ MaxCount \in Nat \ {0} /\ MaxTime \in Nat /\ MaxVersion \in Nat
  /\ Retention \in Nat

VARIABLES
  test,    \* is the rule a test rule (rules::TEST_RULES)?
  now,     \* the platform's clock
  starts,  \* agent: how many starts matched so far
  lock,    \* the batch that holds the agent's row
  req,     \* the batches
  rows,    \* how many rows of table alarms have this agent and alarm_id
  alarm,   \* the alarm's row
  hours,   \* its alarm_hourly_starts; a time is an hour, 0 stands for no row
  grew,    \* history: by how much the count grew in each hour
  via,     \* history: what wrote the triage columns last
  view     \* the alarm as each analyst's page shows it

vars == <<test, now, starts, lock, req, rows, alarm, hours, grew, via, view>>
timeline == <<hours, grew>>

Time == 0 .. MaxTime
Expiry == Time \cup {None}

Closed == {"mitigated", "accepted_risk", "false_positive"}
State == {"open"} \cup Closed

Alarm ==
  [state : State, version : Nat, count : 0 .. MaxCount, until : Expiry]

(* known, seenCount, seenState and seenExpired are what the lookup read. *)
Request ==
  [pc : {"idle", "lock", "lookup", "write"}, at : Time, count : 0 .. MaxCount,
   known : BOOLEAN, seenCount : 0 .. MaxCount, seenState : State,
   seenExpired : BOOLEAN]

IdleRequest ==
  [pc |-> "idle", at |-> 0, count |-> 0, known |-> FALSE, seenCount |-> 0,
   seenState |-> "open", seenExpired |-> FALSE]

View == [state : State, version : Nat]

ASSUME NoPageAssumption == None \notin View

TypeOK ==
  /\ test \in BOOLEAN
  /\ now \in Time
  /\ starts \in 0 .. MaxCount
  /\ lock \in Slots \cup {None}
  /\ req \in [Slots -> Request]
  /\ rows \in Nat
  /\ alarm \in Alarm
  /\ alarm.state = "accepted_risk" <=> alarm.until # None
  /\ hours \in [Time -> Nat] /\ grew \in [Time -> Nat]
  /\ via \in {"none", "ingest", "triage", "suppression"}
  /\ view \in [Analysts -> View \cup {None}]

NoHours == [t \in Time |-> 0]

Init ==
  /\ test \in BOOLEAN
  /\ now = 0
  /\ starts = 0
  /\ lock = None
  /\ req = [s \in Slots |-> IdleRequest]
  /\ rows = 0
  /\ alarm = [state |-> "open", version |-> 0, count |-> 0, until |-> None]
  /\ hours = NoHours /\ grew = NoHours
  /\ via = "none"
  /\ view = [u \in Analysts |-> None]

Tick ==
  /\ now < MaxTime
  /\ now' = now + 1
  /\ UNCHANGED <<test, starts, lock, req, rows, alarm, timeline, via, view>>

---------------------------------------------------------------------------
(* POST /v1/alarms *)

(* The agent (external) counts another start. *)
Start ==
  /\ starts < MaxCount
  /\ starts' = starts + 1
  /\ UNCHANGED <<test, now, lock, req, rows, alarm, timeline, via, view>>

(* A batch with the alarm as the agent counted it.  The agent sends one    *)
(* at a time, but one it gave up may still be running when the next comes. *)
AlarmBatch(s) ==
  /\ req[s].pc = "idle"
  /\ starts > 0
  /\ req' = [req EXCEPT ![s] =
       [IdleRequest EXCEPT !.pc = "lock", !.at = now, !.count = starts]]
  /\ UNCHANGED <<test, now, starts, lock, rows, alarm, timeline, via, view>>

(* Faulty variant: alarms_dropped_total is written in a statement of its   *)
(* own, before the transaction.                                            *)
UpdateDroppedAlone(s) ==
  /\ req[s].pc = "lock"
  /\ req' = [req EXCEPT ![s].pc = "lookup"]
  /\ UNCHANGED <<test, now, starts, lock, rows, alarm, timeline, via, view>>

(* UPDATE agents SET alarms_dropped_total: the row stays locked. *)
UpdateDropped(s) ==
  /\ req[s].pc = "lock"
  /\ lock = None
  /\ lock' = s
  /\ req' = [req EXCEPT ![s].pc = "lookup"]
  /\ UNCHANGED <<test, now, starts, rows, alarm, timeline, via, view>>

(* SELECT ... FROM alarms, without FOR UPDATE. *)
Lookup(s) ==
  /\ req[s].pc = "lookup"
  /\ req' = [req EXCEPT ![s] =
       [@ EXCEPT !.pc = "write", !.known = rows > 0,
          !.seenCount = alarm.count, !.seenState = alarm.state,
          !.seenExpired = /\ alarm.state = "accepted_risk"
                          /\ alarm.until <= req[s].at]]
  /\ UNCHANGED <<test, now, starts, lock, rows, alarm, timeline, via, view>>

(* The end of the transaction. *)
Finish(s) ==
  /\ req' = [req EXCEPT ![s] = IdleRequest]
  /\ lock' = IF lock = s THEN None ELSE lock

(* A new alarm: closed by a suppression, closed because its rule is a test *)
(* rule, or open.                                                          *)
Insert(s) ==
  /\ req[s].pc = "write"
  /\ ~ req[s].known
  /\ rows' = rows + 1
  /\ \E state \in {IF test THEN "mitigated" ELSE "open", "false_positive"} :
       alarm' = [state |-> state, version |-> 0, count |-> req[s].count,
                 until |-> None]
  /\ hours' = [NoHours EXCEPT ![req[s].at] = req[s].count]
  /\ grew' = [NoHours EXCEPT ![req[s].at] = req[s].count]
  /\ via' = "ingest"
  /\ Finish(s)
  /\ UNCHANGED <<test, now, starts, view>>

(* Faulty variant: the whole count of a resend is added to the hour. *)
HourlyAll(r) == [hours EXCEPT ![r.at] = @ + r.count]

(* The hour in which the batch came grows by what it adds to the count. *)
Hourly(r) == [hours EXCEPT ![r.at] = @ + (r.count - r.seenCount)]

(* Faulty variant: the reopened alarm keeps its triage_version. *)
ReopenedSameVersion == [alarm EXCEPT !.state = "open", !.until = None]

(* Faulty variant: the expiry of the accepted risk is kept. *)
ReopenedKeepsUntil == [alarm EXCEPT !.state = "open", !.version = @ + 1]

Reopened ==
  [alarm EXCEPT !.state = "open", !.until = None, !.version = @ + 1]

(* A known alarm: a resend that adds nothing changes nothing.  The alarm   *)
(* is reopened by the state that the lookup saw, unless it is a test.      *)
Raise(s) ==
  LET r == req[s]
      recurred == ~ test /\ (r.seenState = "mitigated" \/ r.seenExpired)
      before == IF recurred THEN Reopened ELSE alarm
  IN
  /\ r.pc = "write"
  /\ r.known
  /\ IF r.count <= r.seenCount
     THEN UNCHANGED <<alarm, timeline, via>>
     ELSE /\ alarm' = [before EXCEPT
                         !.count = IF r.count > @ THEN r.count ELSE @]
          /\ hours' = Hourly(r)
          /\ grew' = [grew EXCEPT ![r.at] = @ + (alarm'.count - alarm.count)]
          /\ via' = IF recurred THEN "ingest" ELSE via
  /\ Finish(s)
  /\ UNCHANGED <<test, now, starts, rows, view>>

(* A database error or a deadline: the transaction rolls back. *)
Fail(s) ==
  /\ req[s].pc # "idle"
  /\ Finish(s)
  /\ UNCHANGED <<test, now, starts, rows, alarm, timeline, via, view>>

---------------------------------------------------------------------------
(* The console *)

Read(u) ==
  /\ rows > 0
  /\ view' = [view EXCEPT ![u] = [state |-> alarm.state,
                                  version |-> alarm.version]]
  /\ UNCHANGED <<test, now, starts, lock, req, rows, alarm, timeline, via>>

(* console_alarms::update_triage: a stale version is refused; the expiry   *)
(* is given for accepted risk only, and lies ahead.  Any state may follow  *)
(* any other; where state and expiry stay, the note or the assignee is     *)
(* what changes.                                                           *)
UpdateTriage(u, state, until) ==
  /\ view[u] # None
  /\ alarm.version = view[u].version
  /\ alarm.version < MaxVersion
  /\ state = "accepted_risk" <=> until # None
  /\ until # None => until > now
  /\ alarm' = [alarm EXCEPT !.state = state, !.until = until,
                            !.version = @ + 1]
  /\ via' = "triage"
  /\ view' = [view EXCEPT ![u] = None]
  /\ UNCHANGED <<test, now, starts, lock, req, rows, timeline>>

(* alarm_suppression_writes::close_source. *)
CloseSource ==
  /\ rows > 0
  /\ alarm.state = "open"
  /\ alarm.version < MaxVersion
  /\ alarm' = [alarm EXCEPT !.state = "false_positive", !.version = @ + 1]
  /\ via' = "suppression"
  /\ UNCHANGED <<test, now, starts, lock, req, rows, timeline, view>>

---------------------------------------------------------------------------
(* openvibes-admin maintenance *)

Old(t) == t + Retention < now

(* prune_alarm_hourly: old hours go; the alarm and its count stay. *)
PruneAlarmHourly ==
  /\ \E t \in Time : Old(t) /\ hours[t] > 0
  /\ hours' = [t \in Time |-> IF Old(t) THEN 0 ELSE hours[t]]
  /\ UNCHANGED <<test, now, starts, lock, req, rows, alarm, grew, via, view>>

Step(s) == UpdateDropped(s) \/ Lookup(s) \/ Insert(s) \/ Raise(s)

Next ==
  \/ Tick
  \/ Start
  \/ \E s \in Slots : AlarmBatch(s) \/ Step(s) \/ Fail(s)
  \/ \E u \in Analysts :
       \/ Read(u)
       \/ \E state \in State, until \in Expiry :
            UpdateTriage(u, state, until)
  \/ CloseSource
  \/ PruneAlarmHourly

Spec == Init /\ [][Next]_vars

---------------------------------------------------------------------------
(* Properties *)

(* Batches that overlap never store an alarm twice: there is no unique     *)
(* index, the lock of the agent's row alone keeps them apart.              *)
OneRow == rows <= 1

(* The timeline counts every start once: an hour holds by how much the     *)
(* batches received in it raised the alarm's count, whatever was sent      *)
(* again, late or at the same time.  An hour that is older than Retention  *)
(* may have been pruned, and then holds less; no younger one does.         *)
HourlyIsGrowth ==
  \A t \in Time :
    hours[t] <= grew[t] /\ (Old(t) \/ hours[t] = grew[t])

(* An analyst's triage replaces what the analyst's page showed, also when  *)
(* ingest or a suppression changed the alarm meanwhile, or changed it and  *)
(* back.                                                                   *)
ReplacesWhatWasSeen ==
  [][\A u \in Analysts :
       view[u] # None /\ view'[u] = None => view[u].state = alarm.state]_vars
=============================================================================
