------------------------------- MODULE Netlog -------------------------------
(***************************************************************************)
(* openvibes-netlog: datagrams of network devices are counted into alarms  *)
(* held in memory (collapse::Collapser), and stored every batch_seconds    *)
(* (service::store).                                                       *)
(*                                                                         *)
(* The service is one task: no datagram is handled while a store runs.     *)
(* The database (external) may fail a store, or commit and lose the        *)
(* answer; the process may die at any point.  Nobody else changes a stored *)
(* alarm of a device: console_alarms::update_triage and the closing of     *)
(* alarms by a suppression join the agent, which it has none of.           *)
(***************************************************************************)
EXTENDS Naturals, FiniteSets, Functions

CONSTANTS
  Keys,         \* device, signature and source of an event
  Devices,
  DeviceOf,     \* the device of a key
  MaxKeys,      \* max_collapse_keys
  Window,       \* collapse_minutes
  Missing,      \* the days (here: times) without an alarms partition
  MaxTime, MaxEvents, MaxFaults,  \* bounds on the behaviours that are explored
  None

ASSUME NetlogAssumption ==
  /\ IsFiniteSet(Keys)
  /\ DeviceOf \in [Keys -> Devices]
  /\ MaxKeys \in Nat \ {0} /\ Window \in Nat \ {0}
  /\ MaxTime \in Nat /\ MaxEvents \in Nat /\ MaxFaults \in Nat

VARIABLES
  clock,     \* Utc::now()
  open,      \* Collapser.open
  mem,       \* Counters.received of each device, not yet flushed
  tx,        \* the store in progress
  rows,      \* the device alarms stored, by key and first_seen (the alarm id)
  received,  \* devices.received
  faults,    \* failures so far
  begun,     \* of every alarm ever begun: the events counted, the last one
  cut,       \* alarms that were evicted, or in memory when the process ended
  gone,      \* alarms that a process ended without having stored
  handled    \* datagrams so far

vars == <<clock, open, mem, tx, rows, received, faults, begun, cut, gone,
          handled>>
ghosts == <<begun, cut, gone, handled>>

Times == 0 .. MaxTime
Ids == Keys \X Times
Id(k) == <<k, open[k].born>>

Entry == [born: Times, count: 1 .. MaxEvents, last: Times, dirty: BOOLEAN]

Row == [count: 1 .. MaxEvents, last: Times]

ASSUME NoneAssumption == None \notin Entry

(* step is where store is; final is set for the store of the shutdown;     *)
(* todo are the alarms, or the devices, still to be stored; staged are the *)
(* rows that the transaction has written.                                  *)
Idle == [step |-> "idle", final |-> FALSE, todo |-> {}, staged |-> <<>>]

Larger(m, n) == IF m < n THEN n ELSE m

Held == {k \in Keys : open[k] # None}
Dirty == {k \in Held : open[k].dirty}

Init ==
  /\ clock = 0
  /\ open = [k \in Keys |-> None]
  /\ mem = [d \in Devices |-> 0]
  /\ tx = Idle
  /\ rows = <<>>
  /\ received = [d \in Devices |-> 0]
  /\ faults = 0
  /\ begun = <<>> /\ cut = {} /\ gone = {}
  /\ handled = 0

-----------------------------------------------------------------------------
(* Datagrams *)

(* Faulty variant: the window is measured from the first event. *)
ExpiredFromFirst(k) == ~ open[k].dirty /\ open[k].born + Window <= clock

(* An alarm that is stored and has been quiet for the window. *)
Expired(k) == ~ open[k].dirty /\ open[k].last + Window <= clock

(* Faulty variant: the oldest alarm makes room, stored or not. *)
OldestAny(kept) == {k \in kept : \A j \in kept : open[k].last <= open[j].last}

(* The stored alarm that has been quiet for longest makes room. *)
Oldest(kept) ==
  LET clean == {k \in kept : ~ open[k].dirty}
  IN  {k \in clean : \A j \in clean : open[k].last <= open[j].last}

(* Faulty variant: a full map takes another alarm. *)
RoomAlways(kept) == TRUE

Room(kept) == Cardinality(kept) < MaxKeys

(* One more event for an alarm in memory. *)
Count(k) ==
  /\ open' = [j \in Keys |->
       IF j = k THEN [open[k] EXCEPT !.count = @ + 1, !.last = clock, !.dirty = TRUE]
       ELSE IF open[j] # None /\ Expired(j) THEN None ELSE open[j]]
  /\ begun' = [begun EXCEPT ![Id(k)] = [count |-> @.count + 1, last |-> clock]]
  /\ cut' = cut

(* A new alarm, with the keys in kept left in memory.  Its id holds the    *)
(* time in milliseconds: storing and evicting an alarm takes longer.       *)
Begin(k, kept) ==
  /\ <<k, clock>> \notin DOMAIN begun
  /\ open' = [j \in Keys |->
       IF j = k THEN [born |-> clock, count |-> 1, last |-> clock, dirty |-> TRUE]
       ELSE IF j \in kept THEN open[j] ELSE None]
  /\ begun' = [i \in DOMAIN begun \cup {<<k, clock>>} |->
       IF i = <<k, clock>> THEN [count |-> 1, last |-> clock] ELSE begun[i]]
  /\ cut' = cut \cup {Id(j) : j \in {i \in Held : ~ Expired(i)} \ kept}

(* The map is full of unstored alarms: the event is dropped. *)
Drop(kept) ==
  /\ open' = [j \in Keys |-> IF j \in kept THEN open[j] ELSE None]
  /\ UNCHANGED <<begun, cut>>

(* handle, with Collapser::add: an event of a known device. *)
Handle(k) ==
  LET kept == {j \in Held : ~ Expired(j)} IN
  /\ tx = Idle /\ handled < MaxEvents
  /\ \/ k \in kept /\ Count(k)
     \/ k \notin kept /\ Room(kept) /\ Begin(k, kept)
     \/ k \notin kept /\ ~ Room(kept) /\ \E j \in Oldest(kept) : Begin(k, kept \ {j})
     \/ k \notin kept /\ ~ Room(kept) /\ Oldest(kept) = {} /\ Drop(kept)
  /\ mem' = [mem EXCEPT ![DeviceOf[k]] = @ + 1]
  /\ handled' = handled + 1
  /\ UNCHANGED <<clock, tx, rows, received, faults, gone>>

Tick ==
  /\ clock < MaxTime
  /\ clock' = clock + 1
  /\ UNCHANGED <<open, mem, tx, rows, received, faults, ghosts>>

-----------------------------------------------------------------------------
(* The store *)

(* The process ends, and a new one starts with nothing in memory. *)
Forget ==
  /\ open' = [k \in Keys |-> None]
  /\ mem' = [d \in Devices |-> 0]
  /\ tx' = Idle
  /\ cut' = cut \cup {Id(k) : k \in Held}

(* store returns: to the loop, or from run after the final one. *)
Return ==
  IF tx.final THEN Forget
  ELSE tx' = Idle /\ UNCHANGED <<open, mem, cut>>

(* The flush tick, or the shutdown; a pool that gives no client leaves     *)
(* everything as it is.                                                    *)
Start(final) ==
  /\ tx = Idle
  /\ final \/ Dirty # {} \/ \E d \in Devices : mem[d] > 0
  /\ tx' = [Idle EXCEPT !.step = "batch", !.final = final, !.todo = Dirty]
  /\ UNCHANGED <<clock, open, mem, rows, received, faults, ghosts>>

Failed == faults < MaxFaults /\ faults' = faults + 1

(* insert_batch fails or the connection is lost: what is unstored stays,   *)
(* unless this was the final store.                                        *)
Fails ==
  /\ tx.step = "batch" /\ Failed
  /\ Return
  /\ gone' = IF tx.final THEN gone \cup {Id(k) : k \in Dirty} ELSE gone
  /\ UNCHANGED <<clock, rows, received, begun, handled>>

(* An alarm's row: new, or with its count and last seen raised. *)
Written(k) ==
  IF Id(k) \in DOMAIN rows
  THEN [count |-> Larger(rows[Id(k)].count, open[k].count),
        last |-> Larger(rows[Id(k)].last, open[k].last)]
  ELSE [count |-> open[k].count, last |-> open[k].last]

(* Faulty variant: a batch with an alarm that has no partition fails. *)
InsertAllOrNone(k) ==
  /\ tx.step = "batch" /\ k \in tx.todo
  /\ tx' = IF open[k].born \in Missing THEN Idle
           ELSE [tx EXCEPT !.todo = @ \ {k},
                   !.staged = [i \in DOMAIN @ \cup {Id(k)} |->
                                 IF i = Id(k) THEN Written(k) ELSE @[i]]]
  /\ UNCHANGED <<clock, open, mem, rows, received, faults, ghosts>>

(* insert_batch: the next alarm of the batch is skipped when its day has   *)
(* no partition, else written.                                             *)
Insert(k) ==
  /\ tx.step = "batch" /\ k \in tx.todo
  /\ tx' = IF open[k].born \in Missing THEN [tx EXCEPT !.todo = @ \ {k}]
           ELSE [tx EXCEPT !.todo = @ \ {k},
                   !.staged = [i \in DOMAIN @ \cup {Id(k)} |->
                                 IF i = Id(k) THEN Written(k) ELSE @[i]]]
  /\ UNCHANGED <<clock, open, mem, rows, received, faults, ghosts>>

Staged ==
  [i \in DOMAIN rows \cup DOMAIN tx.staged |->
     IF i \in DOMAIN tx.staged THEN tx.staged[i] ELSE rows[i]]

(* The transaction commits: Collapser::stored, then the counters.  What    *)
(* was dirty when the batch was read has not changed since.                *)
Commit ==
  /\ tx.step = "batch" /\ tx.todo = {}
  /\ rows' = Staged
  /\ open' = [k \in Keys |->
       IF open[k] = None THEN None ELSE [open[k] EXCEPT !.dirty = FALSE]]
  /\ tx' = [Idle EXCEPT !.step = "counters", !.final = tx.final,
                        !.todo = {d \in Devices : mem[d] > 0}]
  /\ UNCHANGED <<clock, mem, received, faults, ghosts>>

(* It commits, and the answer is lost. *)
CommitUnheard ==
  /\ tx.step = "batch" /\ tx.todo = {} /\ DOMAIN tx.staged # {}
  /\ Failed
  /\ rows' = Staged
  /\ Return
  /\ gone' = gone
  /\ UNCHANGED <<clock, received, begun, handled>>

(* devices::flush fails: the counters stay for the next store. *)
FlushFails(d) ==
  /\ tx.step = "counters" /\ d \in tx.todo /\ Failed
  /\ tx' = [tx EXCEPT !.todo = @ \ {d}]
  /\ UNCHANGED <<clock, open, mem, rows, received, ghosts>>

(* devices::flush adds the counters to the device's row. *)
Flush(d) ==
  /\ tx.step = "counters" /\ d \in tx.todo
  /\ received' = [received EXCEPT ![d] = @ + mem[d]]
  /\ mem' = [mem EXCEPT ![d] = 0]
  /\ tx' = [tx EXCEPT !.todo = @ \ {d}]
  /\ UNCHANGED <<clock, open, rows, faults, ghosts>>

(* It adds them, and the answer is lost: they are added again. *)
FlushUnheard(d) ==
  /\ tx.step = "counters" /\ d \in tx.todo /\ Failed
  /\ received' = [received EXCEPT ![d] = @ + mem[d]]
  /\ tx' = [tx EXCEPT !.todo = @ \ {d}]
  /\ UNCHANGED <<clock, open, mem, rows, ghosts>>

Finish ==
  /\ tx.step = "counters" /\ tx.todo = {}
  /\ Return
  /\ UNCHANGED <<clock, rows, received, faults, begun, gone, handled>>

(* The process dies. *)
Crash ==
  /\ Failed
  /\ Forget
  /\ gone' = gone \cup {Id(k) : k \in Dirty}
  /\ UNCHANGED <<clock, rows, received, begun, handled>>

-----------------------------------------------------------------------------
Store ==
  \/ Start(FALSE)
  \/ \E k \in Keys : Insert(k)
  \/ Commit
  \/ \E d \in Devices : Flush(d)
  \/ Finish

Next ==
  \/ \E k \in Keys : Handle(k)
  \/ Tick
  \/ Store
  \/ Start(TRUE)
  \/ Fails
  \/ CommitUnheard
  \/ \E d \in Devices : FlushFails(d) \/ FlushUnheard(d)
  \/ Crash

Spec == Init /\ [][Next]_vars

(* The flush interval keeps ticking, and a store that has begun goes on. *)
FairSpec == Spec /\ WF_vars(Store)

-----------------------------------------------------------------------------
(* Properties *)

(* Every variable has its type, and Collapser holds max_collapse_keys      *)
(* alarms at most.                                                         *)
TypeOK ==
  /\ clock \in Times /\ faults \in 0 .. MaxFaults
  /\ open \in [Keys -> Entry \cup {None}] /\ Cardinality(Held) <= MaxKeys
  /\ mem \in [Devices -> 0 .. MaxEvents] /\ received \in [Devices -> Nat]
  /\ handled \in 0 .. MaxEvents
  /\ DOMAIN rows \subseteq Ids /\ Range(rows) \subseteq Row
  /\ tx.step \in {"idle", "batch", "counters"} /\ tx.final \in BOOLEAN
  /\ tx.todo \subseteq Keys \cup Devices
  /\ DOMAIN tx.staged \subseteq Ids /\ Range(tx.staged) \subseteq Row

(* No event that was counted into an alarm is lost or counted twice,       *)
(* whatever store failed, was answered or not, and whatever was evicted:   *)
(* the alarm waits in memory with its count, or is stored with it.  (Not   *)
(* where the process died first, or the day has no partition.)             *)
EventsAreKept ==
  \A i \in DOMAIN begun :
    /\ i \in DOMAIN rows => rows[i].count <= begun[i].count
    /\ i[2] \notin Missing /\ i \notin gone =>
         \/ open[i[1]] # None /\ Id(i[1]) = i /\ open[i[1]].dirty
                /\ open[i[1]].count = begun[i].count
         \/ i \in DOMAIN rows /\ rows[i].count = begun[i].count

(* "Same device + signature + source within `window` of the last event is  *)
(* one alarm": an alarm begins a window after the one before it ended,     *)
(* unless that was evicted or the process ended.                           *)
RunsAreApart ==
  \A i, j \in DOMAIN begun :
    i[1] = j[1] /\ i[2] < j[2] /\ i \notin cut => begun[i].last + Window <= j[2]

(* Once the database answers, all that was counted is stored, whatever     *)
(* else a batch holds: an alarm of a day without a partition holds no      *)
(* other back, and neither does a store that failed.  (Not where the       *)
(* process died first.)                                                    *)
AlarmsAreStored ==
  []<>(\A i \in DOMAIN begun :
         \/ i[2] \in Missing \/ i \in gone
         \/ i \in DOMAIN rows /\ rows[i].count = begun[i].count)
=============================================================================
