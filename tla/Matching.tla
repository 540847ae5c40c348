------------------------------- MODULE Matching -------------------------------
(***************************************************************************)
(* Vulnerability matching: ingest stores inventories and notifies          *)
(* openvibes-vulns, whose main loop checks the feed and re-matches the     *)
(* notified hosts, while a second task re-matches the hosts that the       *)
(* database says are pending.                                              *)
(*                                                                         *)
(* The hosts are on one Fedora release, and a host is matched by a         *)
(* sequence of statements, each a transaction of its own, without a lock   *)
(* that spans them.  A member of Packages is a package version with the    *)
(* one advisory that may list it; whether the version is in the advisory's *)
(* range is part of the feed's content.  A batch of a release match has    *)
(* one host.                                                               *)
(*                                                                         *)
(* Nothing holds a writer off while a match runs: stale, upset and content *)
(* are history variables that record where a match read what was written   *)
(* under it, and change nothing else.                                      *)
(***************************************************************************)
EXTENDS Naturals, FiniteSets

CONSTANTS
  Hosts,       \* agents
  Packages,    \* package versions that hosts may have
  Contents,    \* what feeds may say of the package versions
  MaxFeeds,    \* bound on the feed's versions
  MaxEvents,   \* bound on the inventories stored, changes of the feed
               \*   upstream, failures and restarts
  Null         \* no value

ASSUME MatchingAssumption ==
  /\ Null \notin Hosts \cup Nat
  /\ \A inventory \in SUBSET Packages : inventory # Null
  /\ Contents \subseteq
       [Packages -> {"missing", "harmless", "fixable", "nofix"}]
  /\ MaxFeeds \in Nat /\ MaxEvents \in Nat

VARIABLES
  rows,       \* tables host_packages: a host's package versions, or Null
  pending,    \* agents.vulnerability_match_version < MATCHER_VERSION
  notes,      \* notifications in the main loop's channel, by host
  upstream,   \* the feed on the mirrors
  adv,        \* tables advisories and advisory_packages
  recorded,   \* feed_sources.content_sha256: the feed's version, or Null
  checked,    \* is feed_sources.last_checked_at set?
  open,       \* table vulnerabilities: the open ones
  noFix,      \* table version_vulnerabilities
  counted,    \* table host_vulnerability_counts: what was counted
  task,       \* the two tasks of the service
  reports,    \* the inventories stored so far
  faults,     \* the faults so far
  stale,      \* history: the hosts that a task's match has outdated reads of
  upset,      \* history: the hosts with a match like that, and none since
              \*   that ran to its mark on what was stored
  content     \* history: the version of the feed imported last

store == <<adv, recorded, checked, open, noFix, counted, pending>>
matchingVars ==
  <<rows, pending, notes, upstream, adv, recorded, checked,
    open, noFix, counted, task, reports, faults, stale, upset, content>>
overlaps == <<stale, upset, content>>

Workers == {"main", "retry"}

(* What the advisory of a package version says of it.  "missing": the feed *)
(* has no such advisory; "harmless": the version is not in the range.      *)
Status == {"missing", "harmless", "fixable", "nofix"}

(* A feed's digest is its version: checks never see an earlier feed again. *)
Feed == [version : Nat, status : [Packages -> Status]]

NoFeed == [version |-> 0, status |-> [p \in Packages |-> "missing"]]

PCs == {"idle", "rematch", "known", "download", "import", "versions",
        "applyVersions", "hosts", "candidates", "apply", "counts", "mark",
        "record"}

(* todo: the pending hosts that the retry task has yet to visit.  host:    *)
(* the host to match, or Null; release: is the match of all hosts?  left:  *)
(* the batches still to match; batch: the current one.                     *)
Task ==
  [pc : PCs, todo : SUBSET Hosts, host : Hosts \cup {Null}, release : BOOLEAN,
   known : Nat \cup {Null}, feed : Feed, evaluated : SUBSET Packages,
   pairs : SUBSET Packages, without : SUBSET Packages, left : SUBSET Hosts,
   batch : Hosts \cup {Null}, found : SUBSET Packages]

IdleTask ==
  [pc |-> "idle", todo |-> {}, host |-> Null, release |-> FALSE,
   known |-> Null, feed |-> NoFeed, evaluated |-> {}, pairs |-> {},
   without |-> {}, left |-> {}, batch |-> Null, found |-> {}]

MatchingTypeOK ==
  /\ rows \in [Hosts -> (SUBSET Packages) \cup {Null}]
  /\ pending \in [Hosts -> BOOLEAN]
  /\ notes \in [Hosts -> Nat]
  /\ upstream \in Feed
  /\ adv \in [Packages -> Status]
  /\ recorded \in Nat \cup {Null}
  /\ checked \in BOOLEAN
  /\ open \in [Hosts -> SUBSET Packages]
  /\ noFix \in SUBSET Packages
  /\ counted \in [Hosts -> [open : SUBSET Packages, noFix : SUBSET Packages]]
  /\ task \in [Workers -> Task]
  /\ reports \in Nat /\ faults \in Nat
  /\ stale \in [Workers -> SUBSET Hosts]
  /\ upset \in SUBSET Hosts
  /\ content \in Nat

MatchingInit ==
  /\ rows = [h \in Hosts |-> Null]
  /\ pending = [h \in Hosts |-> FALSE]
  /\ notes = [h \in Hosts |-> 0]
  /\ upstream \in [version : {1}, status : Contents]
  /\ adv = NoFeed.status
  /\ recorded = Null
  /\ checked = FALSE
  /\ open = [h \in Hosts |-> {}]
  /\ noFix = {}
  /\ counted = [h \in Hosts |-> [open |-> {}, noFix |-> {}]]
  /\ task = [w \in Workers |-> IdleTask]
  /\ reports = 0
  /\ faults = 0
  /\ stale = [w \in Workers |-> {}] /\ upset = {} /\ content = 0

(* The host's package versions; before its first report it has none. *)
Installed(h) == IF rows[h] = Null THEN {} ELSE rows[h]

Affected(status) == {p \in Packages : adv[p] = status}

Covers(w, h) == task[w].release \/ task[w].host = h

Eventful == reports + upstream.version + faults <= MaxEvents

(* Is the task between the first read of a match and its mark? *)
Reading(w) ==
  task[w].pc \in {"applyVersions", "hosts", "candidates", "apply", "counts",
                  "mark"}

Outdated(h) == \E w \in Workers : h \in stale[w]

(* The history of a match: it begins, its mark ends it, or it is given up. *)
BeginMatch(w) ==
  /\ stale' = [stale EXCEPT ![w] = {h \in Hosts : Outdated(h)}]
  /\ UNCHANGED <<upset, content>>

EndMatch(w, hosts) ==
  /\ upset' = upset \ (hosts \ stale[w])
  /\ stale' = [stale EXCEPT ![w] = {}]
  /\ content' = content

GiveUp(w) ==
  /\ stale' = [stale EXCEPT ![w] = {}]
  /\ UNCHANGED <<upset, content>>

(* An inventory is stored under the matches of its host. *)
StoredUnder(h) ==
  LET under == {w \in Workers : Reading(w) /\ Covers(w, h)} IN
  /\ stale' = [w \in Workers |->
                 IF w \in under THEN stale[w] \cup {h} ELSE stale[w]]
  /\ upset' = IF under = {} THEN upset ELSE upset \cup {h}
  /\ content' = content

(* Advisories are replaced under the matches of the other task, or come    *)
(* after those of the same or a later feed.                                *)
ImportedUnder(w) ==
  LET under == {v \in Workers \ {w} : Reading(v)}
      late == recorded # Null /\ task[w].feed.version <= recorded
      unrecorded == \E v \in Workers \ {w} : task[v].pc = "record"
  IN
  /\ stale' = [v \in Workers |-> IF v \in under THEN Hosts ELSE stale[v]]
  /\ upset' = IF under # {} \/ late \/ unrecorded THEN Hosts ELSE upset
  /\ content' = task[w].feed.version

---------------------------------------------------------------------------
(* Outside the service *)

(* inventory::replace or apply_changes, with a new digest.  The            *)
(* notification is lost while the LISTEN connection is down.               *)
Report(h, inventory) ==
  /\ Eventful
  /\ rows[h] # inventory
  /\ StoredUnder(h)
  /\ rows' = [rows EXCEPT ![h] = inventory]
  /\ pending' = [pending EXCEPT ![h] = TRUE]
  /\ notes' \in {notes, [notes EXCEPT ![h] = @ + 1]}
  /\ reports' = reports + 1
  /\ UNCHANGED <<upstream, adv, recorded, checked, open, noFix,
                 counted, task, faults>>

(* The mirrors have a new feed. *)
Publish(status) ==
  /\ upstream.version < MaxFeeds
  /\ Eventful
  /\ upstream' = [version |-> upstream.version + 1, status |-> status]
  /\ UNCHANGED <<rows, notes, store, task, reports, faults, overlaps>>

---------------------------------------------------------------------------
(* What wakes the tasks *)

StepTo(w, record) == task' = [task EXCEPT ![w] = record]

Idle(w) == [IdleTask EXCEPT !.todo = task[w].todo]

(* Faulty variant: a release is not checked again once it has a feed. *)
TickFirstFeed ==
  /\ task["main"].pc = "idle"
  /\ recorded = Null
  /\ \E h \in Hosts : rows[h] # Null
  /\ StepTo("main", [IdleTask EXCEPT !.pc = "known"])
  /\ UNCHANGED <<rows, notes, upstream, store, reports, faults, overlaps>>

(* check_all: the release is checked if a host reports it. *)
Tick ==
  /\ task["main"].pc = "idle"
  /\ \E h \in Hosts : rows[h] # Null
  /\ StepTo("main", [IdleTask EXCEPT !.pc = "known"])
  /\ UNCHANGED <<rows, notes, upstream, store, reports, faults, overlaps>>

(* Faulty variant: a host is re-matched without a notification. *)
NotifiedUnasked(h) ==
  /\ task["main"].pc = "idle"
  /\ notes' = [notes EXCEPT ![h] = @ - 1]
  /\ StepTo("main", [IdleTask EXCEPT !.pc = "rematch", !.host = h])
  /\ UNCHANGED <<rows, upstream, store, reports, faults, overlaps>>

Notified(h) ==
  /\ task["main"].pc = "idle"
  /\ notes[h] > 0
  /\ notes' = [notes EXCEPT ![h] = @ - 1]
  /\ StepTo("main", [IdleTask EXCEPT !.pc = "rematch", !.host = h])
  /\ UNCHANGED <<rows, upstream, store, reports, faults, overlaps>>

(* hosts_needing_match, every minute. *)
LoadPending ==
  LET hosts == {h \in Hosts : rows[h] # Null /\ pending[h]} IN
  /\ task["retry"].pc = "idle" /\ task["retry"].todo = {}
  /\ hosts # {}
  /\ StepTo("retry", [IdleTask EXCEPT !.todo = hosts])
  /\ UNCHANGED <<rows, notes, upstream, store, reports, faults, overlaps>>

NextPending(h) ==
  /\ task["retry"].pc = "idle"
  /\ h \in task["retry"].todo
  /\ StepTo("retry", [IdleTask EXCEPT !.pc = "rematch", !.host = h,
                                      !.todo = task["retry"].todo \ {h}])
  /\ UNCHANGED <<rows, notes, upstream, store, reports, faults, overlaps>>

---------------------------------------------------------------------------
(* rematch, up to its match *)

(* A host waits for the release's first feed, which rematch fetches once   *)
(* and the main loop's check fetches from then on.                         *)
Rematch(w) ==
  /\ task[w].pc = "rematch"
  /\ \/ recorded # Null /\ StepTo(w, [task[w] EXCEPT !.pc = "versions"])
     \/ recorded = Null /\ checked /\ StepTo(w, Idle(w))
     \/ /\ recorded = Null /\ ~ checked
        /\ StepTo(w, [task[w] EXCEPT !.pc = "known"])
  /\ UNCHANGED <<rows, notes, upstream, store, reports, faults, overlaps>>

---------------------------------------------------------------------------
(* fetch::check and feed::import *)

ReadKnown(w) ==
  /\ task[w].pc = "known"
  /\ StepTo(w, [task[w] EXCEPT !.pc = "download", !.known = recorded])
  /\ UNCHANGED <<rows, notes, upstream, store, reports, faults, overlaps>>

(* The end of a check that found nothing wrong: rematch goes on with its   *)
(* host.                                                                   *)
AfterCheck(w) ==
  IF task[w].host = Null
  THEN StepTo(w, Idle(w))
  ELSE StepTo(w, [Idle(w) EXCEPT !.pc = "versions", !.host = task[w].host])

Unchanged(w) ==
  /\ task[w].pc = "download"
  /\ task[w].known = upstream.version
  /\ checked' = TRUE
  /\ AfterCheck(w)
  /\ UNCHANGED <<rows, notes, upstream, adv, recorded, open, noFix,
                 counted, pending, reports, faults, overlaps>>

Download(w) ==
  /\ task[w].pc = "download"
  /\ task[w].known # upstream.version
  /\ StepTo(w, [task[w] EXCEPT !.pc = "import", !.known = Null,
                               !.feed = upstream])
  /\ UNCHANGED <<rows, notes, upstream, store, reports, faults, overlaps>>

(* replace_advisories: advisories that the feed does not have are kept. *)
Upserted(status) ==
  [p \in Packages |-> IF status[p] = "missing" THEN adv[p] ELSE status[p]]

ReplaceAdvisories(w) ==
  /\ task[w].pc = "import"
  /\ ImportedUnder(w)
  /\ adv' = Upserted(task[w].feed.status)
  /\ StepTo(w, [task[w] EXCEPT !.pc = "versions", !.release = TRUE])
  /\ UNCHANGED <<rows, notes, upstream, recorded, checked, open,
                 noFix, counted, pending, reports, faults>>

---------------------------------------------------------------------------
(* match_release and match_host *)

(* version_candidates and per_version: every version that an advisory      *)
(* lists is evaluated, on all hosts or on one.                             *)
VersionCandidates(w) ==
  LET versions == IF task[w].release
                  THEN UNION {Installed(h) : h \in Hosts}
                  ELSE Installed(task[w].host)
  IN
  /\ task[w].pc = "versions"
  /\ BeginMatch(w)
  /\ StepTo(w, [task[w] EXCEPT
                  !.pc = "applyVersions",
                  !.evaluated = versions \ Affected("missing"),
                  !.pairs = versions \cap Affected("fixable"),
                  !.without = versions \cap Affected("nofix")])
  /\ UNCHANGED <<rows, notes, upstream, store, reports, faults>>

ApplyVersions(w) ==
  /\ task[w].pc = "applyVersions"
  /\ noFix' = (noFix \ task[w].evaluated) \cup task[w].without
  /\ StepTo(w, [task[w] EXCEPT
                  !.pc = IF task[w].release THEN "hosts" ELSE "candidates",
                  !.batch = IF task[w].release THEN Null ELSE task[w].host,
                  !.evaluated = {},
                  !.without = {}])
  /\ UNCHANGED <<rows, notes, upstream, adv, recorded, checked,
                 open, counted, pending, reports, faults, overlaps>>

ReleaseHosts(w) ==
  /\ task[w].pc = "hosts"
  /\ StepTo(w, [task[w] EXCEPT !.pc = "mark",
                  !.left = {h \in Hosts : rows[h] # Null}])
  /\ UNCHANGED <<rows, notes, upstream, store, reports, faults, overlaps>>

NextBatch(w, h) ==
  /\ task[w].pc = "mark"
  /\ h \in task[w].left
  /\ StepTo(w, [task[w] EXCEPT !.pc = "candidates", !.batch = h,
                               !.left = @ \ {h}])
  /\ UNCHANGED <<rows, notes, upstream, store, reports, faults, overlaps>>

(* candidates and evaluate: only the pairs found in VersionCandidates. *)
Candidates(w) ==
  /\ task[w].pc = "candidates"
  /\ StepTo(w, [task[w] EXCEPT !.pc = "apply",
                  !.found = Installed(task[w].batch) \cap task[w].pairs
                              \cap Affected("fixable")])
  /\ UNCHANGED <<rows, notes, upstream, store, reports, faults, overlaps>>

(* Faulty variant: what was not found again stays open. *)
ApplyFoundKept(w) ==
  /\ task[w].pc = "apply"
  /\ open' = [open EXCEPT ![task[w].batch] = @ \cup task[w].found]
  /\ StepTo(w, [task[w] EXCEPT !.pc = "counts", !.found = {}])
  /\ UNCHANGED <<rows, notes, upstream, adv, recorded, checked,
                 noFix, counted, pending, reports, faults, overlaps>>

ApplyFound(w) ==
  /\ task[w].pc = "apply"
  /\ open' = [open EXCEPT ![task[w].batch] = task[w].found]
  /\ StepTo(w, [task[w] EXCEPT !.pc = "counts", !.found = {}])
  /\ UNCHANGED <<rows, notes, upstream, adv, recorded, checked,
                 noFix, counted, pending, reports, faults, overlaps>>

RefreshCounts(w) ==
  LET h == task[w].batch IN
  /\ task[w].pc = "counts"
  /\ counted' = [counted EXCEPT ![h] =
       [open |-> open[h], noFix |-> Installed(h) \cap noFix]]
  /\ StepTo(w, [task[w] EXCEPT !.pc = "mark", !.batch = Null])
  /\ UNCHANGED <<rows, notes, upstream, adv, recorded, checked,
                 open, noFix, pending, reports, faults, overlaps>>

(* mark_host_matched, the end of a host's match. *)
MarkHost(w) ==
  /\ task[w].pc = "mark" /\ ~ task[w].release
  /\ pending' = [pending EXCEPT ![task[w].host] = FALSE]
  /\ EndMatch(w, {task[w].host})
  /\ StepTo(w, Idle(w))
  /\ UNCHANGED <<rows, notes, upstream, adv, recorded, checked,
                 open, noFix, counted, reports, faults>>

(* mark_release_matched: every host that has an inventory by then. *)
MarkRelease(w) ==
  /\ task[w].pc = "mark" /\ task[w].release /\ task[w].left = {}
  /\ pending' = [h \in Hosts |-> pending[h] /\ rows[h] = Null]
  /\ EndMatch(w, Hosts)
  /\ StepTo(w, [task[w] EXCEPT !.pc = "record", !.pairs = {}])
  /\ UNCHANGED <<rows, notes, upstream, adv, recorded, checked,
                 open, noFix, counted, reports, faults>>

(* record_feed with the new digest, after the match. *)
RecordFeed(w) ==
  /\ task[w].pc = "record"
  /\ recorded' = task[w].feed.version
  /\ checked' = TRUE
  /\ AfterCheck(w)
  /\ UNCHANGED <<rows, notes, upstream, adv, open, noFix, counted,
                 pending, reports, faults, overlaps>>

---------------------------------------------------------------------------
(* Faults *)

(* A statement, a download or the pool fails.  A failed download and a     *)
(* failed release match are recorded as a check, if that does not fail as  *)
(* well.                                                                   *)
Fail(w) ==
  /\ task[w].pc # "idle"
  /\ Eventful
  /\ StepTo(w, Idle(w))
  /\ GiveUp(w)
  /\ checked' \in {checked} \cup
       (IF task[w].pc = "download" \/ task[w].release THEN {TRUE} ELSE {})
  /\ faults' = faults + 1
  /\ UNCHANGED <<rows, notes, upstream, adv, recorded, open, noFix,
                 counted, pending, reports>>

(* The service restarts: its channel and its tasks are lost. *)
Restart ==
  /\ Eventful
  /\ task' = [w \in Workers |-> IdleTask]
  /\ stale' = [w \in Workers |-> {}]
  /\ notes' = [h \in Hosts |-> 0]
  /\ faults' = faults + 1
  /\ UNCHANGED <<rows, upstream, store, reports, upset, content>>

WorkerNext(w) ==
  \/ Rematch(w)
  \/ ReadKnown(w)
  \/ Unchanged(w)
  \/ Download(w)
  \/ ReplaceAdvisories(w)
  \/ VersionCandidates(w)
  \/ ApplyVersions(w)
  \/ ReleaseHosts(w)
  \/ \E h \in Hosts : NextBatch(w, h)
  \/ Candidates(w)
  \/ ApplyFound(w)
  \/ RefreshCounts(w)
  \/ MarkHost(w)
  \/ MarkRelease(w)
  \/ RecordFeed(w)

MatchingNext ==
  \/ \E h \in Hosts, inventory \in SUBSET Packages : Report(h, inventory)
  \/ \E status \in Contents : Publish(status)
  \/ Tick
  \/ \E h \in Hosts : Notified(h)
  \/ LoadPending
  \/ \E h \in Hosts : NextPending(h)
  \/ \E w \in Workers : WorkerNext(w)
  \/ \E w \in Workers : Fail(w)
  \/ Restart

MatchingSpec == MatchingInit /\ [][MatchingNext]_matchingVars

(* Both tasks go on and their timers fire.  Nothing is assumed of the      *)
(* notifications.                                                          *)
Fairness ==
  /\ \A w \in Workers : WF_matchingVars(WorkerNext(w))
  /\ WF_matchingVars(Tick)
  /\ WF_matchingVars(LoadPending)
  /\ WF_matchingVars(\E h \in Hosts : NextPending(h))

FairMatchingSpec == MatchingSpec /\ Fairness

---------------------------------------------------------------------------
(* Properties *)

(* The advisories are those of the feed upstream. *)
Current ==
  \A p \in Packages :
    upstream.status[p] # "missing" => adv[p] = upstream.status[p]

(* What is stored of the host's vulnerabilities follows from its inventory *)
(* and the advisories.                                                     *)
Right(h) ==
  /\ open[h] = Installed(h) \cap Affected("fixable")
  /\ counted[h] = [open  |-> open[h],
                   noFix |-> Installed(h) \cap Affected("nofix")]

(* A host that is marked as matched, with the imported feed recorded,      *)
(* shows exactly the vulnerabilities of its inventory and of that feed,    *)
(* also in the middle of another match, and whatever failed, restarted,    *)
(* overlapped or was lost before.  The one exception is a host whose match *)
(* read what an inventory or an import replaced before it was marked, up   *)
(* to its next match that is not overlapped like that.                     *)
MarkedIsRight ==
  content = recorded =>
    /\ content = upstream.version => Current
    /\ \A h \in Hosts : pending[h] \/ h \in upset \/ Right(h)

(* When both tasks are idle, no notification is left and no host is        *)
(* pending, nothing is going to look at a host again before the feed or    *)
(* the inventory changes: what is shown must be right.                     *)
SettledIsRight ==
  /\ recorded = upstream.version
  /\ \A w \in Workers : task[w] = IdleTask
  /\ \A h \in Hosts : notes[h] = 0 /\ ~ pending[h]
  => \A h \in Hosts : Right(h)

(* An older feed was imported after the recorded one. *)
Regressed == recorded # Null /\ content < recorded

(* Once reports, feeds and faults cease, every host is matched, and its    *)
(* vulnerabilities become right and stay so, though any notification is    *)
(* lost, any step failed and matches ran together.  Two races are          *)
(* excepted, since nothing repairs them before the next change: a host     *)
(* whose last match was overlapped by a write of what it had read, and     *)
(* two first checks that import an older feed over a newer one.            *)
Converges ==
  <>[](reports > 0 =>
         /\ Current \/ Regressed
         /\ \A h \in Hosts : ~ pending[h] /\ (h \in upset \/ Right(h)))
=============================================================================
