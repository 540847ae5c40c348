# Verification of the OpenVibes platform

TLA+ models of the platform's core logic, checked by TLC on small instances and
proved with TLAPS where the argument is worth having for every size. Paths are
relative to the repository root; `store/` stands for
`crates/platform-store/src/`.

## 1. The system

The platform is a set of Rust services around one PostgreSQL database. Agents on
hosts talk mTLS to `openvibes-ingest` (enroll, renew, heartbeat, findings,
inventory, alarms, services) and to `openvibes-distribution` (signed rule
bundles). `openvibes-vulns` matches inventories with advisories,
`openvibes-netlog` turns device syslog into alarms, `openvibes-console` serves
the analysts' web interface, `openvibes-signer` signs the site's own rules and
`openvibes-admin` is the operator's command line. `platform-store` holds every
query. The services share nothing but the database: READ COMMITTED
transactions, row locks, advisory locks and a few unique indexes are all that
keeps racing requests apart, and a handler that takes time from the clock, a
pooled connection and a lock does so in that order. That is where the code is
hard to test, and what the modules are about.

### Inventory

| Component | State it keeps | Operations | Interacts with | Hard behaviour | What makes it correct |
|---|---|---|---|---|---|
| Enrollment (`openvibes-ingest` enroll.rs, `store/ingest.rs`, `tokens.rs`, `agents.rs`) | `enrollment_tokens`, `token_uses`, `agents`, `certificates` | create, create standing, enroll, renew, revoke token, revoke agent | agents over mTLS, admin, console | racing uses, lost answers and retries, failure between statements, revocation under way | uses within the limit, one identity per token and key, every identity handed out is recorded |
| Finding changes P13 (`store/finding_changes.rs`, delivery.rs) | `current_findings`, `agents.match_sha256`, `agents.health` | apply a change set or a replace, heartbeat: end unassigned and note it, store the report, compare the digest | agents; rule-set assignment; triage | deltas lost, repeated and late; a heartbeat of three transactions | what is shown is one scan; the digest is that of the rows; platform and agent converge |
| Alarms P14 (`store/alarms.rs`, `console_alarms.rs`) | `alarms`, `alarm_hourly_starts`, triage history | insert batch, show, update triage, prune hours | agents, analysts, suppressions | overlapping batches, unlocked lookups, stale pages | one row, starts counted once, triage replaces what was seen |
| Suppressions (`store/alarm_suppressions.rs`, `alarm_suppression_writes.rs`, `host_group_writes.rs`) | `alarm_suppressions`, groups, setting `suppressions.require_approval` | request, decide, withdraw, remove, close covered, delete group | alarms, settings, groups | four kinds of writers for one row | a lifecycle no race breaks, approval by another person, the end with the group |
| Finding triage and bulk changes (`store/console_triage.rs`, `bulk_triage.rs`) | `console_finding_triage`, history | update, update many, reopen | analysts, ingest | stale versions, all or none | closed stays closed until it comes back |
| Inventory and services P11 (`store/inventory.rs`, `host_services.rs`, `imports.rs`, `change_log.rs`) | `host_packages`, fingerprint, change log | replace, apply changes, import | agents, matcher | as finding changes | the stored rows have the stored fingerprint |
| Vulnerability matcher (`openvibes-vulns`, `store/vulns*`) | `vulnerabilities`, `vulnerability_match_version`, counts | match host, match release, retry loop, notifications | inventory, feeds | marking what was not matched, lost notifications | every inventory is eventually matched |
| Rules (`store/rules.rs`, `rule_assignment.rs`, `openvibes-distribution`, `openvibes-signer`) | bundles, trust keys, switches, the signer's version file | publish, trust, retire, assign, poll, sign | agents, console | racing publishers, signer crash | versions only rise, no version signed twice |
| Console identity (`store/console_auth.rs`, `console_sso.rs`, `console_roles.rs`) | users, sessions, throttle buckets, idempotency rows, roles | login, logout, unlock, change roles, create tokens | browsers, identity provider | lockout races, sessions and switches, retries | no session outlives what granted it; an administrator remains |
| Device alarms (`openvibes-netlog`, `store/device_alarms.rs`) | the collapse map, `alarms` | add, flush, store | devices | map full, database down, flush under way | no stored count is lost or counted twice |
| Cases (`store/console_cases/`) | cases, items, events | create, add, close, reopen jobs | analysts, findings, alarms | jobs that skip locked rows | evidence that returns reopens |
| Agent server (`platform-agent-server`) | connections, permits | authenticate, limit, drain | all agent services | limits and deadlines | a drain ends |
| Settings, audit, dashboards, saved views, count history | one versioned or append-only row each | set, append, prune | console | version check | the check modelled in Alarms |
| Read models (host, vulnerability, compliance, port, service, software lists), assistant, web interface, picture, fetch, llm, feed tool, packaging, kit, load | none, or files | queries, conversions, I/O | | | not modelled |

## 2. Modules

| Module | Models | How state and steps correspond |
|---|---|---|
| `Enrollment` | tokens, enroll, renew, revocation | One variable per table; `task` is the local state of each request and `pc` the statement it runs next; the advisory lock is `lock`. The inserts of one transaction appear with its commit. `Respond` may deliver or lose the answer, `Fail` ends a request at any statement. |
| `MatchMirror` | the promise of P13 | Abstract specification: the matches shown are some whole scan, or what was shown with the switchable set withdrawn. |
| `FindingChanges` | P13 change sets and heartbeats of one host | A transaction begins with the agent's row lock, so it is one step; a heartbeat is three. The digest stands for the match set. A request that was given up keeps its slot and may run at any later time. The agent is external: it is modelled from the documents it sends and the answers it gets. |
| `Alarms` | one alarm, batches, analysts | `insert_batch` is split where it reads and where it writes; the agent's row lock is `lock`; `hours` are the starts per hour of the timeline, which `PruneAlarmHourly` (`maintenance.rs:132-144`) shortens; `grew` is a history variable with the growth of the count that each hour should hold. Suppressions appear as `CloseSource`. |
| `Suppressions` | suppressions of one program on one host | Row locks are `owner`; request checks and inserts in two steps; the deletion of the group is four statements; the alarm batch reads the suppressions and inserts later. |
| `Matching` | `openvibes-vulns`: inventories and feeds to vulnerabilities | `task["main"]` is the main loop with its channel `notes`, `task["retry"]` the task that asks the database for pending hosts. A match is a sequence of statements, each its own transaction: version candidates, their result, per host the candidates, the found vulnerabilities, the counts, the mark. A feed check reads the recorded digest, downloads, replaces the advisories, matches the release and records the digest last. `Fail` ends a task at any statement, `Restart` loses the channel and both tasks. |
| `Cases` | investigation cases and the checks that reopen them | A transaction locks its case's row in the step of its checks and writes with its commit; `claimed` is the uncommitted entry of the unique index of active items, on which others wait. A job lists what is due, then per case locks with `SKIP LOCKED`, reads the condition again, reads the items and commits. |
| `Rules` | one rule set from draft to agent | The signer's steps are those between which it can die: take the version, write the file, remember it, answer; `file` survives, `sets` does not. The store's steps are the statements of `publish_inner` and `add_trust_key` that read what another may write; `plock` is the advisory lock, `Shared` the `FOR SHARE` locks. `Serve` is the distribution service's answer. |
| `SignIn` | sessions, passwords, the Administrator role, single sign-on | `req` is a browser's request between its statements: verify, rehash, take the row `FOR SHARE` (`pc = "touch"` holds it), touch and insert; a password change locks the credential row `cred`. `jobs` are the administrators' requests between check and write, which hold the access-binding lock; single sign-on and the cleanup take roles without it (`LoseRole`). |
| `Netlog` | `openvibes-netlog`: the collapse map and its store | `open` is the map; one task, so no datagram is handled while `tx` is not idle. A store writes one alarm after the other (or skips it, when its day has no partition), commits, marks the entries clean, then flushes the devices' counters one by one. Any of these may fail, or succeed without the service hearing of it. |
| `EnrollmentProofs`, `FindingChangesProofs`, `AlarmsProofs`, `SuppressionsProofs`, `CasesProofs`, `RulesProofs`, `SignInMatchingProofs`, `NetlogProofs` | theorems | each extends its module; an inductive invariant in named parts, one lemma per action, then the theorems. `SignInMatchingProofs` has those of two modules, one after the other; the names of `Matching` are such that it can be extended together with another (`MatchingSpec`, `MatchingTypeOK`) |
| `MC*` | symmetry sets and constants | each extends its module for TLC |

`Suppressions` details what `Alarms` abstracts as `CloseSource`: there an open
alarm may be closed at any time; here it is closed by a suppression that was
activated. `Netlog` raises the counts of device alarms as `Alarms` does those of
agents, but without a row to lock: one task writes them. `Matching` takes from the inventory protocol
that a stored inventory resets the host's match version and notifies. These
relations are informal; the refinement that is checked and proved is that of
`MatchMirror` by `FindingChanges`.

Definitions whose comment begins "Faulty variant" are no part of the models. Each
is what a plausible slip in the code would make of the definition after it, and
shows that the property it is listed with can fail.

### Abstractions

- Identifiers, keys, contents and digests are values; SHA-256 is taken to be
  free of collisions and random identifiers to be fresh.
- Audit rows and log lines are in the transaction of what they record and are
  left out.
- Reach (which hosts a role may see) is a filter on rows and left out: the
  people of the models may reach everything.
- `FindingChanges`: what a finding says is one value; evidence and severity are
  part of it. Rows delivered by whole-scan findings (source `scan`) start in
  the table and are only taken over or ended. The history note of a withdrawn
  match is left out.
- `Alarms`: an alarm's host-side count only rises; a batch carries one alarm.
  The assignee and note are left out, the version is kept.
- `Suppressions`: what a suppression matches (program, command) is one value,
  and the host is in the group while the group exists.
- `Matching`: hosts are on one Fedora release; whether a version is in an
  advisory's range is part of the feed's content, so the comparison of versions
  is a parameter; a batch of a release match has one host.
- `Cases`: a request that states an old version is refused and changes nothing,
  so only those with the current one are actions. Items are what they point at.
- `Rules`: the signer's reasons to refuse are one nondeterministic refusal. Its
  version file can be found damaged or lost at a start, and `Seed` then takes any
  version, as `openvibes-signer seed` does (Setup passes 1). The rules are named by the
  request that sent them as drafts; a request whose drafts are published already
  changes nothing and is left out. Agents know every key and may drop one that was
  removed.
- `SignIn`: a password is the number of changes before it. Expiry of sessions,
  the throttle, the creation and the deletion of accounts are left out. A person of
  the identity provider has the roles their groups name at a sign-in and no other, as
  the console gives them none by hand
  (`crates/openvibes-console/src/access/people_roles.rs:129`); of the roles, only
  Administrator is kept. The cleanup may find a person idle at any time.
- `Netlog`: an alarm's id holds its first time in milliseconds, and storing and
  evicting an alarm is taken to last longer than one. The triage state of device
  alarms is left out. A suppression decides it when the alarm is stored; nothing
  changes it afterwards, as `update_triage` joins the agent
  (`store/console_alarms.rs:284`), so the reopening of a mitigated one
  (`store/device_alarms.rs:115-139`) does not happen.

## 3. Runs

| Run | Instance | Checks | Shows |
|---|---|---|---|
| `enrollment` | 1 token, 2 keys, 2 agents, 2 requests, limit 1 or 2, one renewal, clock 0..1 | `TypeOK`, `UsesWithinLimit`, `OneIdentityPerTokenAndKey`, `HandedIdentityIsRecorded` | holds |
| `enrollment_liveness` | same, no renewal | `WaitersAreServed` | holds |
| `finding_changes` | 2 keys, one switchable, 2 contents, 2 requests, 3 scans, 1 fault | `TypeOK`, `DigestOfRows`, `MirrorSpec` | holds, late heartbeats included |
| `finding_changes_liveness` | 1 content, 2 faults | `Converges` | holds when given-up heartbeats do not run |
| `alarms` | 2 batches, 2 analysts, 3 starts, 3 console writes, clock 0..2, hours kept for 1 | `TypeOK`, `OneRow`, `HourlyIsGrowth`, `ReplacesWhatWasSeen` | holds; the comment in `store/alarms.rs:229-231` fears a double insert that the agent's row lock excludes |
| `suppressions` | 2 people, 2 suppressions for one tick, clock 0..1 | `TypeOK`, `QuietedByApproved`, `EndsWithGroup`, `Lifecycle` | holds; of a deleted group only a row that an overlapping request inserted too late may be left |
| `matching` | 1 host, 1 package version, 2 feeds of two contents, together 3 reports and faults | `MatchingTypeOK`, `MarkedIsRight`, `Converges` | holds, with inventories, imports and both tasks' matches overlapping freely: a host that is marked is right, also while it is matched again, and no failure, restart or lost notification leaves a host wrong for ever, but for the hosts in `upset` and for `Regressed` (section 5) |
| `matching_overlap` | the same host, 1 feed, together 2 reports and faults | `SettledIsRight` | violated: see section 5 |
| `cases` | 2 cases, 1 item, 1 person, 1 job, batch of 1, watch of 1 tick, clock 0..2, 2 changes of evidence, 1 fault | `TypeOK`, `HeldByOneCase`, `ClosedIsDecided`, `DueIsReopened` | holds |
| `rules` | 2 publishers, the site's key and another, one envelope signed offline, 1 agent, 2 requests to the signer, 2 versions, any number of crashes, losses of the file and seedings | `TypeOK`, `SignedOnce`, `VersionsRise`, `StoredWhileTrusted`, `NoKeyOnRetired`, `AgentsCatchUp` | holds, though a seeded signer signs versions again |
| `sign_in` | 1 local account, 1 of the identity provider, 2 browsers, any number of administrators' requests, one change of password, one of generation | `TypeOK`, `ResetEndsSignIns`, `AdministratorRemains`, `OneChangeWins`, `RequestsEnd` | holds |
| `netlog` | 3 keys of 2 devices, room for 2 alarms, window of 2, one time without partition, clock 0..2, 4 datagrams, 1 fault | `TypeOK`, `EventsAreKept`, `RunsAreApart`, `AlarmsAreStored` | holds |

Each run ends within three minutes or so; the largest, `suppressions`, has 4.6
million states.

Why the bounds are enough: every race the code can lose is between two
transactions, so two requests (and the administrator, the agent or the deletion
beside them) reach it. Two keys are needed so that two requests of a token
compete and so that a delta touches one match and not the other; two contents
so that a match can change; three scans so that a set is switched off and on
again after a first match. A limit of 2 lets a token be used up by two and not
by one. Times need one value more than the comparisons that use them: a suppression of
one tick that is activated at 0 runs out at 1, and one that is activated at 1
outlasts the run, like one without an end. In `Matching`, two of the three
events are an inventory and the one that replaces it under a match, which leaves a
fault or a restart; two feeds are one to import and one to replace it. In `Cases`, two cases that share their item compete for
the unique index, a batch of one leaves the other case to a later check (with one
item it is taken by then: that the limit starves no case with other items would need
a third case and a second item), and three times let a risk run out after a close and a watch end. In `Rules`, two versions
are one to crash over and one to follow, and two requests are one before a crash or a
seeding and one after it; the offline envelope has the higher version, so that it and
the signer's compete. In `SignIn`, the one local account is the one
both browsers and all administrators want. In `Netlog`, a third key finds the
map full of two alarms, stored and not; a batch holds up to two, and as the time
without a partition is the second of three, one of them may have none. Bounds on counters
(`MaxVersion`, `MaxRenewals`, `MaxFaults`, `MaxScans`, `MaxEvents`) only stop growth.

Where the code has a race that breaks what a property says (section 5), the passing
run shows that nothing else does. `FindingChanges` leaves the case out by the switch
`LateHeartbeats`. `Suppressions` and `Matching` have the race, and history variables
name what it touched: `del.late` are the rows that came behind the deletion's
statement; `stale` and `upset` are the hosts whose match read what was replaced under
it, and `content` tells when an older feed was imported over the recorded one.

`Matching`, `Rules` and `Netlog` may come to rest once their bounded inputs are
used up, so their passing runs do not check for deadlock; all others do.

### Fairness

- `Enrollment`: a request that can go on does (tokio polls it, PostgreSQL
  answers or fails, and the request's deadline ends it: `Fail` is a step too);
  weak fairness of each request's next step. Waiters on an advisory lock are
  queued by PostgreSQL in order, hence strong fairness of `LockToken`.
- `FindingChanges`: requests on the platform end, as above; an answer the agent
  still waits for is read, the agent sends heartbeats for ever (weak), and sends
  its changes when it is again and again free to (strong: heartbeats and changes
  take turns in its one queue). Faults and scans are not fair; their number is
  bounded, which is the "once the network is back" of the property.
- `Matching`: both tasks go on and both timers fire (weak); nothing is assumed of
  notifications, so `Converges` rests on the retry task and the feed timer.
- `Cases`: transactions end, and the checks run again and again, which they do
  whenever the console lists or reads cases
  (`crates/openvibes-console/src/cases/page.rs:67`, `list_page.rs:177`,
  `list.rs:91,188`): with nobody looking, nothing reopens, and nobody sees it.
- `Rules`: agents poll for ever and not every answer is lost; nothing is assumed of
  publishers, the signer or operators.
- `SignIn`: a handler that can again and again go on does (strong: PostgreSQL
  queues the waiters of a row).
- `Netlog`: the flush interval ticks and a store that has begun goes on (weak).

Safety properties use no fairness.

## 4. Proofs

All theorems hold for every value of the constants that meets the named
assumptions: `None` (`Null` in `Matching`) is no member of the sets it is added
to, bounds are natural numbers, and the sets that the code counts are finite
(`Keys` in `Enrollment` and `Netlog`, the accounts in `SignIn`). `SignIn` also
assumes a local account, the Administrator that setup creates, and `Rules` that
offline envelopes are not signed with the site's key. TLC evaluates the
assumptions on every run.

In every module the proof has the same shape: an inductive invariant `Inv` with
`Init => Inv` (`InitInv`), one lemma per action that the action keeps `Inv`, their
combination `NextInv`, and `Invariance`; the theorems are the parts of `Inv`, or
what a step from a state with `Inv` can do.

- `EnrollmentProofs`. `TypeCorrect`, from a strengthening that types the locals
  by `pc` (an inserting request has a token and a key). `LimitHolds`:
  `UsesWithinLimit` is not inductive, since a request that counted before
  inserts later; `LimitInv` adds that a request inside the transaction holds its
  token's lock (`HoldsLock`), that there is room while it is about to insert
  (`RoomToInsert`, preserved because only the lock's holder inserts), and that
  tokens that do not exist have no uses. `HandedAreRecorded` and `RetriesAgree`:
  `IdentityInv` follows an identity from the use's row to the answer being
  sent to the set of answers that arrived.
- `FindingChangesProofs`. `MirrorInv` says that the documents under way carry
  match sets that some scan found and that the digest is that of the rows but for
  withdrawn ones. A delta is accepted only if the result's digest is the one the
  document names, so what is open afterwards is the scan the document was built
  from (`MirrorHolds`: the initial state maps to the initial state and every
  step to a step of `MatchMirror` or to a stutter).
- `AlarmsProofs`. `NeverTwice` and `HoursShowGrowth`: the batch that holds the
  agent's row is the only one between lookup and write (`LockHeld`), so what it
  looked up of existence and count is current (`LookupCurrent`); the hours that are
  kept then show exactly the growth (`grew`), and pruning removes whole old hours only. This is not
  so of the triage state, which the lock does not cover: that is item 4 of
  section 5. `TriageReplacesSeen`: a page's version equals the row's only
  if its state does (`ViewsCurrent`), since every write of the state raises the
  version.
- `SuppressionsProofs`, `SupInv`. `OneOutcome` (`Lifecycle`): a person's write goes by the
  state that was read, so it needs that a writer owns the row it is about to write and
  the row is still as it was read (`WritersHold`); likewise for what the deletion has
  ended but not committed (`DeletionHolds`). `ClosedByApproved`: an active row that had to wait was
  activated by another person (`ActivatedByOther`), and the rows that a batch matched
  before it inserts were active then and can only have been removed since
  (`ClosedByActive`). `DeletionEndsAll`: each statement of the
  deletion has all rows of the group in its state but those in `del.late`, and leaves
  no row for the next to miss (`EndedSoFar`); a row is late only if it was inserted
  when the statement for its state had run or the group was gone (`DeletesGroup`
  keeps a rolled-back deletion from leaving any).
- `CasesProofs`, `CasesInv`. What a session is about to write rests on what it checked
  under the case's row lock and still holds (`Holds`, `Prepared`), and an item that it
  makes active is one whose entry of the unique index it has claimed (`Indexed`). A
  claim is of a session that only has to commit, and no other case holds its item
  (`ClaimsHold`). `OneCaseHolds` follows. So does `ClosedStaysDecided`: a close found every
  item decided and nobody else writes the case before it commits; the job that clears
  outcomes has the row of an open case. A listed case is checked again under its
  lock, so of a job's list nothing is needed but that its cases exist (`Listed`).
- `RulesProofs`, `RulesInv`. `NeverSignedTwice`: the signer numbers one request at a
  time with the version after the last it remembers, and remembers none before the
  file has it (`OneNumbering`); every envelope handed out since the last seeding is at
  or below the memory and the file (`VersionsBehind`), and an answer about to be sent
  has a version that none of them has (`AnswersDiffer`); a signer that is down
  remembers nothing (`DownIsEmpty`). So a crash between write and answer loses a
  version and never repeats one. Only seeding does that, and the store refuses what was
  stored before: the other theorems need nothing of the signer.
  `PublishingRises` and `PublishingTrusts`: only the holder of the advisory lock is
  past it, and what it checked of versions and trust is still so at the insert
  (`PublisherAlone`), since no other publisher can insert and a removal of the key
  waits for the share lock. `KeysOnLiveSets`: a check that has passed keeps its share
  of the set's row until the key is written (`AddingIsLive`).
- `SignInMatchingProofs`, `MatchingInv`. `MatchingTypeCorrect` needs what a task has
  by the statement it has reached (`WellFormed`): a host unless it matches the
  release, a batch while it evaluates one, a feed while it imports one.
  `MarkedStaysRight`: `MarkedIsRight` speaks of the end of a match of some ten
  statements, so the invariant says of each of them, for every host of whose data the
  task has no outdated read (`h \notin stale[w]`), that what was read or written so
  far is what the tables give now: the versions evaluated (`Evaluated`), what was
  found for the batch (`BatchFound`) and the hosts done (`DoneIsRight`). Inventories,
  imports and the other task's match may come between any two statements: a write of
  what a match has read puts the host in `stale` of every match that covers it
  (`StaleInv`), and two matches that both read what is stored write the same. One
  version that two hosts share must get the same word from either match
  (`NoFixIsListed`: a version that no advisory lists has no entry, so not to evaluate
  it is right), and a host that a release match does not visit has no inventory and
  nothing stored (`EmptyIsRight`). That the mark is about the recorded feed is
  `FeedInv`: what is imported was upstream at its download, and the advisories have
  the feed imported last. `MarksAreRight` follows for every single mark, whatever feed
  is recorded: the only wrong mark is one whose match has an outdated read of that very
  host, which is what `matching_overlap` shows to happen.
- `SignInMatchingProofs`, `SignInInv`. `OldSignInsEnd`: a request that holds the account's row
  shared has the generation the row has (`SharedIsCurrent`), as every writer of the row
  waits for it; so a session bears the generation that its sign-in read
  (`SessionsAsRead`). `SomeoneAdministers`: under the
  access-binding lock a job that passed the check is alone and leaves another enabled
  Administrator, unless a role was taken without the lock since (`AdminInv`); counting
  the administrators needs the finite set of accounts. `ChangesCompare`: a request at the swap owns the credential row and
  the row still has the password it verified (`SwapHolds`).
- `NetlogProofs`, `NetlogInv`. `NoEventIsLost` relates three places where a count can
  be: the entry in memory, the row that the batch has staged and the committed row. `MemoryInv` says that an entry is the last alarm of its key and
  has its count and times; `StoredInv` that no row counts more than its alarm;
  `BatchInv` that a staged row has the entry's count
  (`WrittenRow`), which holds because the one task counts nothing while it stores. A
  commit that goes unheard leaves the entries dirty with the same counts, so the next
  batch writes the same numbers again. `WindowsHold`: an alarm that is no longer in
  memory has been quiet for the window or was cut short (`QuietInv`).

Only model-checked are the liveness properties (`WaitersAreServed`, `Converges` of
`FindingChanges` and of `Matching`, `DueIsReopened`, `AgentsCatchUp`,
`RequestsEnd`, `AlarmsAreStored`): fairness and `ENABLED` are beyond the prover.

## 5. Where the code and its text disagree

One disagreement has a run of its own. `store/vulns/candidates.rs:213` says that
`mark_release_matched` "Records that the release's current inventories were
successfully matched", and `crates/openvibes-vulns/src/service.rs:471-472` that retries
survive a restart because "The state is in the database". The mark is set for
whatever inventories are stored by then: one stored between the reads of a release
match and the mark is marked as matched, and if its notification is lost no task looks
at the host until its inventory or the release's feed changes (`matching_overlap`,
`SettledIsRight`). `mark_host_matched` (`:198`) does the same for one host. The
ordinary case is harmless: the notification makes the main loop match again.

The others were met while modelling. The models contain each of these races
(where not, it is said), no property forbids it, and the passing runs show what
holds in spite of it. All need two requests within the same few milliseconds.

1. `store/ingest.rs:46-47`: a revocation "racing the request cannot slip
   through". The validity is read under the token's lock (`:188`), which the
   revocation does not take: it fits between the check and the commit, and the
   identity is issued.
2. `docs/components/rule-set-assignment.md:50-56`: ended matches of a switched-off
   set come back with the next scan, and the unchanged digest is "harmless". A
   `not_assigned` heartbeat that the agent gave up and that runs after the set is on
   again ends the match with the digests equal, so that no resync is asked for
   (`store/finding_changes.rs:376`; `Converges` is checked without late heartbeats).
3. `store/finding_changes.rs:339-340`: "a match never gets the note twice". The
   note's time is read before the row lock (`:395` compares it with one recorded
   under it), so a heartbeat that waited and whose report was not stored is
   followed by a second note. Notes are not in the models.
4. `store/alarms.rs:277-279`: a false positive or accepted risk "stays closed".
   The batch reopens by the state it looked up without a lock (`:281`), over a
   decision made meanwhile.
5. `store/host_group_writes.rs:360-361`: deleting a group ends its suppressions. A
   request that checked the group before and inserts after
   (`store/alarm_suppression_writes.rs:75`) leaves one of a group that is gone, and
   so does one that inserts behind the deletion's statement for the state of its row.
   It matches no host. `EndsWithGroup` excepts these rows.
6. `store/console_settings.rs:110-112`: switching single sign-on off ends its
   sessions. A sign-in that read the setting before the switch creates a session
   after it.
7. `store/console_auth.rs:1095-1096`: "The auth generation check prevents replacing a
   password changed concurrently". The generation (`:1111`) is one that a change of
   one's own password does not advance: the rehash of a sign-in under way puts the old
   password back.
8. `docs/components/openvibes-admin.md:455`: `rules retire` "refuses further
   publishing" (likewise `store/rules.rs:436`). `publish_inner` reads `retired_at` without a
   lock (`:296`), so one may be stored after `rules retire` returned; it is not
   served.
9. `crates/openvibes-signer/src/state.rs:128-129`: "a version is never signed twice". Setup
   seeds a lost or unreadable version file with version 1
   (`crates/openvibes-admin/src/setup/console.rs:99`), whatever was signed before, so
   versions are signed again; `publish_inner` refuses them until they are above the
   stored ones. `SignedOnce` speaks of one seeding to the next.
10. `store/console_auth.rs:602-603`: the access-binding lock "serialises every change
   to roles and bindings, so the last-Administrator guards and role writes see a stable
   picture", and `docs/superpowers/plans/2026-10-16-roles-1-roles-and-people.md:106`
   says of losing the last Administrator that "it must be impossible through any
   route". A single sign-on whose groups no longer name Administrator
   (`store/console_sso.rs:237`) and the cleanup (`:430`) revoke the role without the lock
   or the guard: of the last Administrator, or of the one that a request under way has
   just counted on. `AdministratorRemains` says that nothing else does.
11. `store/console_sso.rs:352-353`: someone who cannot be deleted "loses their `sso`
   roles". The cleanup takes every role, "however it was given"
   (`:428`), and does not look again whether they are still idle after a deletion failed.

Not disagreements, but worth knowing: the main loop and the retry task may both check a
release's feed (`crates/openvibes-vulns/src/service.rs:404-421`), and when one downloads
before a new feed appears and imports after the other has, the older advisories stand
under the newer feed's digest until the next feed (`Regressed`); a flush of device counters that commits
without an answer is added again (`store/devices.rs:188`); of two publishers the one
that read the drafts first may get the higher version
(`crates/openvibes-console/src/rules/draft_publish.rs:253`).

## 6. Plan

All safety invariants and all action properties that the runs check are proved. Left are
the relations between modules that are informal so far: that `Suppressions` closes
alarms as `CloseSource` of `Alarms` does, and that `Netlog`'s rows follow the rules
of `Alarms` for counts.

Of the code, next in line would be the inventory protocol P11 with its imports (the
pattern of `FindingChanges` in a table of its own), the sign-in throttle and the
finding triage with its bulk change.

## 7. Not modelled

The repository has some 139,000 lines, most of them pages, parsers, conversions and
tests of them; the models cover the transactions on which concurrent actors meet.

- Inventory and service deltas (P11): base and result digests under one row lock, as
  in `FindingChanges`; `Matching` has the storing as one action. Imports: the check
  and the replacement are two transactions (`store/imports.rs:90`), which is right
  only because one operator runs one import at a time.
- Finding triage and its bulk change: one transaction that locks all hosts' rows and
  changes all or none; the version check is that of `Alarms`.
- The sign-in throttle and lockout, creation and deletion of accounts, service
  accounts, roles other than the Administrator's: `SignIn` leaves them out.
- The OSV, NVD and KEV/EPSS loops of `openvibes-vulns`: like the Fedora feed, without
  the release match; version comparison is a pure function.
- `platform-agent-server`'s connection limits, stall detection and drain; setup,
  migration and backup of `openvibes-admin`: they talk to tokio, systemd and files.
- Read-only lists and pages, parsing and cryptography (PKI, SAML, password
  hashing, image conversion), the language-model assistant, outbound fetches,
  packaging and the web interface: they keep no state that two actors share, or
  their correctness is not about steps.

`PROJECT.json` lists each part with its reason, and the hazards that no property
covers with why.
