-------------------------- MODULE FindingChanges --------------------------
(***************************************************************************)
(* Finding changes (protocol P13) of one host: POST /v1/findings/changes   *)
(* and the part of POST /v1/heartbeat that concerns matches, with the rule *)
(* sets the host reports as not assigned (P20).                            *)
(*                                                                         *)
(* Every transaction takes the agent's row lock first, so it is one step.  *)
(* A heartbeat is three of them.  The agent is not part of this            *)
(* repository: it is modelled from the documents and answers the platform  *)
(* exchanges with it.  It sends one request at a time; a request it gave   *)
(* up may still be running on the platform, or be read from the network    *)
(* later.  The digest of a match set stands for the set (SHA-256 taken as  *)
(* free of collisions).                                                    *)
(***************************************************************************)
EXTENDS Naturals

CONSTANTS
  Keys,        \* (rule set, rule)
  Assignable,  \* the keys of the rule set in rule_set_assignment
  Contents,    \* what a match says: version, severity, message, evidence
  Slots,       \* requests that can exist at a time
  MaxScans,    \* bound on the agent's scans
  MaxFaults,   \* bound on failed and given up requests
  LateHeartbeats,  \* may a heartbeat that was given up still run?
  None

ASSUME KeysAssumption == Assignable \subseteq Keys

ASSUME ContentsAssumption == None \notin Contents

ASSUME BoundsAssumption ==
  MaxScans \in Nat /\ MaxFaults \in Nat /\ LateHeartbeats \in BOOLEAN

VARIABLES
  matches,  \* agent: what its last scan found
  base,     \* agent: the match set the platform last acknowledged
  touched,  \* agent: keys that started, changed or ended since base
  replace,  \* agent: the next document is a replace
  off,      \* agent: the assignable set was answered 410 in the last scan
  req,      \* the requests
  row,      \* table current_findings
  digest,   \* agents.match_sha256
  health,   \* agents.health: does it list the set as not_assigned?
  scanned,  \* history: every match set a scan found
  scans, faults

agentVars == <<matches, base, touched, replace, off, scanned, scans>>
storeVars == <<row, digest, health>>
vars == <<agentVars, req, storeVars, faults>>

MatchSet == [Keys -> Contents \cup {None}]

Empty == [k \in Keys |-> None]

(* A row from per-scan delivery has source "scan", a P13 row "changes". *)
Row == [source : {"none", "scan", "changes"}, ended : BOOLEAN,
        content : Contents \cup {None}]

NoRow == [source |-> "none", ended |-> FALSE, content |-> None]

(* A change set carries base, next (its sha256) and the entries the        *)
(* operators below list; a heartbeat carries its digest in next.           *)
Request ==
  [pc : {"idle", "apply", "end", "report", "check", "answered"},
   live : BOOLEAN, document : BOOLEAN, base : MatchSet, next : MatchSet,
   touched : SUBSET Keys, replace : BOOLEAN, off : BOOLEAN,
   answer : {"none", "stored", "resync", "failed"}]

IdleRequest ==
  [pc |-> "idle", live |-> FALSE, document |-> FALSE, base |-> Empty,
   next |-> Empty, touched |-> {}, replace |-> FALSE, off |-> FALSE,
   answer |-> "none"]

TypeOK ==
  /\ matches \in MatchSet
  /\ base \in MatchSet
  /\ touched \in SUBSET Keys
  /\ replace \in BOOLEAN
  /\ off \in BOOLEAN
  /\ req \in [Slots -> Request]
  /\ row \in [Keys -> Row]
  /\ \A k \in Keys :
       row[k].source # "none" /\ ~ row[k].ended => row[k].content # None
  /\ digest \in MatchSet
  /\ health \in BOOLEAN
  /\ scanned \in SUBSET MatchSet
  /\ scans \in 0 .. MaxScans
  /\ faults \in 0 .. MaxFaults

(* An agent that just enrolled, or one that upgrades to P13: rows of its   *)
(* per-scan delivery may exist.                                            *)
Init ==
  /\ matches = Empty
  /\ base = Empty
  /\ touched = {}
  /\ replace \in BOOLEAN
  /\ off = FALSE
  /\ req = [s \in Slots |-> IdleRequest]
  /\ row \in [Keys -> {NoRow} \cup
                [source : {"scan"}, ended : {FALSE}, content : Contents]]
  /\ digest = Empty
  /\ health = FALSE
  /\ scanned = {Empty}
  /\ scans = 0
  /\ faults = 0

---------------------------------------------------------------------------
(* A document's entries *)

Started(r) ==
  {k \in Keys : r.next[k] # None /\ (r.replace \/ r.base[k] = None)}

Changed(r) ==
  {k \in r.touched : ~ r.replace /\ r.base[k] # None /\ r.next[k] # None}

Ended(r) ==
  {k \in Keys : ~ r.replace /\ r.base[k] # None /\ r.next[k] = None}

(* A match that started and ended between two documents; the same key may  *)
(* have started again since.                                               *)
Transient(r) == {k \in r.touched : r.base[k] = None}

---------------------------------------------------------------------------
(* The agent (external) *)

NoLiveRequest == \A s \in Slots : ~ req[s].live

(* A scan; a set answered 410 does not run, so its matches are gone. *)
Scan(m, unassigned) ==
  /\ scans < MaxScans
  /\ NoLiveRequest
  /\ unassigned => \A k \in Assignable : m[k] = None
  /\ matches' = m
  /\ touched' = touched \cup {k \in Keys : m[k] # matches[k]}
  /\ off' = unassigned
  /\ scanned' = scanned \cup {m}
  /\ scans' = scans + 1
  /\ UNCHANGED <<base, replace, req, storeVars, faults>>

SendChanges(s) ==
  /\ NoLiveRequest
  /\ req[s].pc = "idle"
  /\ touched # {} \/ replace
  /\ req' = [req EXCEPT ![s] =
       [pc |-> "apply", live |-> TRUE, document |-> TRUE, base |-> base,
        next |-> matches, touched |-> touched, replace |-> replace,
        off |-> off, answer |-> "none"]]
  /\ UNCHANGED <<agentVars, storeVars, faults>>

SendHeartbeat(s) ==
  /\ NoLiveRequest
  /\ req[s].pc = "idle"
  /\ req' = [req EXCEPT ![s] =
       [pc |-> IF off THEN "end" ELSE "report", live |-> TRUE,
        document |-> FALSE, base |-> Empty, next |-> base,
        touched |-> {}, replace |-> FALSE, off |-> off,
        answer |-> "none"]]
  /\ UNCHANGED <<agentVars, storeVars, faults>>

(* 204 to a change set moves the base, 409 asks for a replace, 503 changes *)
(* nothing: the agent will send it again.                                  *)
Receive(s) ==
  LET r == req[s] IN
  /\ r.live
  /\ r.pc = "answered"
  /\ IF r.answer = "stored" /\ r.document
     THEN base' = r.next /\ touched' = {} /\ replace' = FALSE
     ELSE /\ replace' = (replace \/ r.answer = "resync")
          /\ UNCHANGED <<base, touched>>
  /\ req' = [req EXCEPT ![s] = IdleRequest]
  /\ UNCHANGED <<matches, off, scanned, scans, storeVars, faults>>

(* The agent times out.  The request goes on, unless it was answered (the  *)
(* answer is lost) or it is a heartbeat and those are not late.            *)
GiveUp(s) ==
  /\ req[s].live
  /\ faults < MaxFaults
  /\ faults' = faults + 1
  /\ req' = [req EXCEPT ![s] =
       IF req[s].pc = "answered" \/ ~ (req[s].document \/ LateHeartbeats)
       THEN IdleRequest
       ELSE [@ EXCEPT !.live = FALSE]]
  /\ UNCHANGED <<agentVars, storeVars>>

---------------------------------------------------------------------------
(* The platform *)

(* The answer goes out, or nobody is waiting for it any more. *)
Respond(s, answer) ==
  req' = [req EXCEPT ![s] =
    IF req[s].live THEN [@ EXCEPT !.pc = "answered", !.answer = answer]
    ELSE IdleRequest]

Goto(s, pc) == req' = [req EXCEPT ![s] = [@ EXCEPT !.pc = pc]]

IsOpen(k) == row[k].source = "changes" /\ ~ row[k].ended

(* The agent's open P13 matches. *)
OpenMatches == [k \in Keys |-> IF IsOpen(k) THEN row[k].content ELSE None]

(* The match set that results from the document. *)
Result(r) ==
  [k \in Keys |-> IF k \in Started(r) \cup Changed(r) THEN r.next[k]
                  ELSE IF r.replace \/ k \in Ended(r) THEN None
                  ELSE OpenMatches[k]]

(* Faulty variant: the base is compared, the result is not. *)
AcceptsUnverified(r) == r.replace \/ digest = r.base

Accepts(r) ==
  /\ \/ r.replace
     \/ /\ digest = r.base
        /\ \A k \in Started(r) : ~ IsOpen(k)
        /\ \A k \in Changed(r) \cup Ended(r) : IsOpen(k)
  /\ Result(r) = r.next

(* What a replace ends: the open P13 rows it omits.  Rows of per-scan      *)
(* delivery stay as they are.                                              *)
Ends(r) ==
  IF r.replace THEN {k \in Keys : IsOpen(k) /\ k \notin Started(r)}
  ELSE Ended(r)

(* Faulty variant: a transient match's end is stored whatever is open. *)
MarkedTransientLast(r) ==
  [k \in Keys |->
     IF k \in Transient(r)
     THEN [source |-> "changes", ended |-> TRUE, content |-> None]
     ELSE IF k \in Started(r) \cup Changed(r)
     THEN [source |-> "changes", ended |-> FALSE, content |-> r.next[k]]
     ELSE IF k \in Ends(r) THEN [row[k] EXCEPT !.ended = TRUE]
     ELSE row[k]]

(* Faulty variant: an entry of "ended" is marked like one of "changed". *)
MarkedEndedOpen(r) ==
  [k \in Keys |->
     IF k \in Started(r) \cup Changed(r) \cup Ended(r)
     THEN [source |-> "changes", ended |-> FALSE, content |-> r.next[k]]
     ELSE IF k \in Ends(r) THEN [row[k] EXCEPT !.ended = TRUE]
     ELSE row[k]]

(* store_findings_in, mark and the UPDATE of the ends.  The content of a   *)
(* match that has ended is not told apart.                                 *)
Marked(r) ==
  [k \in Keys |->
     IF k \in Started(r) \cup Changed(r)
     THEN [source |-> "changes", ended |-> FALSE, content |-> r.next[k]]
     ELSE IF k \in Transient(r)
     THEN [source |-> "changes", ended |-> TRUE, content |-> None]
     ELSE IF k \in Ends(r)
     THEN [row[k] EXCEPT !.ended = TRUE]
     ELSE row[k]]

(* POST /v1/findings/changes: one transaction. *)
Apply(s) ==
  LET r == req[s] IN
  /\ r.pc = "apply"
  /\ IF Accepts(r)
     THEN /\ row' = Marked(r)
          /\ digest' = r.next
          /\ Respond(s, "stored")
     ELSE /\ UNCHANGED <<row, digest>>
          /\ Respond(s, "resync")
  /\ UNCHANGED <<agentVars, health, faults>>

(* finding_changes::end_unassigned: acts on the transition only, and does  *)
(* not touch the digest.                                                   *)
EndUnassigned(s) ==
  /\ req[s].pc = "end"
  /\ row' = [k \in Keys |->
       IF k \in Assignable /\ ~ health /\ row[k].source # "none"
       THEN [row[k] EXCEPT !.ended = TRUE]
       ELSE row[k]]
  /\ Goto(s, "report")
  /\ UNCHANGED <<agentVars, digest, health, faults>>

(* ingest::heartbeat: a report whose rule sets changed is written at once. *)
StoreReport(s) ==
  /\ req[s].pc = "report"
  /\ health' = req[s].off
  /\ Goto(s, "check")
  /\ UNCHANGED <<agentVars, row, digest, faults>>

(* Faulty variant: every digest counts as the stored one. *)
CheckNothing(s) ==
  /\ req[s].pc = "check"
  /\ Respond(s, "stored")
  /\ UNCHANGED <<agentVars, storeVars, faults>>

(* finding_changes::heartbeat. *)
CheckDigest(s) ==
  /\ req[s].pc = "check"
  /\ Respond(s, IF digest = req[s].next THEN "stored" ELSE "resync")
  /\ UNCHANGED <<agentVars, storeVars, faults>>

(* A database error: the step's transaction rolls back, the earlier ones   *)
(* of a heartbeat stay.                                                    *)
Fail(s) ==
  /\ req[s].pc \in {"apply", "end", "report", "check"}
  /\ faults < MaxFaults
  /\ faults' = faults + 1
  /\ Respond(s, "failed")
  /\ UNCHANGED <<agentVars, storeVars>>

Step(s) == Apply(s) \/ EndUnassigned(s) \/ StoreReport(s) \/ CheckDigest(s)

Next ==
  \/ \E m \in MatchSet, unassigned \in BOOLEAN : Scan(m, unassigned)
  \/ \E s \in Slots :
       \/ SendChanges(s)
       \/ SendHeartbeat(s)
       \/ Receive(s)
       \/ GiveUp(s)
       \/ Step(s)
       \/ Fail(s)

Spec == Init /\ [][Next]_vars

(* The platform runs every request it holds; the agent reads its answers,  *)
(* delivers what is pending and sends a heartbeat every interval.          *)
Fairness ==
  /\ \A s \in Slots : WF_vars(Step(s)) /\ WF_vars(Receive(s))
  /\ WF_vars(\E s \in Slots : SendHeartbeat(s))
  /\ SF_vars(\E s \in Slots : SendChanges(s))

FairSpec == Spec /\ Fairness

---------------------------------------------------------------------------
(* Properties *)

(* The digest the platform keeps is the digest of the open P13 rows, but   *)
(* for matches of an assignable set it ended itself: only then may a       *)
(* heartbeat be told "in sync" while rows and agent differ.                *)
DigestOfRows ==
  \A k \in Keys :
    \/ OpenMatches[k] = digest[k]
    \/ k \in Assignable /\ OpenMatches[k] = None

(* The abstract promise: every step shows a whole scan or withdraws the    *)
(* assignable set.                                                         *)
Mirror == INSTANCE MatchMirror WITH shown <- OpenMatches

MirrorSpec == Mirror!Spec

(* Once scans stop and requests get through, the platform's open matches   *)
(* are the agent's, whatever was lost or repeated before and whatever      *)
(* change set was applied late.  (A heartbeat that runs late can break it: *)
(* LateHeartbeats, with which it is not checked.)                          *)
Converges == <>[](OpenMatches = matches)
=============================================================================
