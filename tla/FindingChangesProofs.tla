----------------------- MODULE FindingChangesProofs -----------------------
(***************************************************************************)
(* Proofs about FindingChanges, for every set of keys, contents and        *)
(* requests, and every bound.                                              *)
(***************************************************************************)
EXTENDS FindingChanges, TLAPS

(* Every document in flight names a match set that a scan found; with the  *)
(* verification of the result this is what makes the platform show whole   *)
(* scans only.                                                             *)
DocumentsFromScans ==
  /\ matches \in scanned
  /\ \A s \in Slots : req[s].pc = "apply" => req[s].next \in scanned

MirrorInv == TypeOK /\ DocumentsFromScans /\ DigestOfRows

---------------------------------------------------------------------------
(* Updates of a request keep its type. *)

LEMMA EmptyType == Empty \in MatchSet
BY DEF Empty, MatchSet

LEMMA IdleType == IdleRequest \in Request
BY EmptyType, Zenon DEF IdleRequest, Request

(* The fields of a request of the right type. *)
LEMMA RequestFields ==
  ASSUME NEW r \in Request
  PROVE  /\ r.base \in MatchSet
         /\ r.next \in MatchSet
         /\ r.touched \subseteq Keys
         /\ r.replace \in BOOLEAN
         /\ r.off \in BOOLEAN
         /\ r.live \in BOOLEAN
         /\ r.document \in BOOLEAN
BY DEF Request

(* Goto changes one request's pc, and only to a pc other than "apply". *)
LEMMA GotoChanges ==
  ASSUME TypeOK, NEW s \in Slots, NEW pc \in {"report", "check"}, Goto(s, pc)
  PROVE  /\ req' \in [Slots -> Request]
         /\ \A t \in Slots : req'[t].pc = "apply" =>
              req[t].pc = "apply" /\ req'[t].next = req[t].next
<1>1. req \in [Slots -> Request] /\ req[s] \in Request
  BY DEF TypeOK
<1>2. [req[s] EXCEPT !.pc = pc] \in Request
  BY <1>1, Zenon DEF Request
<1>3. req' = [req EXCEPT ![s] = [req[s] EXCEPT !.pc = pc]]
  BY DEF Goto
<1>4. req' \in [Slots -> Request]
  BY <1>1, <1>2, <1>3
<1>5. req'[s] = [req[s] EXCEPT !.pc = pc]
  BY <1>1, <1>3
<1>6. req'[s].pc = pc
  BY <1>1, <1>5 DEF Request
<1>7. \A t \in Slots \ {s} : req'[t] = req[t]
  BY <1>1, <1>3
<1> QED
  BY <1>4, <1>6, <1>7

(* Respond ends one request's run. *)
LEMMA RespondChanges ==
  ASSUME TypeOK, NEW s \in Slots,
         NEW answer \in {"stored", "resync", "failed"}, Respond(s, answer)
  PROVE  /\ req' \in [Slots -> Request]
         /\ \A t \in Slots : req'[t].pc = "apply" =>
              req[t].pc = "apply" /\ req'[t].next = req[t].next
<1> DEFINE answered == [req[s] EXCEPT !.pc = "answered", !.answer = answer]
           new == IF req[s].live THEN answered ELSE IdleRequest
<1>1. req \in [Slots -> Request] /\ req[s] \in Request
  BY DEF TypeOK
<1>2. answered \in Request
  BY <1>1, Zenon DEF Request
<1>3. answered.pc = "answered"
  BY <1>1 DEF Request
<1>4. IdleRequest.pc = "idle"
  BY DEF IdleRequest
<1>5. req' = [req EXCEPT ![s] = new]
  BY DEF Respond
<1>6. new \in Request /\ new.pc # "apply"
  BY <1>2, <1>3, <1>4, IdleType
<1> HIDE DEF answered, new
<1>7. req' \in [Slots -> Request]
  BY <1>1, <1>5, <1>6
<1>8. req'[s] = new /\ \A t \in Slots \ {s} : req'[t] = req[t]
  BY <1>1, <1>5
<1> QED
  BY <1>6, <1>7, <1>8

---------------------------------------------------------------------------
(* What a document does to the rows *)

(* Rows keep their type, and an open row its content. *)
LEMMA MarkedType ==
  ASSUME TypeOK, NEW r \in Request
  PROVE  /\ Marked(r) \in [Keys -> Row]
         /\ \A k \in Keys :
              Marked(r)[k].source # "none" /\ ~ Marked(r)[k].ended
                => Marked(r)[k].content # None
<1>1. row \in [Keys -> Row]
  BY DEF TypeOK
<1> SUFFICES ASSUME NEW k \in Keys
             PROVE  /\ Marked(r)[k] \in Row
                    /\ Marked(r)[k].source # "none" /\ ~ Marked(r)[k].ended
                         => Marked(r)[k].content # None
  BY DEF Marked
<1>2. row[k] \in Row
  BY <1>1
<1>3. CASE k \in Started(r) \cup Changed(r)
  <2>1. Marked(r)[k] =
          [source |-> "changes", ended |-> FALSE, content |-> r.next[k]]
    BY <1>3 DEF Marked
  <2>2. r.next[k] # None
    BY <1>3 DEF Started, Changed
  <2>3. r.next[k] \in Contents \cup {None}
    BY RequestFields DEF MatchSet
  <2> QED
    BY <2>1, <2>2, <2>3 DEF Row
<1>4. CASE k \notin Started(r) \cup Changed(r) /\ k \in Transient(r)
  BY <1>4 DEF Marked, Row
<1>5. CASE k \notin Started(r) \cup Changed(r) \cup Transient(r) /\ k \in Ends(r)
  <2>1. Marked(r)[k] = [row[k] EXCEPT !.ended = TRUE]
    BY <1>5 DEF Marked
  <2> QED
    BY <1>2, <2>1 DEF Row
<1>6. CASE k \notin Started(r) \cup Changed(r) \cup Transient(r) \cup Ends(r)
  <2>1. Marked(r)[k] = row[k]
    BY <1>6 DEF Marked
  <2> QED
    BY <1>2, <2>1 DEF TypeOK
<1> QED
  BY <1>3, <1>4, <1>5, <1>6

(* An accepted document leaves exactly its match set open. *)
LEMMA MarkedIsNext ==
  ASSUME TypeOK, NEW r \in Request, Accepts(r), row' = Marked(r)
  PROVE  OpenMatches' = r.next
<1>1. r.next \in MatchSet /\ r.touched \subseteq Keys
  BY RequestFields
<1>2. row \in [Keys -> Row]
  BY DEF TypeOK
<1>3. Result(r) = r.next
  BY DEF Accepts
<1>4. ASSUME NEW k \in Keys
      PROVE  OpenMatches'[k] = r.next[k]
  <2>0. /\ OpenMatches'[k] = (IF Marked(r)[k].source = "changes" /\ ~ Marked(r)[k].ended
                              THEN Marked(r)[k].content ELSE None)
        /\ row[k] \in Row
    BY <1>2 DEF OpenMatches, IsOpen
  <2>1. CASE k \in Started(r) \cup Changed(r)
    BY <2>0, <2>1 DEF Marked
  <2>2. CASE k \notin Started(r) \cup Changed(r) /\ k \in Transient(r)
    <3>1. Marked(r)[k].ended
      BY <2>2 DEF Marked
    <3>2. r.next[k] = None
      BY <2>2 DEF Transient, Started
    <3> QED
      BY <2>0, <3>1, <3>2
  <2>3. CASE k \notin Started(r) \cup Changed(r) \cup Transient(r) /\ k \in Ends(r)
    <3>1. Marked(r)[k].ended
      BY <2>0, <2>3 DEF Marked, Row
    <3>2. r.next[k] = None
      BY <2>3 DEF Ends, Ended, Started
    <3> QED
      BY <2>0, <3>1, <3>2
  <2>4. CASE k \notin Started(r) \cup Changed(r) \cup Transient(r) \cup Ends(r)
    <3>1. Marked(r)[k] = row[k]
      BY <2>4 DEF Marked
    <3>2. OpenMatches'[k] = OpenMatches[k]
      BY <2>0, <3>1 DEF OpenMatches, IsOpen
    <3>3. Result(r)[k] = OpenMatches[k]
      <4>1. CASE r.replace
        <5>1. Result(r)[k] = None
          BY <2>4, <4>1 DEF Result
        <5>2. ~ IsOpen(k)
          BY <2>4, <4>1 DEF Ends
        <5> QED
          BY <5>1, <5>2 DEF OpenMatches
      <4>2. CASE ~ r.replace
        BY <2>4, <4>2 DEF Result, Ends
      <4> QED
        BY <4>1, <4>2
    <3> QED
      BY <1>3, <3>2, <3>3
  <2> QED
    BY <2>1, <2>2, <2>3, <2>4
<1>5. OpenMatches' = [k \in Keys |-> OpenMatches'[k]]
  BY DEF OpenMatches
<1> QED
  BY <1>1, <1>4, <1>5 DEF MatchSet

(* Ending the matches of the assignable set withdraws them and no others. *)
LEMMA EndUnassignedRows ==
  ASSUME TypeOK, NEW s \in Slots, EndUnassigned(s)
  PROVE  /\ row' \in [Keys -> Row]
         /\ \A k \in Keys :
              row'[k].source # "none" /\ ~ row'[k].ended
                => row'[k].content # None
         /\ OpenMatches' = IF health THEN OpenMatches
                           ELSE Mirror!Withdrawn(OpenMatches)
<1>1. row \in [Keys -> Row]
  BY DEF TypeOK
<1>2. ASSUME NEW k \in Keys
      PROVE  /\ row'[k] \in Row
             /\ k \notin Assignable \/ health => row'[k] = row[k]
             /\ k \in Assignable /\ ~ health =>
                  row'[k].source = "none" \/ row'[k].ended
             /\ row'[k].source # "none" /\ ~ row'[k].ended
                  => row'[k].content # None
  <2>1. row[k] \in Row
    BY <1>1
  <2>2. CASE k \in Assignable /\ ~ health /\ row[k].source # "none"
    <3>1. row'[k] = [row[k] EXCEPT !.ended = TRUE]
      BY <2>2 DEF EndUnassigned
    <3> QED
      BY <2>1, <2>2, <3>1 DEF Row
  <2>3. CASE ~ (k \in Assignable /\ ~ health /\ row[k].source # "none")
    <3>1. row'[k] = row[k]
      BY <2>3 DEF EndUnassigned
    <3> QED
      BY <2>1, <2>3, <3>1 DEF TypeOK
  <2> QED
    BY <2>2, <2>3
<1>3. row' \in [Keys -> Row]
  BY <1>2 DEF EndUnassigned
<1>4. \A k \in Keys : OpenMatches'[k] =
        IF health \/ k \notin Assignable THEN OpenMatches[k] ELSE None
  BY <1>2 DEF OpenMatches, IsOpen
<1>5. /\ OpenMatches' = [k \in Keys |-> OpenMatches'[k]]
      /\ OpenMatches = [k \in Keys |-> OpenMatches[k]]
  BY DEF OpenMatches
<1>6. OpenMatches' = IF health THEN OpenMatches
                     ELSE Mirror!Withdrawn(OpenMatches)
  <2>1. CASE health
    BY <1>4, <1>5, <2>1
  <2>2. CASE ~ health
    BY <1>4, <1>5, <2>2 DEF Mirror!Withdrawn
  <2> QED
    BY <2>1, <2>2
<1> QED
  BY <1>2, <1>3, <1>6

---------------------------------------------------------------------------
(* The inductive invariant *)

(* Initial rows come from per-scan delivery. *)
LEMMA InitialRows ==
  ASSUME Init
  PROVE  /\ row \in [Keys -> Row]
         /\ \A k \in Keys :
              /\ row[k].source \in {"none", "scan"}
              /\ row[k].source # "none" => row[k].content # None
<1> DEFINE first == {NoRow} \cup
              [source : {"scan"}, ended : {FALSE}, content : Contents]
<1>1. \A x \in first :
        /\ x \in Row
        /\ x.source \in {"none", "scan"}
        /\ x.source # "none" => x.content # None
  <2>1. ASSUME NEW x \in [source : {"scan"}, ended : {FALSE}, content : Contents]
        PROVE  x \in Row /\ x.source = "scan" /\ x.content # None
    <3>1. PICK c \in Contents :
            x = [source |-> "scan", ended |-> FALSE, content |-> c]
      OBVIOUS
    <3> QED
      BY <3>1, ContentsAssumption DEF Row
  <2>2. NoRow \in Row /\ NoRow.source = "none"
    BY DEF NoRow, Row
  <2> QED
    BY <2>1, <2>2
<1>2. row \in [Keys -> first]
  BY DEF Init
<1> HIDE DEF first
<1> QED
  BY <1>1, <1>2

LEMMA MirrorInit ==
  ASSUME Init
  PROVE  MirrorInv
<1>1. /\ row \in [Keys -> Row]
      /\ \A k \in Keys :
           /\ row[k].source \in {"none", "scan"}
           /\ row[k].source # "none" => row[k].content # None
  BY InitialRows
<1>5. req \in [Slots -> Request]
  BY IdleType DEF Init
<1>6. TypeOK
  <2>1. /\ matches \in MatchSet /\ base \in MatchSet /\ digest \in MatchSet
        /\ touched \in SUBSET Keys
        /\ replace \in BOOLEAN /\ off \in BOOLEAN /\ health \in BOOLEAN
        /\ scanned \in SUBSET MatchSet
    BY EmptyType DEF Init
  <2>2. scans \in 0 .. MaxScans /\ faults \in 0 .. MaxFaults
    BY BoundsAssumption DEF Init
  <2> QED
    BY <1>1, <1>5, <2>1, <2>2 DEF TypeOK
<1>7. DocumentsFromScans
  BY DEF Init, DocumentsFromScans, IdleRequest
<1>8. DigestOfRows
  BY <1>1 DEF Init, DigestOfRows, OpenMatches, IsOpen, Empty
<1> QED
  BY <1>6, <1>7, <1>8 DEF MirrorInv

(* A step that leaves the rows and the digest alone keeps DigestOfRows. *)
LEMMA DigestFrame ==
  ASSUME DigestOfRows, UNCHANGED <<row, digest>>
  PROVE  DigestOfRows'
BY DEF DigestOfRows, OpenMatches, IsOpen

(* A step that only handles requests, adding no document. *)
LEMMA DocumentsFrame ==
  ASSUME DocumentsFromScans, UNCHANGED <<matches, scanned>>,
         \A t \in Slots : req'[t].pc = "apply" =>
            req[t].pc = "apply" /\ req'[t].next = req[t].next
  PROVE  DocumentsFromScans'
BY DEF DocumentsFromScans

LEMMA MirrorStep ==
  ASSUME MirrorInv, [Next]_vars
  PROVE  MirrorInv'
<1> USE DEF MirrorInv
<1>1. ASSUME NEW m \in MatchSet, NEW unassigned \in BOOLEAN,
             Scan(m, unassigned)
      PROVE  MirrorInv'
  <2>1. TypeOK'
    <3>1. /\ scans' \in 0 .. MaxScans
          /\ touched' \in SUBSET Keys
          /\ scanned' \in SUBSET MatchSet
      BY <1>1, BoundsAssumption DEF TypeOK, Scan
    <3> QED
      BY <1>1, <3>1 DEF TypeOK, Scan, storeVars
  <2>2. DocumentsFromScans'
    BY <1>1 DEF DocumentsFromScans, Scan
  <2>3. DigestOfRows'
    BY <1>1, DigestFrame DEF Scan, storeVars
  <2> QED
    BY <2>1, <2>2, <2>3
<1>2. ASSUME NEW s \in Slots, SendChanges(s)
      PROVE  MirrorInv'
  <2> DEFINE new == [pc |-> "apply", live |-> TRUE, document |-> TRUE,
                     base |-> base, next |-> matches, touched |-> touched,
                     replace |-> replace, off |-> off, answer |-> "none"]
  <2>1. new \in Request /\ new.next = matches
    BY DEF TypeOK, Request
  <2>2. req' = [req EXCEPT ![s] = new] /\ req \in [Slots -> Request]
    BY <1>2 DEF SendChanges, TypeOK
  <2>3. UNCHANGED <<agentVars, storeVars, faults>>
    BY <1>2 DEF SendChanges
  <2> HIDE DEF new
  <2>4. TypeOK'
    BY <2>1, <2>2, <2>3 DEF TypeOK, agentVars, storeVars
  <2>5. DocumentsFromScans'
    BY <2>1, <2>2, <2>3 DEF DocumentsFromScans, agentVars
  <2>6. DigestOfRows'
    BY <2>3, DigestFrame DEF storeVars
  <2> QED
    BY <2>4, <2>5, <2>6
<1>3. ASSUME NEW s \in Slots, SendHeartbeat(s)
      PROVE  MirrorInv'
  <2> DEFINE new == [pc |-> IF off THEN "end" ELSE "report", live |-> TRUE,
                     document |-> FALSE, base |-> Empty, next |-> base,
                     touched |-> {}, replace |-> FALSE, off |-> off,
                     answer |-> "none"]
  <2>1. new \in Request /\ new.pc # "apply"
    BY EmptyType DEF TypeOK, Request
  <2>2. req' = [req EXCEPT ![s] = new] /\ req \in [Slots -> Request]
    BY <1>3 DEF SendHeartbeat, TypeOK
  <2>3. UNCHANGED <<agentVars, storeVars, faults>>
    BY <1>3 DEF SendHeartbeat
  <2> HIDE DEF new
  <2>4. TypeOK'
    BY <2>1, <2>2, <2>3 DEF TypeOK, agentVars, storeVars
  <2>5. DocumentsFromScans'
    BY <2>1, <2>2, <2>3 DEF DocumentsFromScans, agentVars
  <2>6. DigestOfRows'
    BY <2>3, DigestFrame DEF storeVars
  <2> QED
    BY <2>4, <2>5, <2>6
<1>4. ASSUME NEW s \in Slots, Receive(s)
      PROVE  MirrorInv'
  <2>1. req[s] \in Request /\ req \in [Slots -> Request]
    BY DEF TypeOK
  <2>2. /\ base' \in MatchSet
        /\ touched' \in SUBSET Keys
        /\ replace' \in BOOLEAN
    BY <1>4, <2>1, RequestFields DEF Receive, TypeOK
  <2>3. req' = [req EXCEPT ![s] = IdleRequest]
    BY <1>4 DEF Receive
  <2>4. req' \in [Slots -> Request]
    BY <2>1, <2>3, IdleType
  <2>5. UNCHANGED <<matches, off, scanned, scans, storeVars, faults>>
    BY <1>4 DEF Receive
  <2>6. TypeOK'
    BY <2>2, <2>4, <2>5 DEF TypeOK, storeVars
  <2>7. DocumentsFromScans'
    BY <2>1, <2>3, <2>5 DEF DocumentsFromScans, IdleRequest
  <2>8. DigestOfRows'
    BY <2>5, DigestFrame DEF storeVars
  <2> QED
    BY <2>6, <2>7, <2>8
<1>5. ASSUME NEW s \in Slots, GiveUp(s)
      PROVE  MirrorInv'
  <2>1. req[s] \in Request /\ req \in [Slots -> Request]
    BY DEF TypeOK
  <2> DEFINE late == [req[s] EXCEPT !.live = FALSE]
             new == IF req[s].pc = "answered"
                         \/ ~ (req[s].document \/ LateHeartbeats)
                    THEN IdleRequest ELSE late
  <2>2. late \in Request
    BY <2>1, Zenon DEF Request
  <2>3. late.pc = req[s].pc /\ late.next = req[s].next
    BY <2>1 DEF Request
  <2>4. IdleRequest.pc = "idle"
    BY DEF IdleRequest
  <2>5. /\ req' = [req EXCEPT ![s] = new]
        /\ UNCHANGED <<agentVars, storeVars>>
        /\ faults' = faults + 1 /\ faults < MaxFaults
    BY <1>5 DEF GiveUp
  <2>6. /\ new \in Request
        /\ new.pc = "apply" => req[s].pc = "apply" /\ new.next = req[s].next
    BY <2>2, <2>3, <2>4, IdleType
  <2> HIDE DEF late, new
  <2>7. faults' \in 0 .. MaxFaults
    BY <2>5, BoundsAssumption DEF TypeOK
  <2>8. TypeOK'
    BY <2>1, <2>5, <2>6, <2>7 DEF TypeOK, agentVars, storeVars
  <2>9. \A t \in Slots : req'[t].pc = "apply" =>
          req[t].pc = "apply" /\ req'[t].next = req[t].next
    BY <2>1, <2>5, <2>6
  <2>10. DocumentsFromScans'
    BY <2>5, <2>9, DocumentsFrame DEF agentVars
  <2>11. DigestOfRows'
    BY <2>5, DigestFrame DEF storeVars
  <2> QED
    BY <2>8, <2>10, <2>11
<1>6. ASSUME NEW s \in Slots, Apply(s)
      PROVE  MirrorInv'
  <2>1. req[s] \in Request
    BY DEF TypeOK
  <2>2. UNCHANGED <<agentVars, health, faults>>
    BY <1>6 DEF Apply
  <2>3. CASE Accepts(req[s])
    <3>1. /\ row' = Marked(req[s])
          /\ digest' = req[s].next
          /\ Respond(s, "stored")
      BY <1>6, <2>3 DEF Apply
    <3>2. /\ row' \in [Keys -> Row]
          /\ \A k \in Keys :
               row'[k].source # "none" /\ ~ row'[k].ended
                 => row'[k].content # None
      BY <2>1, <3>1, MarkedType
    <3>3. digest' \in MatchSet
      BY <2>1, <3>1, RequestFields
    <3>4. TypeOK'
      BY <2>2, <3>1, <3>2, <3>3, RespondChanges DEF TypeOK, agentVars
    <3>5. DocumentsFromScans'
      BY <2>2, <3>1, RespondChanges, DocumentsFrame DEF agentVars
    <3>6. OpenMatches' = digest'
      BY <2>1, <2>3, <3>1, MarkedIsNext
    <3>7. DigestOfRows'
      BY <3>6 DEF DigestOfRows
    <3> QED
      BY <3>4, <3>5, <3>7
  <2>4. CASE ~ Accepts(req[s])
    <3>1. UNCHANGED <<row, digest>> /\ Respond(s, "resync")
      BY <1>6, <2>4 DEF Apply
    <3>2. TypeOK'
      BY <2>2, <3>1, RespondChanges DEF TypeOK, agentVars
    <3>3. DocumentsFromScans'
      BY <2>2, <3>1, RespondChanges, DocumentsFrame DEF agentVars
    <3> QED
      BY <3>1, <3>2, <3>3, DigestFrame
  <2> QED
    BY <2>3, <2>4
<1>7. ASSUME NEW s \in Slots, EndUnassigned(s)
      PROVE  MirrorInv'
  <2>1. Goto(s, "report") /\ UNCHANGED <<agentVars, digest, health, faults>>
    BY <1>7 DEF EndUnassigned
  <2>2. TypeOK'
    BY <1>7, <2>1, GotoChanges, EndUnassignedRows DEF TypeOK, agentVars
  <2>3. DocumentsFromScans'
    BY <2>1, GotoChanges, DocumentsFrame DEF agentVars
  <2>4. OpenMatches' = IF health THEN OpenMatches
                       ELSE Mirror!Withdrawn(OpenMatches)
    BY <1>7, EndUnassignedRows
  <2>5. DigestOfRows'
    BY <2>1, <2>4 DEF DigestOfRows, Mirror!Withdrawn
  <2> QED
    BY <2>2, <2>3, <2>5
<1>8. ASSUME NEW s \in Slots, StoreReport(s)
      PROVE  MirrorInv'
  <2>1. /\ Goto(s, "check")
        /\ UNCHANGED <<agentVars, row, digest, faults>>
        /\ health' \in BOOLEAN
    BY <1>8, RequestFields DEF StoreReport, TypeOK
  <2>2. TypeOK'
    BY <2>1, GotoChanges DEF TypeOK, agentVars
  <2>3. DocumentsFromScans'
    BY <2>1, GotoChanges, DocumentsFrame DEF agentVars
  <2> QED
    BY <2>1, <2>2, <2>3, DigestFrame
<1>9. ASSUME NEW s \in Slots, CheckDigest(s) \/ Fail(s)
      PROVE  MirrorInv'
  <2>1. /\ \E answer \in {"stored", "resync", "failed"} : Respond(s, answer)
        /\ UNCHANGED <<agentVars, storeVars>>
    BY <1>9 DEF CheckDigest, Fail
  <2>2. faults' \in 0 .. MaxFaults
    BY <1>9, BoundsAssumption DEF CheckDigest, Fail, TypeOK
  <2>3. /\ req' \in [Slots -> Request]
        /\ \A t \in Slots : req'[t].pc = "apply" =>
             req[t].pc = "apply" /\ req'[t].next = req[t].next
    BY <2>1, RespondChanges
  <2>4. TypeOK'
    BY <2>1, <2>2, <2>3 DEF TypeOK, agentVars, storeVars
  <2>5. DocumentsFromScans'
    BY <2>1, <2>3, DocumentsFrame DEF agentVars
  <2> QED
    BY <2>1, <2>4, <2>5, DigestFrame DEF storeVars
<1>10. CASE UNCHANGED vars
  <2>1. TypeOK'
    BY <1>10 DEF TypeOK, vars, agentVars, storeVars
  <2>2. DocumentsFromScans'
    BY <1>10 DEF DocumentsFromScans, vars, agentVars
  <2> QED
    BY <1>10, <2>1, <2>2, DigestFrame DEF vars, storeVars
<1> QED
  BY <1>1, <1>2, <1>3, <1>4, <1>5, <1>6, <1>7, <1>8, <1>9, <1>10
     DEF Next, Step

LEMMA MirrorInvHolds == Spec => []MirrorInv
BY MirrorInit, MirrorStep, PTL DEF Spec

---------------------------------------------------------------------------
(* Theorems *)

(* Requests, rows, digest and the agent's state keep their types, and an   *)
(* open row always has the content of a match.                             *)
THEOREM TypeCorrect == Spec => []TypeOK
<1>1. MirrorInv => TypeOK
  BY DEF MirrorInv
<1> QED
  BY <1>1, MirrorInvHolds, PTL

(* finding_changes::apply and end_unassigned keep agents.match_sha256 the  *)
(* digest of the open P13 rows, but for the rows the platform ended for an *)
(* unassigned set.                                                         *)
THEOREM DigestHolds == Spec => []DigestOfRows
<1>1. MirrorInv => DigestOfRows
  BY DEF MirrorInv
<1> QED
  BY <1>1, MirrorInvHolds, PTL

(* The two handlers implement the abstract mirror: whatever is lost,       *)
(* repeated or late, the open rows change to a whole scan or lose the      *)
(* assignable set.                                                         *)
THEOREM MirrorHolds == Spec => MirrorSpec
<1>1. Init => Mirror!Init
  <2> SUFFICES ASSUME Init PROVE Mirror!Init
    OBVIOUS
  <2>1. \A k \in Keys : row[k].source \in {"none", "scan"}
    BY InitialRows
  <2>2. OpenMatches = Empty
    BY <2>1 DEF OpenMatches, IsOpen, Empty
  <2> QED
    BY <2>2 DEF Init, Mirror!Init, Mirror!Empty, Empty
<1>2. MirrorInv /\ [Next]_vars => [Mirror!Next]_(Mirror!vars)
  <2> SUFFICES ASSUME MirrorInv, [Next]_vars
               PROVE  [Mirror!Next]_(Mirror!vars)
    OBVIOUS
  <2> USE DEF MirrorInv
  <2>1. ASSUME UNCHANGED <<row, scanned>>
        PROVE  UNCHANGED Mirror!vars
    BY <2>1 DEF Mirror!vars, OpenMatches, IsOpen
  <2>2. ASSUME NEW m \in MatchSet, NEW unassigned \in BOOLEAN,
               Scan(m, unassigned)
        PROVE  Mirror!Scan
    <3>1. UNCHANGED row /\ scanned' = scanned \cup {m}
      BY <2>2 DEF Scan, storeVars
    <3>2. UNCHANGED OpenMatches
      BY <3>1 DEF OpenMatches, IsOpen
    <3> QED
      BY <3>1, <3>2 DEF Mirror!Scan, Mirror!MatchSet, MatchSet
  <2>3. ASSUME NEW s \in Slots, Apply(s)
        PROVE  Mirror!Show \/ UNCHANGED <<row, scanned>>
    <3>1. req[s] \in Request /\ req[s].pc = "apply" /\ UNCHANGED scanned
      BY <2>3 DEF TypeOK, Apply, agentVars
    <3>2. CASE Accepts(req[s])
      <4>1. OpenMatches' = req[s].next
        BY <2>3, <3>1, <3>2, MarkedIsNext DEF Apply
      <4>2. req[s].next \in scanned
        BY <3>1 DEF DocumentsFromScans
      <4> QED
        BY <3>1, <4>1, <4>2 DEF Mirror!Show
    <3>3. CASE ~ Accepts(req[s])
      BY <2>3, <3>1, <3>3 DEF Apply
    <3> QED
      BY <3>2, <3>3
  <2>4. ASSUME NEW s \in Slots, EndUnassigned(s)
        PROVE  Mirror!Withdraw \/ UNCHANGED Mirror!vars
    <3>1. UNCHANGED scanned
      BY <2>4 DEF EndUnassigned, agentVars
    <3>2. OpenMatches' = IF health THEN OpenMatches
                         ELSE Mirror!Withdrawn(OpenMatches)
      BY <2>4, EndUnassignedRows
    <3> QED
      BY <3>1, <3>2 DEF Mirror!Withdraw, Mirror!vars
  <2>5. ASSUME NEW s \in Slots,
               \/ SendChanges(s) \/ SendHeartbeat(s) \/ Receive(s) \/ GiveUp(s)
               \/ StoreReport(s) \/ CheckDigest(s) \/ Fail(s)
        PROVE  UNCHANGED <<row, scanned>>
    BY <2>5 DEF SendChanges, SendHeartbeat, Receive, GiveUp, StoreReport,
                CheckDigest, Fail, agentVars, storeVars
  <2>6. CASE UNCHANGED vars
    BY <2>1, <2>6 DEF vars, agentVars, storeVars
  <2> QED
    BY <2>1, <2>2, <2>3, <2>4, <2>5, <2>6 DEF Next, Step, Mirror!Next
<1> QED
  BY <1>1, <1>2, MirrorInvHolds, PTL DEF Spec, MirrorSpec, Mirror!Spec
=============================================================================
