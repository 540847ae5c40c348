-------------------------- MODULE EnrollmentProofs --------------------------
(***************************************************************************)
(* The safety properties of Enrollment, for any numbers of tokens, keys,   *)
(* agents, serials and concurrent requests.                                *)
(***************************************************************************)
EXTENDS Enrollment, FiniteSetTheorems, TLAPS

InTransaction(h) == task[h].pc \in {"existing", "validate", "insert"}

Enrolling(h) == task[h].pc \in {"lookup", "lock"} \/ InTransaction(h)

(* What a request has read by the time it reaches each statement. *)
LocalsTyped ==
  \A h \in Handlers :
    /\ Enrolling(h) => task[h].token \in Tokens /\ task[h].key \in Keys
    /\ task[h].pc = "authenticate" =>
         /\ task[h].serial \in Serials /\ task[h].key \in Keys
         /\ cert[task[h].serial] # None /\ task[h].token = None
    /\ task[h].pc = "renew" =>
         /\ task[h].agent \in Agents /\ task[h].key \in Keys
         /\ task[h].token = None
    /\ task[h].pc = "respond" =>
         /\ task[h].key \in Keys /\ task[h].agent \in Agents
         /\ task[h].serial \in Serials

TypeInv == TypeOK /\ LocalsTyped

(* A request inside the transaction holds its token's lock. *)
HoldsLock ==
  \A h \in Handlers : InTransaction(h) => lock[task[h].token] = h

(* What Validate saw still holds when the request inserts. *)
RoomToInsert ==
  \A h \in Handlers, t \in Tokens :
    task[h].pc = "insert" /\ task[h].token = t =>
      /\ token[t].state # "absent"
      /\ token[t].standing \/ Cardinality(UsedKeys(t)) < token[t].max_uses

(* No identity comes from a token that was never created. *)
AbsentTokensUnused ==
  \A t \in Tokens : token[t].state = "absent" => UsedKeys(t) = {}

LimitInv ==
  TypeInv /\ HoldsLock /\ RoomToInsert /\ AbsentTokensUnused /\ UsesWithinLimit

(* A use, an answer being sent and an answer that arrived all name a       *)
(* recorded certificate of the right key and agent.                        *)
Recorded(s, k, a) ==
  cert[s] # None /\ cert[s].agent = a /\ cert[s].spki = k

UsesRecorded ==
  \A t \in Tokens, k \in Keys :
    use[t][k] # None => Recorded(use[t][k].serial, k, use[t][k].agent)

(* An enrollment's answer repeats the row of token_uses. *)
AnswersFromUses ==
  \A h \in Handlers :
    task[h].pc = "respond" =>
      /\ Recorded(task[h].serial, task[h].key, task[h].agent)
      /\ task[h].token \in Tokens =>
           use[task[h].token][task[h].key] =
             [agent |-> task[h].agent, serial |-> task[h].serial]

HandedFromUses ==
  \A x \in handed :
    x.token \in Tokens =>
      use[x.token][x.key] = [agent |-> x.agent, serial |-> x.serial]

IdentityInv ==
  /\ TypeInv /\ UsesRecorded /\ AnswersFromUses
  /\ HandedFromUses /\ HandedIdentityIsRecorded

---------------------------------------------------------------------------
(* Types *)

LEMMA IdleTaskType == IdleTask \in TaskState
  BY BoundsAssumption DEF IdleTask, TaskState, Pc, Time

(* Moving a request to another statement changes its pc only. *)
LEMMA GotoChanges ==
  ASSUME task \in [Handlers -> TaskState], NEW h \in Handlers,
         NEW pc \in Pc, Goto(h, pc)
  PROVE  /\ task' \in [Handlers -> TaskState]
         /\ task'[h].pc = pc /\ task'[h].token = task[h].token
         /\ task'[h].key = task[h].key /\ task'[h].agent = task[h].agent
         /\ task'[h].serial = task[h].serial
         /\ \A g \in Handlers \ {h} : task'[g] = task[g]
<1>1. task[h] \in TaskState
  OBVIOUS
<1>2. [task[h] EXCEPT !.pc = pc] \in TaskState
  BY <1>1 DEF TaskState
<1> QED
  BY <1>1, <1>2 DEF Goto, TaskState

(* A request that answers with an identity. *)
LEMMA AnswerChanges ==
  ASSUME task \in [Handlers -> TaskState], NEW h \in Handlers,
         NEW a \in Agents, NEW s \in Serials, Answer(h, a, s)
  PROVE  /\ task' \in [Handlers -> TaskState]
         /\ task'[h].pc = "respond" /\ task'[h].token = task[h].token
         /\ task'[h].key = task[h].key /\ task'[h].agent = a
         /\ task'[h].serial = s
         /\ \A g \in Handlers \ {h} : task'[g] = task[g]
<1>1. task[h] \in TaskState /\ "respond" \in Pc
  BY DEF Pc
<1>2. [task[h] EXCEPT !.pc = "respond", !.agent = a, !.serial = s] \in TaskState
  BY <1>1, Zenon DEF TaskState
<1>3. task'[h] = [task[h] EXCEPT !.pc = "respond", !.agent = a, !.serial = s]
  BY DEF Answer
<1> QED
  BY <1>1, <1>2, <1>3 DEF TaskState, Answer

(* A renewal whose certificate was accepted. *)
LEMMA AuthenticatedChanges ==
  ASSUME task \in [Handlers -> TaskState], NEW h \in Handlers,
         NEW a \in Agents, Authenticated(h, a)
  PROVE  /\ task' \in [Handlers -> TaskState]
         /\ task'[h].pc = "renew" /\ task'[h].token = task[h].token
         /\ task'[h].key = task[h].key /\ task'[h].agent = a
         /\ \A g \in Handlers \ {h} : task'[g] = task[g]
<1>1. task[h] \in TaskState /\ "renew" \in Pc
  BY DEF Pc
<1>2. [task[h] EXCEPT !.pc = "renew", !.agent = a] \in TaskState
  BY <1>1, Zenon DEF TaskState
<1>3. task'[h] = [task[h] EXCEPT !.pc = "renew", !.agent = a]
  BY DEF Authenticated
<1> QED
  BY <1>1, <1>2, <1>3 DEF TaskState, Authenticated

(* An answered or refused request is idle again. *)
LEMMA FinishChanges ==
  ASSUME task \in [Handlers -> TaskState], NEW h \in Handlers, Finish(h)
  PROVE  /\ task' \in [Handlers -> TaskState]
         /\ task'[h] = IdleTask /\ task'[h].pc = "idle"
         /\ \A g \in Handlers \ {h} : task'[g] = task[g]
  BY IdleTaskType DEF Finish, IdleTask

(* Releasing frees the locks of one request and no other's. *)
LEMMA ReleaseChanges ==
  ASSUME lock \in [Tokens -> Handlers \cup {None}], NEW h \in Handlers,
         Release(h)
  PROVE  /\ lock' \in [Tokens -> Handlers \cup {None}]
         /\ \A t \in Tokens : lock[t] # h => lock'[t] = lock[t]
  BY DEF Release

LEMMA TypeInit == Init => TypeInv
  BY BoundsAssumption, IdleTaskType
  DEF Init, TypeInv, TypeOK, LocalsTyped, Enrolling, InTransaction, IdleTask,
      TokenRow, Time

(* Every action keeps the tables and the local states of the handlers in   *)
(* their types.                                                            *)
LEMMA TypeStep == TypeInv /\ [Next]_vars => TypeInv'
<1> SUFFICES ASSUME TypeInv, [Next]_vars PROVE TypeInv'
  OBVIOUS
<1> USE BoundsAssumption, NoneAssumption, IdleTaskType
<1> USE DEF TypeInv, TypeOK, LocalsTyped, Enrolling, InTransaction
<1>1. ASSUME NEW t \in Tokens, CreateToken(t) PROVE TypeInv'
  BY <1>1 DEF CreateToken, TokenRow, Time
<1>2. ASSUME NEW t \in Tokens, CreateStanding(t) PROVE TypeInv'
  BY <1>2 DEF CreateStanding, TokenRow, Time
<1>3. ASSUME NEW t \in Tokens, RevokeToken(t) PROVE TypeInv'
  BY <1>3 DEF RevokeToken, TokenRow
<1>4. ASSUME NEW a \in Agents, RevokeAgent(a) PROVE TypeInv'
  BY <1>4 DEF RevokeAgent
<1>5. CASE Tick
  BY <1>5 DEF Tick, Time
<1>6. ASSUME NEW h \in Handlers, NEW t \in Tokens, NEW k \in Keys,
             EnrollRequest(h, t, k)
      PROVE TypeInv'
  BY <1>6 DEF EnrollRequest, TaskState, IdleTask, Pc
<1>7. ASSUME NEW h \in Handlers, NEW s \in Serials, NEW k \in Keys,
             RenewRequest(h, s, k)
      PROVE TypeInv'
  BY <1>7 DEF RenewRequest, TaskState, IdleTask, Pc
<1>8. ASSUME NEW h \in Handlers, TokenByHash(h) PROVE TypeInv'
  <2>1. CASE Goto(h, "lock")
    BY <1>8, <2>1, GotoChanges DEF TokenByHash, Pc
  <2>2. CASE Finish(h)
    BY <1>8, <2>2, FinishChanges DEF TokenByHash
  <2> QED
    BY <1>8, <2>1, <2>2 DEF TokenByHash
<1>9. ASSUME NEW h \in Handlers, LockToken(h) PROVE TypeInv'
  <2>1. task[h].token \in Tokens /\ task[h].key \in Keys
    BY <1>9 DEF LockToken
  <2>2. lock' \in [Tokens -> Handlers \cup {None}]
    BY <1>9, <2>1 DEF LockToken
  <2>3. Goto(h, "existing") /\ UNCHANGED <<now, token, agent, cert, use, handed>>
    BY <1>9 DEF LockToken
  <2> QED
    BY <2>1, <2>2, <2>3, GotoChanges DEF Pc
<1>10. ASSUME NEW h \in Handlers, FindExisting(h) PROVE TypeInv'
  <2> DEFINE row == use[task[h].token][task[h].key]
  <2>0. /\ task[h].token \in Tokens /\ task[h].key \in Keys
        /\ UNCHANGED <<now, token, agent, cert, use, handed>>
    BY <1>10 DEF FindExisting
  <2>1. CASE Goto(h, "validate") /\ UNCHANGED lock
    BY <2>0, <2>1, GotoChanges DEF Pc
  <2>2. CASE Finish(h) /\ Release(h)
    BY <2>0, <2>2, FinishChanges, ReleaseChanges
  <2>3. CASE /\ row # None
             /\ Answer(h, row.agent, row.serial)
             /\ Release(h)
    <3>1. row \in UseRow
      BY <1>10, <2>3 DEF FindExisting
    <3>2. row.agent \in Agents /\ row.serial \in Serials
      BY <3>1 DEF UseRow
    <3> HIDE DEF row
    <3> QED
      BY <2>0, <2>3, <3>2, AnswerChanges, ReleaseChanges
  <2> QED
    BY <1>10, <2>1, <2>2, <2>3 DEF FindExisting
<1>11. ASSUME NEW h \in Handlers, Validate(h) PROVE TypeInv'
  <2>1. CASE Goto(h, "insert") /\ UNCHANGED lock
    BY <1>11, <2>1, GotoChanges DEF Validate, Pc
  <2>2. CASE Finish(h) /\ Release(h)
    BY <1>11, <2>2, FinishChanges, ReleaseChanges DEF Validate
  <2> QED
    BY <1>11, <2>1, <2>2 DEF Validate
<1>12. ASSUME NEW h \in Handlers, InsertIdentity(h) PROVE TypeInv'
  <2> DEFINE t == task[h].token
             k == task[h].key
  <2>1. PICK a \in Agents, s \in Serials :
          /\ agent' = [agent EXCEPT ![a] = "active"]
          /\ cert' = [cert EXCEPT ![s] = [agent |-> a, spki |-> k,
                                          not_after |-> now + CertLife]]
          /\ use' = [use EXCEPT ![t][k] = [agent |-> a, serial |-> s]]
          /\ Answer(h, a, s)
    BY <1>12 DEF InsertIdentity
  <2>2. t \in Tokens /\ k \in Keys
    BY <1>12 DEF InsertIdentity
  <2>3. agent' \in [Agents -> {"absent", "active", "revoked"}]
    BY <2>1
  <2>4. /\ cert' \in [Serials -> CertRow \cup {None}]
        /\ \A u \in Serials : cert[u] # None => cert'[u] # None
    BY <2>1, <2>2, NoRowAssumption DEF CertRow, Time
  <2>5. use' \in [Tokens -> [Keys -> UseRow \cup {None}]]
    <3>1. [agent |-> a, serial |-> s] \in UseRow
      BY DEF UseRow
    <3>2. [use[t] EXCEPT ![k] = [agent |-> a, serial |-> s]]
            \in [Keys -> UseRow \cup {None}]
      BY <2>2, <3>1
    <3> QED
      BY <2>1, <2>2, <3>2
  <2>6. /\ task' \in [Handlers -> TaskState]
        /\ \A g \in Handlers \ {h} : task'[g] = task[g]
        /\ task'[h].pc = "respond" /\ task'[h].key = k
        /\ task'[h].agent = a /\ task'[h].serial = s
    BY <2>1, AnswerChanges
  <2>7. TypeOK'
    BY <1>12, <2>3, <2>4, <2>5, <2>6, ReleaseChanges DEF InsertIdentity
  <2>8. LocalsTyped'
    BY <2>2, <2>4, <2>6
  <2> QED
    BY <2>7, <2>8
<1>13. ASSUME NEW h \in Handlers, Authenticate(h) PROVE TypeInv'
  <2> DEFINE row == cert[task[h].serial]
  <2>1. CASE Finish(h)
    BY <1>13, <2>1, FinishChanges DEF Authenticate
  <2>2. CASE Authenticated(h, row.agent)
    <3>1. row \in CertRow
      BY <1>13 DEF Authenticate
    <3>2. row.agent \in Agents
      BY <3>1 DEF CertRow
    <3>3. /\ task[h].pc = "authenticate"
          /\ UNCHANGED <<now, token, agent, cert, use, lock, handed>>
      BY <1>13 DEF Authenticate
    <3> HIDE DEF row
    <3> QED
      BY <2>2, <3>2, <3>3, AuthenticatedChanges
  <2> QED
    BY <1>13, <2>1, <2>2 DEF Authenticate
<1>14. ASSUME NEW h \in Handlers, AddCertificate(h) PROVE TypeInv'
  <2>1. PICK s \in Serials :
          /\ cert' = [cert EXCEPT ![s] =
               [agent |-> task[h].agent, spki |-> task[h].key,
                not_after |-> now + CertLife]]
          /\ Answer(h, task[h].agent, s)
    BY <1>14 DEF AddCertificate
  <2>2. task[h].agent \in Agents /\ task[h].key \in Keys
    BY <1>14 DEF AddCertificate
  <2>3. /\ cert' \in [Serials -> CertRow \cup {None}]
        /\ \A u \in Serials : cert[u] # None => cert'[u] # None
    BY <2>1, <2>2, NoRowAssumption DEF CertRow, Time
  <2> QED
    BY <1>14, <2>1, <2>2, <2>3, AnswerChanges DEF AddCertificate
<1>15. ASSUME NEW h \in Handlers, Respond(h) PROVE TypeInv'
  BY <1>15 DEF Respond, Finish, TaskState, Identity, IdleTask
<1>16. ASSUME NEW h \in Handlers, Fail(h) PROVE TypeInv'
  BY <1>16 DEF Fail, Finish, Release, IdleTask
<1>17. CASE UNCHANGED vars
  BY <1>17 DEF vars
<1> QED
  BY <1>1, <1>2, <1>3, <1>4, <1>5, <1>6, <1>7, <1>8, <1>9, <1>10, <1>11,
     <1>12, <1>13, <1>14, <1>15, <1>16, <1>17
  DEF Next, Admin, Step

(* Table rows, locks and local states keep their types for any number of   *)
(* racing requests.                                                        *)
THEOREM TypeCorrect == Spec => []TypeOK
<1>1. Init => TypeInv
  BY TypeInit
<1>2. TypeInv /\ [Next]_vars => TypeInv'
  BY TypeStep
<1>3. TypeInv => TypeOK
  BY DEF TypeInv
<1> QED
  BY <1>1, <1>2, <1>3, PTL DEF Spec

---------------------------------------------------------------------------
(* The limit of a token *)

(* A token's uses are keys, of which there are finitely many. *)
LEMMA UsedKeysFinite ==
  ASSUME NEW t \in Tokens
  PROVE  IsFiniteSet(UsedKeys(t)) /\ Cardinality(UsedKeys(t)) \in Nat
<1>1. UsedKeys(t) \subseteq Keys
  BY DEF UsedKeys
<1> QED
  BY <1>1, BoundsAssumption, FS_Subset, FS_CardinalityType

LEMMA LimitInit == Init => LimitInv
<1> SUFFICES ASSUME Init PROVE LimitInv
  OBVIOUS
<1>1. \A t \in Tokens : UsedKeys(t) = {}
  BY DEF Init, UsedKeys
<1>2. UsesWithinLimit
  <2>1. Cardinality({}) = 0
    BY FS_EmptySet
  <2>2. \A t \in Tokens : token[t].max_uses = 1
    BY DEF Init
  <2>3. \A t \in Tokens : Cardinality(UsedKeys(t)) = 0
    BY <1>1, <2>1
  <2> QED
    BY <2>2, <2>3 DEF UsesWithinLimit
<1> QED
  BY <1>1, <1>2, TypeInit
  DEF Init, LimitInv, HoldsLock, RoomToInsert, AbsentTokensUnused,
      InTransaction, IdleTask

(* The lock is kept from the SELECTs to the commit: only its holder frees  *)
(* it, and whoever takes it found it free.                                 *)
LEMMA LockStep == TypeInv /\ HoldsLock /\ [Next]_vars => HoldsLock'
<1> SUFFICES ASSUME TypeInv, HoldsLock, [Next]_vars PROVE HoldsLock'
  OBVIOUS
<1> USE NoneAssumption DEF TypeInv, TypeOK, HoldsLock, InTransaction
<1>1. ASSUME UNCHANGED <<lock, task>> PROVE HoldsLock'
  BY <1>1
<1>2. ASSUME NEW h \in Handlers, UNCHANGED lock,
             task'[h].pc \notin {"existing", "validate", "insert"},
             \A g \in Handlers \ {h} : task'[g] = task[g]
      PROVE  HoldsLock'
  BY <1>2
<1>3. ASSUME NEW h \in Handlers, Release(h),
             task'[h].pc \notin {"existing", "validate", "insert"},
             \A g \in Handlers \ {h} : task'[g] = task[g]
      PROVE  HoldsLock'
  BY <1>3, ReleaseChanges DEF LocalsTyped, Enrolling
<1>4. ASSUME NEW h \in Handlers, NEW pc \in Pc, UNCHANGED lock, Goto(h, pc),
             InTransaction(h)
      PROVE  HoldsLock'
  BY <1>4, GotoChanges
<1>5. ASSUME NEW h \in Handlers, LockToken(h) PROVE HoldsLock'
  <2>1. Goto(h, "existing") /\ "existing" \in Pc
    BY <1>5 DEF LockToken, Pc
  <2>2. task[h].token \in Tokens
    BY <1>5 DEF LockToken, LocalsTyped, Enrolling
  <2> QED
    BY <1>5, <2>1, <2>2, GotoChanges DEF LockToken
<1>6. CASE Admin
  BY <1>1, <1>6 DEF Admin, CreateToken, CreateStanding, RevokeToken,
                    RevokeAgent, Tick
<1>7. ASSUME NEW h \in Handlers, NEW t \in Tokens, NEW k \in Keys,
             EnrollRequest(h, t, k)
      PROVE HoldsLock'
  BY <1>2, <1>7 DEF EnrollRequest, IdleTask
<1>8. ASSUME NEW h \in Handlers, NEW s \in Serials, NEW k \in Keys,
             RenewRequest(h, s, k)
      PROVE HoldsLock'
  BY <1>2, <1>8 DEF RenewRequest, IdleTask
<1>9. ASSUME NEW h \in Handlers, TokenByHash(h) PROVE HoldsLock'
  <2>1. CASE Goto(h, "lock")
    BY <1>2, <1>9, <2>1, GotoChanges DEF TokenByHash, Pc
  <2>2. CASE Finish(h)
    BY <1>2, <1>9, <2>2, FinishChanges DEF TokenByHash
  <2> QED
    BY <1>9, <2>1, <2>2 DEF TokenByHash
<1>10. ASSUME NEW h \in Handlers, FindExisting(h) PROVE HoldsLock'
  <2> DEFINE row == use[task[h].token][task[h].key]
  <2>1. CASE Goto(h, "validate") /\ UNCHANGED lock
    BY <1>4, <1>10, <2>1 DEF FindExisting, Pc
  <2>2. CASE Finish(h) /\ Release(h)
    BY <1>3, <2>2, FinishChanges
  <2>3. CASE /\ row # None
             /\ Answer(h, row.agent, row.serial)
             /\ Release(h)
    <3>1. row \in UseRow
      BY <1>10, <2>3 DEF FindExisting, LocalsTyped, Enrolling
    <3>2. row.agent \in Agents /\ row.serial \in Serials
      BY <3>1 DEF UseRow
    <3> HIDE DEF row
    <3> QED
      BY <1>3, <2>3, <3>2, AnswerChanges
  <2> QED
    BY <1>10, <2>1, <2>2, <2>3 DEF FindExisting
<1>11. ASSUME NEW h \in Handlers, Validate(h) PROVE HoldsLock'
  <2>1. CASE Goto(h, "insert") /\ UNCHANGED lock
    BY <1>4, <1>11, <2>1 DEF Validate, Pc
  <2>2. CASE Finish(h) /\ Release(h)
    BY <1>3, <2>2, FinishChanges
  <2> QED
    BY <1>11, <2>1, <2>2 DEF Validate
<1>12. ASSUME NEW h \in Handlers, InsertIdentity(h) PROVE HoldsLock'
  BY <1>3, <1>12, AnswerChanges DEF InsertIdentity
<1>13. ASSUME NEW h \in Handlers, Authenticate(h) PROVE HoldsLock'
  <2> DEFINE row == cert[task[h].serial]
  <2>1. CASE Finish(h)
    BY <1>2, <1>13, <2>1, FinishChanges DEF Authenticate
  <2>2. CASE Authenticated(h, row.agent)
    <3>1. row.agent \in Agents
      BY <1>13 DEF Authenticate, LocalsTyped, CertRow
    <3>2. UNCHANGED lock
      BY <1>13 DEF Authenticate
    <3> HIDE DEF row
    <3> QED
      BY <1>2, <2>2, <3>1, <3>2, AuthenticatedChanges
  <2> QED
    BY <1>13, <2>1, <2>2 DEF Authenticate
<1>14. ASSUME NEW h \in Handlers, AddCertificate(h) PROVE HoldsLock'
  BY <1>2, <1>14, AnswerChanges DEF AddCertificate, LocalsTyped
<1>15. ASSUME NEW h \in Handlers, Respond(h) PROVE HoldsLock'
  BY <1>2, <1>15, FinishChanges DEF Respond
<1>16. ASSUME NEW h \in Handlers, Fail(h) PROVE HoldsLock'
  BY <1>3, <1>16, FinishChanges DEF Fail
<1>17. CASE UNCHANGED vars
  BY <1>1, <1>17 DEF vars
<1> QED
  BY <1>5, <1>6, <1>7, <1>8, <1>9, <1>10, <1>11, <1>12, <1>13, <1>14, <1>15,
     <1>16, <1>17
  DEF Next, Step

(* The steps that leave the tokens and their uses alone keep LimitInv when *)
(* no request starts to insert and no one loses a lock that it relies on.  *)
LEMMA LimitFrame ==
  ASSUME LimitInv, TypeInv', HoldsLock', UNCHANGED <<token, use>>,
         \A h \in Handlers :
           task'[h].pc = "insert" =>
             task[h].pc = "insert" /\ task'[h].token = task[h].token
  PROVE  LimitInv'
<1>1. \A t \in Tokens : UsedKeys(t)' = UsedKeys(t)
  BY DEF UsedKeys
<1>2. RoomToInsert'
  BY <1>1 DEF LimitInv, RoomToInsert
<1>3. AbsentTokensUnused'
  BY <1>1 DEF LimitInv, AbsentTokensUnused
<1>4. UsesWithinLimit'
  BY <1>1 DEF LimitInv, UsesWithinLimit
<1> QED
  BY <1>2, <1>3, <1>4 DEF LimitInv

(* Racing requests, the administrator's changes and failures keep every    *)
(* token within its limit.                                                 *)
LEMMA LimitStep == LimitInv /\ [Next]_vars => LimitInv'
<1> SUFFICES ASSUME LimitInv, [Next]_vars PROVE LimitInv'
  OBVIOUS
<1>1. TypeInv' /\ HoldsLock'
  BY TypeStep, LockStep DEF LimitInv
<1>2. TypeOK /\ LocalsTyped /\ HoldsLock /\ RoomToInsert /\ AbsentTokensUnused
        /\ UsesWithinLimit
  BY DEF LimitInv, TypeInv
<1>3. ASSUME UNCHANGED <<token, use, task>> PROVE LimitInv'
  BY <1>1, <1>3, LimitFrame
<1>4. ASSUME NEW h \in Handlers, UNCHANGED <<token, use>>,
             task'[h].pc # "insert",
             \A g \in Handlers \ {h} : task'[g] = task[g]
      PROVE  LimitInv'
  BY <1>1, <1>4, LimitFrame
<1>5. ASSUME NEW t \in Tokens, UNCHANGED <<use, task>>,
             token[t].state = "absent",
             token'[t].max_uses \in Nat \ {0}, token'[t].state # "absent",
             \A u \in Tokens \ {t} : token'[u] = token[u]
      PROVE  LimitInv'
  <2>1. \A u \in Tokens : UsedKeys(u)' = UsedKeys(u)
    BY <1>5 DEF UsedKeys
  <2>2. Cardinality(UsedKeys(t)) = 0
    BY <1>2, <1>5, FS_EmptySet DEF AbsentTokensUnused
  <2>3. RoomToInsert'
    BY <1>2, <1>5, <2>1, <2>2 DEF RoomToInsert
  <2>4. AbsentTokensUnused'
    BY <1>2, <1>5, <2>1 DEF AbsentTokensUnused
  <2>5. UsesWithinLimit'
    BY <1>2, <1>5, <2>1, <2>2 DEF UsesWithinLimit
  <2> QED
    BY <1>1, <2>3, <2>4, <2>5 DEF LimitInv
<1>6. ASSUME NEW t \in Tokens, CreateToken(t) PROVE LimitInv'
  BY <1>2, <1>5, <1>6, BoundsAssumption DEF CreateToken, TypeOK
<1>7. ASSUME NEW t \in Tokens, CreateStanding(t) PROVE LimitInv'
  BY <1>2, <1>5, <1>7, BoundsAssumption DEF CreateStanding, TypeOK
<1>8. ASSUME NEW t \in Tokens, RevokeToken(t) PROVE LimitInv'
  <2>1. /\ \A u \in Tokens : UsedKeys(u)' = UsedKeys(u)
        /\ UNCHANGED task
    BY <1>8 DEF RevokeToken, UsedKeys
  <2>2. \A u \in Tokens :
          /\ token'[u].standing = token[u].standing
          /\ token'[u].max_uses = token[u].max_uses
          /\ token'[u].state = "absent" <=> token[u].state = "absent"
    BY <1>2, <1>8 DEF RevokeToken, TypeOK, TokenRow
  <2>3. RoomToInsert'
    BY <1>2, <2>1, <2>2 DEF RoomToInsert
  <2>4. AbsentTokensUnused'
    BY <1>2, <2>1, <2>2 DEF AbsentTokensUnused
  <2>5. UsesWithinLimit'
    BY <1>2, <2>1, <2>2 DEF UsesWithinLimit
  <2> QED
    BY <1>1, <2>3, <2>4, <2>5 DEF LimitInv
<1>9. ASSUME NEW a \in Agents, RevokeAgent(a) PROVE LimitInv'
  BY <1>3, <1>9 DEF RevokeAgent
<1>10. CASE Tick
  BY <1>3, <1>10 DEF Tick
<1>11. ASSUME NEW h \in Handlers, NEW t \in Tokens, NEW k \in Keys,
              EnrollRequest(h, t, k)
       PROVE  LimitInv'
  BY <1>2, <1>4, <1>11 DEF EnrollRequest, IdleTask, TypeOK
<1>12. ASSUME NEW h \in Handlers, NEW s \in Serials, NEW k \in Keys,
              RenewRequest(h, s, k)
       PROVE  LimitInv'
  BY <1>2, <1>4, <1>12 DEF RenewRequest, IdleTask, TypeOK
<1>13. ASSUME NEW h \in Handlers, Finish(h), UNCHANGED <<token, use>>
       PROVE  LimitInv'
  BY <1>2, <1>4, <1>13, FinishChanges DEF TypeOK
<1>14. ASSUME NEW h \in Handlers, NEW pc \in Pc \ {"insert"}, Goto(h, pc),
              UNCHANGED <<token, use>>
       PROVE  LimitInv'
  BY <1>2, <1>4, <1>14, GotoChanges DEF TypeOK
<1>15. ASSUME NEW h \in Handlers, NEW a \in Agents, NEW s \in Serials,
              Answer(h, a, s), UNCHANGED <<token, use>>
       PROVE  LimitInv'
  BY <1>2, <1>4, <1>15, AnswerChanges DEF TypeOK
<1>16. ASSUME NEW h \in Handlers, TokenByHash(h) PROVE LimitInv'
  BY <1>13, <1>14, <1>16 DEF TokenByHash, Pc
<1>17. ASSUME NEW h \in Handlers, LockToken(h) PROVE LimitInv'
  BY <1>14, <1>17 DEF LockToken, Pc
<1>18. ASSUME NEW h \in Handlers, FindExisting(h) PROVE LimitInv'
  <2> DEFINE row == use[task[h].token][task[h].key]
  <2>1. CASE row # None /\ Answer(h, row.agent, row.serial)
    <3>1. row \in UseRow
      BY <1>2, <1>18, <2>1
      DEF FindExisting, TypeOK, LocalsTyped, Enrolling, InTransaction
    <3>2. row.agent \in Agents /\ row.serial \in Serials
      BY <3>1 DEF UseRow
    <3>3. UNCHANGED <<token, use>>
      BY <1>18 DEF FindExisting
    <3> HIDE DEF row
    <3> QED
      BY <1>15, <2>1, <3>2, <3>3
  <2> QED
    BY <1>13, <1>14, <1>18, <2>1 DEF FindExisting, Pc
<1>19. ASSUME NEW h \in Handlers, Validate(h) PROVE LimitInv'
  <2>1. CASE Finish(h)
    BY <1>13, <1>19, <2>1 DEF Validate
  <2>2. CASE /\ TokenValid(task[h].token, task[h].at)
             /\ \/ token[task[h].token].standing
                \/ Cardinality(UsedKeys(task[h].token))
                     < token[task[h].token].max_uses
             /\ Goto(h, "insert")
    <3>1. UNCHANGED <<token, use>>
      BY <1>19 DEF Validate
    <3>2. \A t \in Tokens : UsedKeys(t)' = UsedKeys(t)
      BY <3>1 DEF UsedKeys
    <3>3. /\ task'[h].token = task[h].token
          /\ \A g \in Handlers \ {h} : task'[g] = task[g]
      BY <1>2, <2>2, GotoChanges DEF Pc, TypeOK
    <3>4. RoomToInsert'
      BY <1>2, <2>2, <3>1, <3>2, <3>3 DEF RoomToInsert, TokenValid
    <3>5. AbsentTokensUnused' /\ UsesWithinLimit'
      BY <1>2, <3>1, <3>2 DEF AbsentTokensUnused, UsesWithinLimit
    <3> QED
      BY <1>1, <3>4, <3>5 DEF LimitInv
  <2> QED
    BY <1>19, <2>1, <2>2 DEF Validate
<1>20. ASSUME NEW h \in Handlers, InsertIdentity(h) PROVE LimitInv'
  <2>0. PICK t \in Tokens, k \in Keys : t = task[h].token /\ k = task[h].key
    BY <1>2, <1>20 DEF InsertIdentity, LocalsTyped, Enrolling, InTransaction
  <2>1. PICK a \in Agents, s \in Serials :
          /\ use' = [use EXCEPT ![t][k] = [agent |-> a, serial |-> s]]
          /\ Answer(h, a, s)
    BY <1>20, <2>0 DEF InsertIdentity
  <2>2. /\ task[h].pc = "insert" /\ task[h].token = t /\ use[t][k] = None
        /\ lock[t] = h /\ UNCHANGED token
    BY <1>2, <1>20, <2>0 DEF InsertIdentity, InTransaction, HoldsLock
  <2>3. /\ \A u \in Tokens \ {t} : UsedKeys(u)' = UsedKeys(u)
        /\ UsedKeys(t)' = UsedKeys(t) \cup {k}
    BY <1>2, <2>1, <2>2, NoRowAssumption DEF UsedKeys, TypeOK, UseRow
  <2>4. k \notin UsedKeys(t)
    BY <2>2 DEF UsedKeys
  <2>5. Cardinality(UsedKeys(t)') = Cardinality(UsedKeys(t)) + 1
    BY <2>2, <2>3, <2>4, UsedKeysFinite, FS_AddElement
  <2>6. /\ task'[h].pc = "respond"
        /\ \A g \in Handlers \ {h} : task'[g] = task[g]
    BY <1>2, <2>1, AnswerChanges DEF TypeOK
  <2>7. \A g \in Handlers \ {h} :
          task[g].pc = "insert" => task[g].token \in Tokens \ {t}
    BY <1>2, <2>2
    DEF LocalsTyped, Enrolling, InTransaction, HoldsLock
  <2>8. RoomToInsert'
    BY <1>2, <2>2, <2>3, <2>6, <2>7 DEF RoomToInsert
  <2>9. AbsentTokensUnused'
    BY <1>2, <2>2, <2>3 DEF AbsentTokensUnused, RoomToInsert
  <2>10. UsesWithinLimit'
    <3>1. ASSUME NEW u \in Tokens \ {t}
          PROVE  token'[u].standing
                   \/ Cardinality(UsedKeys(u)') <= token'[u].max_uses
      BY <1>2, <2>2, <2>3 DEF UsesWithinLimit
    <3>2. token[t].standing \/ Cardinality(UsedKeys(t)) < token[t].max_uses
      BY <1>2, <2>2 DEF RoomToInsert
    <3>3. Cardinality(UsedKeys(t)) \in Nat /\ token[t].max_uses \in Nat
      BY <1>2, <2>2, UsedKeysFinite, BoundsAssumption DEF TypeOK, TokenRow
    <3>4. token'[t].standing
            \/ Cardinality(UsedKeys(t)) + 1 <= token'[t].max_uses
      BY <2>2, <3>2, <3>3
    <3> QED
      BY <2>5, <3>1, <3>4 DEF UsesWithinLimit
  <2> QED
    BY <1>1, <2>8, <2>9, <2>10 DEF LimitInv
<1>21. ASSUME NEW h \in Handlers, Authenticate(h) PROVE LimitInv'
  <2> DEFINE row == cert[task[h].serial]
  <2>1. UNCHANGED <<token, use>>
    BY <1>21 DEF Authenticate
  <2>2. CASE Authenticated(h, row.agent)
    <3>1. row.agent \in Agents
      BY <1>2, <1>21 DEF Authenticate, LocalsTyped, CertRow, TypeOK
    <3> HIDE DEF row
    <3> QED
      BY <1>2, <1>4, <2>1, <2>2, <3>1, AuthenticatedChanges DEF TypeOK
  <2> QED
    BY <1>13, <1>21, <2>1, <2>2 DEF Authenticate
<1>22. ASSUME NEW h \in Handlers, AddCertificate(h) PROVE LimitInv'
  BY <1>2, <1>15, <1>22 DEF AddCertificate, LocalsTyped
<1>23. ASSUME NEW h \in Handlers, Respond(h) \/ Fail(h) PROVE LimitInv'
  BY <1>13, <1>23 DEF Respond, Fail
<1>24. CASE UNCHANGED vars
  BY <1>3, <1>24 DEF vars
<1> QED
  BY <1>6, <1>7, <1>8, <1>9, <1>10, <1>11, <1>12, <1>16, <1>17, <1>18, <1>19,
     <1>20, <1>21, <1>22, <1>23, <1>24
  DEF Next, Admin, Step

(* However many requests race for the last use of a token, its uses stay   *)
(* within max_uses: the advisory lock makes count, check and insert one    *)
(* step to every other request of the token.                               *)
THEOREM LimitHolds == Spec => []UsesWithinLimit
<1>1. Init => LimitInv
  BY LimitInit
<1>2. LimitInv /\ [Next]_vars => LimitInv'
  BY LimitStep
<1>3. LimitInv => UsesWithinLimit
  BY DEF LimitInv
<1> QED
  BY <1>1, <1>2, <1>3, PTL DEF Spec

---------------------------------------------------------------------------
(* Identities *)

LEMMA IdentityInit == Init => IdentityInv
  BY TypeInit
  DEF Init, IdentityInv, UsesRecorded, AnswersFromUses, HandedFromUses,
      HandedIdentityIsRecorded, IdleTask

(* Rows of certificates and token_uses are only ever added. *)
CertsKept == \A s \in Serials : cert[s] # None => cert'[s] = cert[s]
UsesKept ==
  \A t \in Tokens, k \in Keys : use[t][k] # None => use'[t][k] = use[t][k]

(* What has been recorded stays recorded, so an answer that is under way   *)
(* or has arrived stays true while other requests add their rows.          *)
LEMMA IdentityFrame ==
  ASSUME IdentityInv, TypeInv', CertsKept, UsesKept, UsesRecorded',
         NEW h \in Handlers,
         \A g \in Handlers \ {h} : task'[g] = task[g],
         task'[h].pc = "respond" =>
           /\ Recorded(task[h].serial, task[h].key, task[h].agent)'
           /\ task'[h].token \in Tokens =>
                use'[task'[h].token][task'[h].key] =
                  [agent |-> task'[h].agent, serial |-> task'[h].serial],
         UNCHANGED handed
  PROVE  IdentityInv'
<1> USE DEF IdentityInv, TypeInv
<1>1. AnswersFromUses'
  <2> SUFFICES ASSUME NEW g \in Handlers \ {h}, task[g].pc = "respond"
               PROVE  /\ Recorded(task[g].serial, task[g].key, task[g].agent)'
                      /\ task'[g].token \in Tokens =>
                           use'[task'[g].token][task'[g].key] =
                             [agent |-> task'[g].agent,
                              serial |-> task'[g].serial]
    BY DEF AnswersFromUses
  <2>1. /\ task[g].serial \in Serials /\ task[g].key \in Keys
        /\ task'[g] = task[g]
    BY DEF LocalsTyped
  <2>2. Recorded(task[g].serial, task[g].key, task[g].agent)'
    <3>1. Recorded(task[g].serial, task[g].key, task[g].agent)
      BY DEF AnswersFromUses
    <3>2. cert'[task[g].serial] = cert[task[g].serial]
      BY <2>1, <3>1 DEF Recorded, CertsKept
    <3> QED
      BY <2>1, <3>1, <3>2 DEF Recorded
  <2>3. task[g].token \in Tokens =>
          /\ use[task[g].token][task[g].key] =
               [agent |-> task[g].agent, serial |-> task[g].serial]
          /\ use[task[g].token][task[g].key] # None
    BY <2>1, NoRowAssumption DEF AnswersFromUses, LocalsTyped, UseRow
  <2> QED
    BY <2>1, <2>2, <2>3 DEF UsesKept
<1>2. HandedFromUses'
  <2> SUFFICES ASSUME NEW x \in handed, x.token \in Tokens
               PROVE  use'[x.token][x.key] =
                        [agent |-> x.agent, serial |-> x.serial]
    BY DEF HandedFromUses
  <2>1. x.key \in Keys /\ x.agent \in Agents /\ x.serial \in Serials
    BY DEF TypeOK, Identity
  <2>2. use[x.token][x.key] # None
    <3>1. use[x.token][x.key] = [agent |-> x.agent, serial |-> x.serial]
      BY DEF HandedFromUses
    <3>2. [agent |-> x.agent, serial |-> x.serial] \in UseRow
      BY <2>1 DEF UseRow
    <3> QED
      BY <3>1, <3>2, NoRowAssumption
  <2> QED
    BY <2>1, <2>2 DEF HandedFromUses, UsesKept
<1>3. HandedIdentityIsRecorded'
  <2> SUFFICES ASSUME NEW x \in handed
               PROVE  /\ cert'[x.serial] # None
                      /\ cert'[x.serial].agent = x.agent
                      /\ cert'[x.serial].spki = x.key
    BY DEF HandedIdentityIsRecorded
  <2>1. x.serial \in Serials
    BY DEF TypeOK, Identity
  <2> QED
    BY <2>1 DEF HandedIdentityIsRecorded, CertsKept
<1> QED
  BY <1>1, <1>2, <1>3

(* Every step keeps identities that are recorded, answered or handed out   *)
(* consistent with each other.                                             *)
LEMMA IdentityStep == IdentityInv /\ [Next]_vars => IdentityInv'
<1> SUFFICES ASSUME IdentityInv, [Next]_vars PROVE IdentityInv'
  OBVIOUS
<1>1. TypeInv'
  BY TypeStep DEF IdentityInv
<1>2. TypeOK /\ LocalsTyped
  BY DEF IdentityInv, TypeInv
<1>3. ASSUME UNCHANGED <<cert, use>>
      PROVE  CertsKept /\ UsesKept /\ UsesRecorded'
  BY <1>3 DEF IdentityInv, UsesRecorded, Recorded, CertsKept, UsesKept
<1>4. ASSUME UNCHANGED <<cert, use, task, handed>> PROVE IdentityInv'
  BY <1>1, <1>4
  DEF IdentityInv, UsesRecorded, AnswersFromUses, HandedFromUses,
      HandedIdentityIsRecorded, Recorded
<1>5. ASSUME NEW h \in Handlers, UNCHANGED <<cert, use, handed>>,
             task'[h].pc # "respond",
             \A g \in Handlers \ {h} : task'[g] = task[g]
      PROVE  IdentityInv'
  BY <1>1, <1>3, <1>5, IdentityFrame
<1>6. CASE Admin
  BY <1>4, <1>6 DEF Admin, CreateToken, CreateStanding, RevokeToken,
                    RevokeAgent, Tick
<1>7. ASSUME NEW h \in Handlers, NEW t \in Tokens, NEW k \in Keys,
             EnrollRequest(h, t, k)
      PROVE  IdentityInv'
  BY <1>2, <1>5, <1>7 DEF EnrollRequest, IdleTask, TypeOK
<1>8. ASSUME NEW h \in Handlers, NEW s \in Serials, NEW k \in Keys,
             RenewRequest(h, s, k)
      PROVE  IdentityInv'
  BY <1>2, <1>5, <1>8 DEF RenewRequest, IdleTask, TypeOK
<1>9. ASSUME NEW h \in Handlers, Finish(h), UNCHANGED <<cert, use, handed>>
      PROVE  IdentityInv'
  BY <1>2, <1>5, <1>9, FinishChanges DEF TypeOK
<1>10. ASSUME NEW h \in Handlers, NEW pc \in Pc \ {"respond"}, Goto(h, pc),
              UNCHANGED <<cert, use, handed>>
       PROVE  IdentityInv'
  BY <1>2, <1>5, <1>10, GotoChanges DEF TypeOK
<1>11. ASSUME NEW h \in Handlers, TokenByHash(h) PROVE IdentityInv'
  BY <1>9, <1>10, <1>11 DEF TokenByHash, Pc
<1>12. ASSUME NEW h \in Handlers, LockToken(h) PROVE IdentityInv'
  BY <1>10, <1>12 DEF LockToken, Pc
<1>13. ASSUME NEW h \in Handlers, FindExisting(h) PROVE IdentityInv'
  <2>0. PICK t \in Tokens, k \in Keys : t = task[h].token /\ k = task[h].key
    BY <1>2, <1>13 DEF FindExisting, LocalsTyped, Enrolling, InTransaction
  <2>1. CASE use[t][k] # None /\ Answer(h, use[t][k].agent, use[t][k].serial)
    <3>1. use[t][k] \in UseRow
      BY <1>2, <2>1 DEF TypeOK
    <3>2. use[t][k].agent \in Agents /\ use[t][k].serial \in Serials
      BY <3>1 DEF UseRow
    <3>3. use[t][k] =
            [agent |-> use[t][k].agent, serial |-> use[t][k].serial]
      BY <3>1 DEF UseRow
    <3>4. UNCHANGED <<cert, use, handed>>
      BY <1>13 DEF FindExisting
    <3>5. Recorded(use[t][k].serial, k, use[t][k].agent)
      BY <2>1 DEF IdentityInv, UsesRecorded
    <3>6. /\ task'[h].token = t /\ task'[h].key = k
          /\ task'[h].agent = use[t][k].agent
          /\ task'[h].serial = use[t][k].serial
          /\ \A g \in Handlers \ {h} : task'[g] = task[g]
      BY <1>2, <2>0, <2>1, <3>2, AnswerChanges DEF TypeOK
    <3>7. Recorded(task[h].serial, task[h].key, task[h].agent)'
      BY <3>4, <3>5, <3>6 DEF Recorded
    <3>8. use'[task'[h].token][task'[h].key] =
            [agent |-> task'[h].agent, serial |-> task'[h].serial]
      BY <3>3, <3>4, <3>6
    <3> QED
      BY <1>1, <1>3, <3>4, <3>6, <3>7, <3>8, IdentityFrame
  <2> QED
    BY <1>9, <1>10, <1>13, <2>0, <2>1 DEF FindExisting, Pc
<1>14. ASSUME NEW h \in Handlers, Validate(h) PROVE IdentityInv'
  BY <1>9, <1>10, <1>14 DEF Validate, Pc
<1>15. ASSUME NEW h \in Handlers, InsertIdentity(h) PROVE IdentityInv'
  <2>0. PICK t \in Tokens, k \in Keys : t = task[h].token /\ k = task[h].key
    BY <1>2, <1>15 DEF InsertIdentity, LocalsTyped, Enrolling, InTransaction
  <2>1. PICK a \in Agents, s \in Serials :
          /\ cert[s] = None
          /\ cert' = [cert EXCEPT ![s] = [agent |-> a, spki |-> k,
                                          not_after |-> now + CertLife]]
          /\ use' = [use EXCEPT ![t][k] = [agent |-> a, serial |-> s]]
          /\ Answer(h, a, s)
    BY <1>15, <2>0 DEF InsertIdentity
  <2>2. use[t][k] = None /\ UNCHANGED handed
    BY <1>15, <2>0 DEF InsertIdentity
  <2>3. CertsKept
    BY <1>2, <2>1 DEF CertsKept, TypeOK
  <2>4. UsesKept
    BY <1>2, <2>1, <2>2 DEF UsesKept, TypeOK
  <2>5. Recorded(s, k, a)'
    <3>1. cert'[s] = [agent |-> a, spki |-> k, not_after |-> now + CertLife]
      BY <1>2, <2>1 DEF TypeOK
    <3>2. cert'[s] \in CertRow
      BY <1>2, <3>1, BoundsAssumption DEF CertRow, TypeOK, Time
    <3> QED
      BY <3>1, <3>2, NoRowAssumption DEF Recorded
  <2>6. use'[t][k] = [agent |-> a, serial |-> s]
    BY <1>2, <2>1 DEF TypeOK
  <2>7. UsesRecorded'
    <3> SUFFICES ASSUME NEW u \in Tokens, NEW j \in Keys, use'[u][j] # None
                 PROVE  Recorded(use[u][j].serial, j, use[u][j].agent)'
      BY DEF UsesRecorded
    <3>1. CASE u = t /\ j = k
      BY <2>5, <2>6, <3>1 DEF Recorded
    <3>2. CASE ~ (u = t /\ j = k)
      <4>1. use'[u][j] = use[u][j]
        BY <1>2, <2>1, <3>2 DEF TypeOK
      <4>2. use[u][j] \in UseRow
        BY <1>2, <4>1 DEF TypeOK
      <4>3. use[u][j].serial \in Serials
        BY <4>2 DEF UseRow
      <4>4. Recorded(use[u][j].serial, j, use[u][j].agent)
        BY <4>1 DEF IdentityInv, UsesRecorded
      <4> QED
        BY <2>3, <4>1, <4>3, <4>4 DEF Recorded, CertsKept
    <3> QED
      BY <3>1, <3>2
  <2>8. /\ task'[h].token = t /\ task'[h].key = k
        /\ task'[h].agent = a /\ task'[h].serial = s
        /\ \A g \in Handlers \ {h} : task'[g] = task[g]
    BY <1>2, <2>0, <2>1, AnswerChanges DEF TypeOK
  <2>9. Recorded(task[h].serial, task[h].key, task[h].agent)'
    BY <2>5, <2>8 DEF Recorded
  <2> QED
    BY <1>1, <2>2, <2>3, <2>4, <2>6, <2>7, <2>8, <2>9, IdentityFrame
<1>16. ASSUME NEW h \in Handlers, Authenticate(h) PROVE IdentityInv'
  <2>1. UNCHANGED <<cert, use, handed>>
    BY <1>16 DEF Authenticate
  <2>2. PICK row \in CertRow : row = cert[task[h].serial]
    BY <1>2, <1>16 DEF Authenticate, LocalsTyped, TypeOK
  <2>3. CASE Authenticated(h, row.agent)
    <3>1. row.agent \in Agents
      BY DEF CertRow
    <3> QED
      BY <1>2, <1>5, <2>1, <2>3, <3>1, AuthenticatedChanges DEF TypeOK
  <2> QED
    BY <1>9, <1>16, <2>1, <2>2, <2>3 DEF Authenticate
<1>17. ASSUME NEW h \in Handlers, AddCertificate(h) PROVE IdentityInv'
  <2>0. PICK a \in Agents, k \in Keys :
          a = task[h].agent /\ k = task[h].key /\ task[h].token = None
    BY <1>2, <1>17 DEF AddCertificate, LocalsTyped
  <2>1. PICK s \in Serials :
          /\ cert[s] = None
          /\ cert' = [cert EXCEPT ![s] =
               [agent |-> a, spki |-> k, not_after |-> now + CertLife]]
          /\ Answer(h, a, s)
    BY <1>17, <2>0 DEF AddCertificate
  <2>2. UNCHANGED <<use, handed>>
    BY <1>17 DEF AddCertificate
  <2>3. CertsKept /\ UsesKept
    BY <1>2, <2>1, <2>2 DEF CertsKept, UsesKept, TypeOK
  <2>4. UsesRecorded'
    <3> SUFFICES ASSUME NEW u \in Tokens, NEW j \in Keys, use[u][j] # None
                 PROVE  Recorded(use[u][j].serial, j, use[u][j].agent)'
      BY <2>2 DEF UsesRecorded
    <3>1. use[u][j] \in UseRow
      BY <1>2 DEF TypeOK
    <3>2. use[u][j].serial \in Serials
      BY <3>1 DEF UseRow
    <3>3. Recorded(use[u][j].serial, j, use[u][j].agent)
      BY DEF IdentityInv, UsesRecorded
    <3> QED
      BY <2>2, <2>3, <3>2, <3>3 DEF Recorded, CertsKept
  <2>5. Recorded(s, k, a)'
    <3>1. cert'[s] = [agent |-> a, spki |-> k, not_after |-> now + CertLife]
      BY <1>2, <2>1 DEF TypeOK
    <3>2. cert'[s] \in CertRow
      BY <1>2, <3>1, BoundsAssumption DEF CertRow, TypeOK, Time
    <3> QED
      BY <3>1, <3>2, NoRowAssumption DEF Recorded
  <2>6. /\ task'[h].token = None /\ task'[h].key = k
        /\ task'[h].agent = a /\ task'[h].serial = s
        /\ \A g \in Handlers \ {h} : task'[g] = task[g]
    BY <1>2, <2>0, <2>1, AnswerChanges DEF TypeOK
  <2>7. Recorded(task[h].serial, task[h].key, task[h].agent)'
    BY <2>5, <2>6 DEF Recorded
  <2>8. task'[h].token \notin Tokens
    BY <2>6, NoneAssumption
  <2> QED
    BY <1>1, <2>2, <2>3, <2>4, <2>6, <2>7, <2>8, IdentityFrame
<1>18. ASSUME NEW h \in Handlers, Respond(h) PROVE IdentityInv'
  <2>1. /\ \A g \in Handlers \ {h} : task'[g] = task[g]
        /\ task'[h].pc = "idle" /\ UNCHANGED <<cert, use>>
    BY <1>2, <1>18, FinishChanges DEF Respond, TypeOK
  <2>2. UsesRecorded' /\ AnswersFromUses'
    BY <2>1 DEF IdentityInv, UsesRecorded, AnswersFromUses, Recorded
  <2> DEFINE y == [token |-> task[h].token, key |-> task[h].key,
                   agent |-> task[h].agent, serial |-> task[h].serial]
  <2>3. handed' = handed \cup {y} /\ task[h].pc = "respond"
    BY <1>18 DEF Respond
  <2>4. /\ y.token = task[h].token /\ y.key = task[h].key
        /\ y.agent = task[h].agent /\ y.serial = task[h].serial
    OBVIOUS
  <2>5. /\ y.token \in Tokens =>
             use[y.token][y.key] = [agent |-> y.agent, serial |-> y.serial]
        /\ Recorded(y.serial, y.key, y.agent)
    BY <2>3, <2>4 DEF IdentityInv, AnswersFromUses
  <2> HIDE DEF y
  <2>6. HandedFromUses'
    BY <2>1, <2>3, <2>5 DEF IdentityInv, HandedFromUses
  <2>7. HandedIdentityIsRecorded'
    BY <2>1, <2>3, <2>5 DEF IdentityInv, HandedIdentityIsRecorded, Recorded
  <2> QED
    BY <1>1, <2>2, <2>6, <2>7 DEF IdentityInv
<1>19. ASSUME NEW h \in Handlers, Fail(h) PROVE IdentityInv'
  BY <1>9, <1>19 DEF Fail
<1>20. CASE UNCHANGED vars
  BY <1>4, <1>20 DEF vars
<1> QED
  BY <1>6, <1>7, <1>8, <1>11, <1>12, <1>13, <1>14, <1>15, <1>16, <1>17, <1>18,
     <1>19, <1>20
  DEF Next, Step

LEMMA IdentityHolds == Spec => []IdentityInv
<1>1. Init => IdentityInv
  BY IdentityInit
<1>2. IdentityInv /\ [Next]_vars => IdentityInv'
  BY IdentityStep
<1> QED
  BY <1>1, <1>2, PTL DEF Spec

(* Every identity a client ever receives, through enrollment or renewal,   *)
(* has a committed certificate row of its agent and key.                   *)
THEOREM HandedAreRecorded == Spec => []HandedIdentityIsRecorded
<1>1. IdentityInv => HandedIdentityIsRecorded
  BY DEF IdentityInv
<1> QED
  BY <1>1, IdentityHolds, PTL

(* Retries of a token and a key, after lost answers and between racing     *)
(* requests, are all answered with one agent and one certificate.          *)
THEOREM RetriesAgree == Spec => []OneIdentityPerTokenAndKey
<1>1. IdentityInv => OneIdentityPerTokenAndKey
  <2> SUFFICES ASSUME IdentityInv, NEW x \in handed, NEW y \in handed,
                      x.token # None, x.token = y.token, x.key = y.key
               PROVE  x.agent = y.agent /\ x.serial = y.serial
    BY DEF OneIdentityPerTokenAndKey
  <2>1. x.token \in Tokens
    BY DEF IdentityInv, TypeInv, TypeOK, Identity
  <2>2. [agent |-> x.agent, serial |-> x.serial]
          = [agent |-> y.agent, serial |-> y.serial]
    BY <2>1 DEF IdentityInv, HandedFromUses
  <2> QED
    BY <2>2
<1> QED
  BY <1>1, IdentityHolds, PTL
=============================================================================
