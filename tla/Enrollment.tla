---------------------------- MODULE Enrollment ----------------------------
(***************************************************************************)
(* Agent identities: enrollment tokens, POST /v1/enroll, POST /v1/renew,   *)
(* and revocation of tokens and agents.                                    *)
(*                                                                         *)
(* Every handler is a task of openvibes-ingest.  PostgreSQL runs at READ   *)
(* COMMITTED, so a statement is one atomic step that sees what was         *)
(* committed before it; the writes of a transaction appear together at its *)
(* commit.  The administrator's commands are single statements that take   *)
(* no advisory lock and may fall between any two steps of a handler.       *)
(***************************************************************************)
EXTENDS Naturals, FiniteSets

CONSTANTS
  Tokens,      \* enrollment token ids
  Keys,        \* public keys (spki_sha256) agents present in their CSRs
  Agents,      \* ids gen_random_uuid() may return
  Serials,     \* certificate serials random_serial() may return
  Handlers,    \* concurrent ingest requests
  MaxUses,     \* bound on a token's max_uses
  MaxTime,     \* bound on the clock
  CertLife,    \* client_certificate_days
  MaxRenewals, \* bound on renewed certificates
  None

ASSUME NoneAssumption ==
  None \notin Agents \cup Serials \cup Keys \cup Tokens \cup Handlers

ASSUME BoundsAssumption ==
  /\ IsFiniteSet(Keys)
  /\ MaxUses \in Nat \ {0}
  /\ MaxTime \in Nat
  /\ CertLife \in Nat
  /\ MaxRenewals \in Nat

VARIABLES
  now,       \* the platform's clock
  token,     \* table enrollment_tokens
  agent,     \* agents.status, "absent" when there is no row
  cert,      \* table certificates, by serial
  use,       \* table token_uses, by (token_id, spki_sha256)
  lock,      \* pg_advisory_xact_lock(hashtext(token_id)): its holder
  task,      \* the local state of each ingest request
  handed     \* identities that reached a client (token, key, agent, serial)

vars == <<now, token, agent, cert, use, lock, task, handed>>

Time == 0 .. MaxTime

TokenRow ==
  [state : {"absent", "live", "revoked"}, expires : Time,
   max_uses : 1 .. MaxUses, standing : BOOLEAN]

CertRow == [agent : Agents, spki : Keys, not_after : Nat]

UseRow == [agent : Agents, serial : Serials]

ASSUME NoRowAssumption == None \notin CertRow \cup UseRow

(* pc names the statement the request runs next; at is the now the handler *)
(* reads once on arrival and uses in every later comparison.               *)
Pc == {"idle", "lookup", "lock", "existing", "validate", "insert",
       "authenticate", "renew", "respond"}

TaskState ==
  [pc : Pc, token : Tokens \cup {None}, key : Keys \cup {None}, at : Time,
   agent : Agents \cup {None}, serial : Serials \cup {None}]

Identity == [token : Tokens \cup {None}, key : Keys, agent : Agents,
             serial : Serials]

TypeOK ==
  /\ now \in Time
  /\ token \in [Tokens -> TokenRow]
  /\ agent \in [Agents -> {"absent", "active", "revoked"}]
  /\ cert \in [Serials -> CertRow \cup {None}]
  /\ use \in [Tokens -> [Keys -> UseRow \cup {None}]]
  /\ lock \in [Tokens -> Handlers \cup {None}]
  /\ task \in [Handlers -> TaskState]
  /\ handed \in SUBSET Identity

IdleTask == [pc |-> "idle", token |-> None, key |-> None, at |-> 0,
             agent |-> None, serial |-> None]

Init ==
  /\ now = 0
  /\ token = [t \in Tokens |-> [state |-> "absent", expires |-> 0,
                                max_uses |-> 1, standing |-> FALSE]]
  /\ agent = [a \in Agents |-> "absent"]
  /\ cert = [s \in Serials |-> None]
  /\ use = [t \in Tokens |-> [k \in Keys |-> None]]
  /\ lock = [t \in Tokens |-> None]
  /\ task = [h \in Handlers |-> IdleTask]
  /\ handed = {}

---------------------------------------------------------------------------
(* Helpers *)

UsedKeys(t) == {k \in Keys : use[t][k] # None}

(* The check both the handler (before the lock) and the transaction (under *)
(* the lock) make, with the time read when the request arrived.            *)
TokenValid(t, at) ==
  /\ token[t].state = "live"
  /\ token[t].standing \/ token[t].expires > at

Goto(h, pc) == task' = [task EXCEPT ![h].pc = pc]

(* The identity the request will answer with. *)
Answer(h, a, s) ==
  task' = [task EXCEPT ![h] =
             [@ EXCEPT !.pc = "respond", !.agent = a, !.serial = s]]

(* The agent a presented certificate belongs to. *)
Authenticated(h, a) ==
  task' = [task EXCEPT ![h] = [@ EXCEPT !.pc = "renew", !.agent = a]]

(* Faulty variant: a session lock, which outlives the transaction. *)
ReleaseNever(h) == UNCHANGED lock

(* The end of a transaction, committed or rolled back, frees its lock. *)
Release(h) ==
  lock' = [t \in Tokens |-> IF lock[t] = h THEN None ELSE lock[t]]

(* Any refusal (401, 400, 403) or error (503): the request is over. *)
Finish(h) == task' = [task EXCEPT ![h] = IdleTask]

---------------------------------------------------------------------------
(* Administrator: openvibes-admin token, agent, and the console *)

CreateToken(t) ==
  /\ token[t].state = "absent"
  /\ \E max \in 1 .. MaxUses, exp \in Time :
       /\ exp > now
       /\ token' = [token EXCEPT ![t] =
            [state |-> "live", expires |-> exp, max_uses |-> max,
             standing |-> FALSE]]
  /\ UNCHANGED <<now, agent, cert, use, lock, task, handed>>

(* INSERT ... ON CONFLICT ((true)) WHERE standing AND revoked_at IS NULL   *)
(* DO NOTHING: a live standing token makes this a no-op.                   *)
CreateStanding(t) ==
  /\ token[t].state = "absent"
  /\ \A u \in Tokens : ~ (token[u].standing /\ token[u].state = "live")
  /\ token' = [token EXCEPT ![t] =
       [state |-> "live", expires |-> MaxTime, max_uses |-> MaxUses,
        standing |-> TRUE]]
  /\ UNCHANGED <<now, agent, cert, use, lock, task, handed>>

RevokeToken(t) ==
  /\ token[t].state = "live"
  /\ token' = [token EXCEPT ![t].state = "revoked"]
  /\ UNCHANGED <<now, agent, cert, use, lock, task, handed>>

RevokeAgent(a) ==
  /\ agent[a] = "active"
  /\ agent' = [agent EXCEPT ![a] = "revoked"]
  /\ UNCHANGED <<now, token, cert, use, lock, task, handed>>

Tick ==
  /\ now < MaxTime
  /\ now' = now + 1
  /\ UNCHANGED <<token, agent, cert, use, lock, task, handed>>

---------------------------------------------------------------------------
(* POST /v1/enroll *)

EnrollRequest(h, t, k) ==
  /\ task[h].pc = "idle"
  /\ task' = [task EXCEPT ![h] =
       [IdleTask EXCEPT !.pc = "lookup", !.token = t, !.key = k, !.at = now]]
  /\ UNCHANGED <<now, token, agent, cert, use, lock, handed>>

(* ingest::token_by_hash and the filter on its row; the CSR check follows, *)
(* so a bad CSR ends the request here too (the Fail action).               *)
TokenByHash(h) ==
  /\ task[h].pc = "lookup"
  /\ IF TokenValid(task[h].token, task[h].at)
     THEN Goto(h, "lock")
     ELSE Finish(h)
  /\ UNCHANGED <<now, token, agent, cert, use, lock, handed>>

(* Faulty variant: no lock is awaited. *)
LockTokenUnguarded(h) ==
  /\ task[h].pc = "lock"
  /\ lock' = [lock EXCEPT ![task[h].token] = h]
  /\ Goto(h, "existing")
  /\ UNCHANGED <<now, token, agent, cert, use, handed>>

LockToken(h) ==
  /\ task[h].pc = "lock"
  /\ lock[task[h].token] = None
  /\ lock' = [lock EXCEPT ![task[h].token] = h]
  /\ Goto(h, "existing")
  /\ UNCHANGED <<now, token, agent, cert, use, handed>>

(* The retry rule: the same token and key return the stored identity,      *)
(* unless its agent has been revoked since.                                *)
FindExisting(h) ==
  LET row == use[task[h].token][task[h].key] IN
  /\ task[h].pc = "existing"
  /\ \/ /\ row = None
        /\ Goto(h, "validate")
        /\ UNCHANGED lock
     \/ /\ row # None
        /\ agent[row.agent] = "revoked"
        /\ Finish(h)
        /\ Release(h)
     \/ /\ row # None
        /\ agent[row.agent] # "revoked"
        /\ Answer(h, row.agent, row.serial)
        /\ Release(h)
  /\ UNCHANGED <<now, token, agent, cert, use, handed>>

(* One SELECT reads the number of uses and the token's validity. *)
Validate(h) ==
  LET t == task[h].token IN
  /\ task[h].pc = "validate"
  /\ IF /\ TokenValid(t, task[h].at)
        /\ token[t].standing \/ Cardinality(UsedKeys(t)) < token[t].max_uses
     THEN Goto(h, "insert") /\ UNCHANGED lock
     ELSE Finish(h) /\ Release(h)
  /\ UNCHANGED <<now, token, agent, cert, use, handed>>

(* Faulty variant: the use of the token is not recorded. *)
InsertWithoutUse(h) ==
  /\ task[h].pc = "insert"
  /\ \E a \in Agents, s \in Serials :
       /\ agent[a] = "absent"
       /\ cert[s] = None
       /\ agent' = [agent EXCEPT ![a] = "active"]
       /\ cert' = [cert EXCEPT ![s] = [agent |-> a, spki |-> task[h].key,
                                       not_after |-> now + CertLife]]
       /\ Answer(h, a, s)
  /\ Release(h)
  /\ UNCHANGED <<now, token, use, handed>>

(* issue(), the four INSERTs and the commit. *)
InsertIdentity(h) ==
  LET t == task[h].token
      k == task[h].key IN
  /\ task[h].pc = "insert"
  /\ use[t][k] = None
  /\ \E a \in Agents, s \in Serials :
       /\ agent[a] = "absent"
       /\ cert[s] = None
       /\ agent' = [agent EXCEPT ![a] = "active"]
       /\ cert' = [cert EXCEPT ![s] = [agent |-> a, spki |-> k,
                                       not_after |-> now + CertLife]]
       /\ use' = [use EXCEPT ![t][k] = [agent |-> a, serial |-> s]]
       /\ Answer(h, a, s)
  /\ Release(h)
  /\ UNCHANGED <<now, token, handed>>

---------------------------------------------------------------------------
(* POST /v1/renew *)

(* Renewed certificates, recorded or being asked for: what MaxRenewals     *)
(* bounds, so that a serial is always left for an enrollment.              *)
Renewals ==
  Cardinality({s \in Serials :
     /\ cert[s] # None
     /\ \A t \in Tokens, k \in Keys :
          use[t][k] # None => use[t][k].serial # s})
  + Cardinality({h \in Handlers : task[h].pc \in {"authenticate", "renew"}})

(* A client presents a certificate chained to the platform's CA with the   *)
(* key it was issued for, and asks for a new key k.                        *)
RenewRequest(h, s, k) ==
  /\ task[h].pc = "idle"
  /\ Renewals < MaxRenewals
  /\ cert[s] # None
  /\ task' = [task EXCEPT ![h] =
       [IdleTask EXCEPT !.pc = "authenticate", !.key = k, !.serial = s,
                        !.at = now]]
  /\ UNCHANGED <<now, token, agent, cert, use, lock, handed>>

(* Faulty variant: the agent of the certificate is not carried along. *)
AuthenticateAnonymously(h) ==
  /\ task[h].pc = "authenticate"
  /\ Goto(h, "renew")
  /\ UNCHANGED <<now, token, agent, cert, use, lock, handed>>

(* Active and not expired passes; an expired certificate of an active      *)
(* agent is 401, a revoked agent 403.                                      *)
Authenticate(h) ==
  LET row == cert[task[h].serial] IN
  /\ task[h].pc = "authenticate"
  /\ IF agent[row.agent] = "active" /\ now < row.not_after
     THEN Authenticated(h, row.agent)
     ELSE Finish(h)
  /\ UNCHANGED <<now, token, agent, cert, use, lock, handed>>

(* Faulty variant: the answer is sent but the certificate is not stored. *)
AddNoCertificate(h) ==
  /\ task[h].pc = "renew"
  /\ \E s \in Serials : cert[s] = None /\ Answer(h, task[h].agent, s)
  /\ UNCHANGED <<now, token, agent, cert, use, lock, handed>>

(* issue() and add_certificate: one INSERT outside any transaction. *)
AddCertificate(h) ==
  /\ task[h].pc = "renew"
  /\ \E s \in Serials :
       /\ cert[s] = None
       /\ cert' = [cert EXCEPT ![s] =
            [agent |-> task[h].agent, spki |-> task[h].key,
             not_after |-> now + CertLife]]
       /\ Answer(h, task[h].agent, s)
  /\ UNCHANGED <<now, token, agent, use, lock, handed>>

---------------------------------------------------------------------------
(* Both endpoints *)

Respond(h) ==
  /\ task[h].pc = "respond"
  /\ handed' = handed \cup {[token |-> task[h].token, key |-> task[h].key,
                             agent |-> task[h].agent,
                             serial |-> task[h].serial]}
  /\ Finish(h)
  /\ UNCHANGED <<now, token, agent, cert, use, lock>>

(* A bad CSR, a database error, a dropped connection or a lost answer: the *)
(* open transaction rolls back and the client hears nothing it can use.    *)
Fail(h) ==
  /\ task[h].pc # "idle"
  /\ Finish(h)
  /\ Release(h)
  /\ UNCHANGED <<now, token, agent, cert, use, handed>>

Step(h) ==
  \/ TokenByHash(h)
  \/ LockToken(h)
  \/ FindExisting(h)
  \/ Validate(h)
  \/ InsertIdentity(h)
  \/ Authenticate(h)
  \/ AddCertificate(h)
  \/ Respond(h)

Admin ==
  \/ \E t \in Tokens : CreateToken(t) \/ CreateStanding(t) \/ RevokeToken(t)
  \/ \E a \in Agents : RevokeAgent(a)
  \/ Tick

Next ==
  \/ Admin
  \/ \E h \in Handlers :
       \/ \E t \in Tokens, k \in Keys : EnrollRequest(h, t, k)
       \/ \E s \in Serials, k \in Keys : RenewRequest(h, s, k)
       \/ Step(h)
       \/ Fail(h)

Spec == Init /\ [][Next]_vars

(* tokio runs every ready task and PostgreSQL queues the waiters of an     *)
(* advisory lock in order, so a waiter is not overtaken for ever.          *)
Fairness ==
  \A h \in Handlers : WF_vars(Step(h)) /\ SF_vars(LockToken(h))

FairSpec == Spec /\ Fairness

---------------------------------------------------------------------------
(* Properties *)

(* A token that is not standing never yields more identities than its      *)
(* max_uses, whatever requests race for its last use.                      *)
UsesWithinLimit ==
  \A t \in Tokens :
    token[t].standing \/ Cardinality(UsedKeys(t)) <= token[t].max_uses

(* A retry with the same token and key gets the identity of the first      *)
(* answer: no token and key ever name two agents, lost answers included.   *)
OneIdentityPerTokenAndKey ==
  \A x, y \in handed :
    x.token # None /\ x.token = y.token /\ x.key = y.key
      => x.agent = y.agent /\ x.serial = y.serial

(* An answer is only given for rows that are committed: every identity a   *)
(* client holds has a certificate recorded under its serial, key and agent *)
(* so that the client can authenticate with it.                            *)
HandedIdentityIsRecorded ==
  \A x \in handed :
    /\ cert[x.serial] # None
    /\ cert[x.serial].agent = x.agent
    /\ cert[x.serial].spki = x.key

(* A request that waits for the token's lock is eventually over: every way *)
(* out of the transaction frees the lock for the others.                   *)
WaitersAreServed ==
  \A h \in Handlers : task[h].pc = "lock" ~> task[h].pc = "idle"
===========================================================================
