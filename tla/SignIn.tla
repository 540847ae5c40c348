------------------------------- MODULE SignIn -------------------------------
(***************************************************************************)
(* Console accounts: sign-in with a password or by single sign-on, the     *)
(* sessions it yields, a person's change of their own password, and what   *)
(* administrators do meanwhile: reset passwords, end sessions, disable and *)
(* enable accounts, give and take the Administrator role, switch single    *)
(* sign-on off.  Who signs in by single sign-on has the roles that their   *)
(* groups name; a daily cleanup takes them from who stays away.            *)
(*                                                                         *)
(* A sign-in reads the account, verifies the password outside any          *)
(* transaction, may rehash it, and only then creates the session: the      *)
(* steps are its statements that others can come between.  A wrong         *)
(* password only feeds the throttle, which is not modelled; nor are        *)
(* expiries, what other roles than Administrator allow, and the creation   *)
(* and deletion of accounts.                                               *)
(***************************************************************************)
EXTENDS Integers, FiniteSets

CONSTANTS
  Locals,    \* local accounts
  SsoPeople, \* accounts from the identity provider
  Browsers,  \* one request and one session cookie each
  MaxPw,     \* bound on the passwords of an account
  MaxGen,    \* bound on auth_generation
  None       \* NULL, no holder

Users == Locals \cup SsoPeople

ASSUME SignInAssumption ==
  /\ Locals \cap SsoPeople = {}
  /\ IsFiniteSet(Users)
  /\ Locals # {}  \* the account that setup creates
  /\ MaxPw \in Nat /\ MaxGen \in Nat
  /\ None \notin Users \cup Browsers

VARIABLES
  enabled,  \* console_users.enabled: the enabled accounts
  gen,      \* console_users.auth_generation
  pw,       \* console_credentials.password_phc: which password it is of
  outdated, \* the accounts whose hash has an old work factor
  admin,    \* the accounts with an active Administrator binding
  sso,      \* setting sso.enabled
  session,  \* table console_sessions: each browser's last, unless revoked
  req,      \* the browsers' requests
  cred,     \* the browser that holds each credential row FOR UPDATE
  jobs      \* administrators' requests between check and write, with
            \* ACCESS_BINDING_LOCK

accounts == <<enabled, gen, pw, outdated>>
roles == <<admin, jobs>>
vars == <<accounts, roles, sso, session, req, cred>>

(* A session with the generation it was created for, and the one that its  *)
(* sign-in read; a browser's request with what it still needs of what it   *)
(* has read.                                                               *)
Session == [user : Users, gen : 0 .. MaxGen, seen : 0 .. MaxGen]

Request ==
  [pc : {"idle", "verified", "share", "touch", "change", "swap", "assertion"},
   user : Users \cup {None}, gen : 0 .. MaxGen, pw : 0 .. MaxPw, old : BOOLEAN]

(* What a job will do: "void" once the binding it found has been ended by  *)
(* others.  As history, whether it was undercut: there was no enabled      *)
(* Administrator at its check, or one has lost the role outside the lock.  *)
Job == [op : {"disable", "demote", "void"}, user : Users, undercut : BOOLEAN]

NoRequest == [pc |-> "idle", user |-> None, gen |-> 0, pw |-> 0, old |-> FALSE]

TypeOK ==
  /\ enabled \subseteq Users
  /\ gen \in [Users -> 0 .. MaxGen]
  /\ pw \in [Locals -> 0 .. MaxPw]
  /\ outdated \subseteq Locals
  /\ admin \subseteq Users
  /\ sso \in BOOLEAN
  /\ session \in [Browsers -> Session \cup {None}]
  /\ req \in [Browsers -> Request]
  /\ cred \in [Locals -> Browsers \cup {None}]
  /\ jobs \subseteq Job

(* The local accounts are Administrators at first; the accounts of the     *)
(* identity provider become so when their groups say so.                   *)
Init ==
  /\ enabled = Users
  /\ gen = [u \in Users |-> 0]
  /\ pw = [u \in Locals |-> 0]
  /\ outdated \in SUBSET Locals
  /\ admin = Locals
  /\ sso = TRUE
  /\ session = [b \in Browsers |-> None]
  /\ req = [b \in Browsers |-> NoRequest]
  /\ cred = [u \in Locals |-> None]
  /\ jobs = {}

-----------------------------------------------------------------------------
(* session: what a cookie is accepted on. *)
Live(b) ==
  /\ session[b] # None
  /\ session[b].user \in enabled
  /\ session[b].gen = gen[session[b].user]

(* create_session holds the account's row FOR SHARE. *)
Shared(u) == \E b \in Browsers : req[b].pc = "touch" /\ req[b].user = u

(* The sessions once all of u's, but for a kept browser's, are revoked. *)
Revoked(u, kept) ==
  [b \in Browsers |->
     IF session[b] # None /\ session[b].user = u /\ b # kept
     THEN None
     ELSE session[b]]

Finish(b) == req' = [req EXCEPT ![b] = NoRequest]

-----------------------------------------------------------------------------
(* Sign-in with a password.                                                *)

(* login: the credential is read and its password verified; an outdated    *)
(* hash is to be upgraded first.                                           *)
ReadCredential(b) ==
  /\ req[b].pc = "idle"
  /\ \E u \in Locals \cap enabled :
       req' = [req EXCEPT ![b] =
                 IF u \in outdated
                 THEN [NoRequest EXCEPT !.pc = "verified", !.user = u,
                                        !.gen = gen[u], !.pw = pw[u]]
                 ELSE [NoRequest EXCEPT !.pc = "share", !.user = u,
                                        !.gen = gen[u]]]
  /\ UNCHANGED <<accounts, roles, sso, session, cred>>

(* rehash_password: an old hash is replaced by one of the password that    *)
(* was verified, once the row is free, if the generation is still the      *)
(* same; else the sign-in fails.                                           *)
Rehash(b) ==
  LET u == req[b].user
  IN  /\ req[b].pc = "verified"
      /\ cred[u] = None
      /\ IF u \in enabled /\ gen[u] = req[b].gen
         THEN /\ pw' = [pw EXCEPT ![u] = req[b].pw]
              /\ outdated' = outdated \ {u}
              /\ req' = [req EXCEPT ![b].pc = "share", ![b].pw = 0]
         ELSE /\ Finish(b)
              /\ UNCHANGED <<pw, outdated>>
      /\ UNCHANGED <<enabled, gen, roles, sso, session, cred>>

(* Faulty variant: the session takes whatever generation the account has. *)
ShareAnyGeneration(b) ==
  LET u == req[b].user
  IN  /\ req[b].pc = "share"
      /\ IF u \in enabled
         THEN req' = [req EXCEPT ![b].pc = "touch"]
         ELSE Finish(b)
      /\ UNCHANGED <<accounts, roles, sso, session, cred>>

(* create_session: the row is locked FOR SHARE and the session inserted if *)
(* the account is enabled and still has the generation that was read.      *)
Share(b) ==
  LET u == req[b].user
  IN  /\ req[b].pc = "share"
      /\ IF u \in enabled /\ gen[u] = req[b].gen
         THEN req' = [req EXCEPT ![b].pc = "touch"]
         ELSE Finish(b)
      /\ UNCHANGED <<accounts, roles, sso, session, cred>>

(* last_sign_in_at, which needs the row for itself; the browser's earlier  *)
(* session is revoked; the commit.                                         *)
Touch(b) ==
  LET u == req[b].user
  IN  /\ req[b].pc = "touch"
      /\ \A c \in Browsers \ {b} : ~(req[c].pc = "touch" /\ req[c].user = u)
      /\ session' = [session EXCEPT ![b] = [user |-> u, gen |-> gen[u],
                                            seen |-> req[b].gen]]
      /\ Finish(b)
      /\ UNCHANGED <<accounts, roles, sso, cred>>

(* Two sign-ins of one account share its row and both want to write it:    *)
(* the database ends one.                                                  *)
Deadlock(b) ==
  /\ req[b].pc = "touch"
  /\ \E c \in Browsers \ {b} : req[c].pc = "touch" /\ req[c].user = req[b].user
  /\ Finish(b)
  /\ UNCHANGED <<accounts, roles, sso, session, cred>>

(* revoke_session. *)
Logout(b) ==
  /\ Live(b)
  /\ session' = [session EXCEPT ![b] = None]
  /\ UNCHANGED <<accounts, roles, sso, req, cred>>

-----------------------------------------------------------------------------
(* A person changes their own password.                                    *)

(* change_password: the current password is verified. *)
ReadForChange(b) ==
  LET u == session[b].user
  IN  /\ req[b].pc = "idle"
      /\ Live(b)
      /\ u \in Locals
      /\ pw[u] < MaxPw
      /\ req' = [req EXCEPT ![b] = [pc |-> "change", user |-> u, gen |-> 0,
                                    pw |-> pw[u], old |-> u \in outdated]]
      /\ UNCHANGED <<accounts, roles, sso, session, cred>>

(* The account is disabled, the hash is not the verified one, or the       *)
(* session is over.                                                        *)
ChangeRefused(b) ==
  LET u == req[b].user
  IN  \/ u \notin enabled
      \/ <<pw[u], u \in outdated>> # <<req[b].pw, req[b].old>>
      \/ session[b] = None
      \/ session[b].user # u

(* Faulty variant: the refused change leaves its transaction open. *)
LockCredentialOpen(b) ==
  LET u == req[b].user
  IN  /\ req[b].pc = "change"
      /\ cred[u] = None
      /\ cred' = [cred EXCEPT ![u] = b]
      /\ IF ChangeRefused(b) THEN Finish(b)
         ELSE req' = [req EXCEPT ![b].pc = "swap"]
      /\ UNCHANGED <<accounts, roles, sso, session>>

(* change_own_password: the credential row is locked and compared. *)
LockCredential(b) ==
  LET u == req[b].user
  IN  /\ req[b].pc = "change"
      /\ cred[u] = None
      /\ IF ChangeRefused(b)
         THEN /\ Finish(b)
              /\ UNCHANGED cred
         ELSE /\ req' = [req EXCEPT ![b].pc = "swap"]
              /\ cred' = [cred EXCEPT ![u] = b]
      /\ UNCHANGED <<accounts, roles, sso, session>>

(* The new password, which is none that the account had before, and the    *)
(* end of the account's other sessions; the commit.                        *)
Swap(b) ==
  LET u == req[b].user
  IN  /\ req[b].pc = "swap"
      /\ ~Shared(u)
      /\ pw' = [pw EXCEPT ![u] = req[b].pw + 1]
      /\ outdated' = outdated \ {u}
      /\ session' = Revoked(u, b)
      /\ cred' = [cred EXCEPT ![u] = None]
      /\ Finish(b)
      /\ UNCHANGED <<enabled, gen, roles, sso>>

-----------------------------------------------------------------------------
(* Administrators.                                                         *)

(* Faulty variant: change_own_password locks nothing that this waits for. *)
ReplacePasswordAtOnce(u) ==
  /\ ~Shared(u)
  /\ pw[u] < MaxPw
  /\ gen[u] < MaxGen
  /\ pw' = [pw EXCEPT ![u] = @ + 1]
  /\ gen' = [gen EXCEPT ![u] = @ + 1]
  /\ outdated' = outdated \ {u}
  /\ session' = Revoked(u, None)
  /\ UNCHANGED <<enabled, roles, sso, req, cred>>

(* replace_password and reset_password: a new password, the next           *)
(* generation, no session.                                                 *)
ReplacePassword(u) ==
  /\ cred[u] = None
  /\ ~Shared(u)
  /\ pw[u] < MaxPw
  /\ gen[u] < MaxGen
  /\ pw' = [pw EXCEPT ![u] = @ + 1]
  /\ gen' = [gen EXCEPT ![u] = @ + 1]
  /\ outdated' = outdated \ {u}
  /\ session' = Revoked(u, None)
  /\ UNCHANGED <<enabled, roles, sso, req, cred>>

(* Faulty variant: the generation goes back. *)
RevokeSessionsBack(u) ==
  /\ ~Shared(u)
  /\ gen[u] < MaxGen
  /\ gen' = [gen EXCEPT ![u] = @ - 1]
  /\ session' = Revoked(u, None)
  /\ UNCHANGED <<enabled, pw, outdated, roles, sso, req, cred>>

(* revoke_user_sessions. *)
RevokeSessions(u) ==
  /\ ~Shared(u)
  /\ gen[u] < MaxGen
  /\ gen' = [gen EXCEPT ![u] = @ + 1]
  /\ session' = Revoked(u, None)
  /\ UNCHANGED <<enabled, pw, outdated, roles, sso, req, cred>>

(* enable_local_user. *)
Enable(u) ==
  /\ u \notin enabled
  /\ ~Shared(u)
  /\ enabled' = enabled \cup {u}
  /\ UNCHANGED <<gen, pw, outdated, roles, sso, session, req, cred>>

(* enabled_administrators. *)
Administrators == admin \cap enabled

LastAdministrator(u) == u \in Administrators /\ Cardinality(Administrators) <= 1

(* Faulty variant: the guards do not exclude one another. *)
CheckUnlocked ==
  \E op \in {"disable", "demote"}, u \in Users :
    /\ IF op = "disable" THEN u \in enabled ELSE u \in admin
    /\ ~LastAdministrator(u)
    /\ jobs' = jobs \cup {[op |-> op, user |-> u,
                           undercut |-> Administrators = {}]}
    /\ UNCHANGED <<accounts, admin, sso, session, req, cred>>

(* disable_local_user, remove_role: under ACCESS_BINDING_LOCK, never the   *)
(* last enabled Administrator.                                             *)
Check ==
  \E op \in {"disable", "demote"}, u \in Users :
    /\ jobs = {}
    /\ IF op = "disable" THEN u \in enabled ELSE u \in admin
    /\ ~LastAdministrator(u)
    /\ jobs' = {[op |-> op, user |-> u, undercut |-> Administrators = {}]}
    /\ UNCHANGED <<accounts, admin, sso, session, req, cred>>

(* disable_local_user: the next generation, no session; the commit. *)
Disable(j) ==
  /\ j.op = "disable"
  /\ ~Shared(j.user)
  /\ gen[j.user] < MaxGen
  /\ enabled' = enabled \ {j.user}
  /\ gen' = [gen EXCEPT ![j.user] = @ + 1]
  /\ session' = Revoked(j.user, None)
  /\ jobs' = jobs \ {j}
  /\ UNCHANGED <<pw, outdated, admin, sso, req, cred>>

(* remove_role: the binding that was found ends; the commit. *)
RemoveRole(j) ==
  /\ j.op = "demote"
  /\ admin' = admin \ {j.user}
  /\ jobs' = jobs \ {j}
  /\ UNCHANGED <<accounts, sso, session, req, cred>>

(* The request fails after the check and its transaction rolls back, or    *)
(* its binding has ended already.                                          *)
Rollback(j) ==
  /\ jobs' = jobs \ {j}
  /\ UNCHANGED <<accounts, admin, sso, session, req, cred>>

(* give_role, in one step under ACCESS_BINDING_LOCK; the console refuses   *)
(* it for the people of the identity provider.                             *)
GiveRole(u) ==
  /\ jobs = {}
  /\ u \notin admin
  /\ admin' = admin \cup {u}
  /\ UNCHANGED <<accounts, jobs, sso, session, req, cred>>

-----------------------------------------------------------------------------
(* Single sign-on.                                                         *)

(* acs: the settings are read and the answer verified. *)
ReadSettings(b) ==
  /\ req[b].pc = "idle"
  /\ sso
  /\ \E u \in SsoPeople :
       req' = [req EXCEPT ![b] = [NoRequest EXCEPT !.pc = "assertion",
                                                   !.user = u]]
  /\ UNCHANGED <<accounts, roles, sso, session, cred>>

(* A person's Administrator binding, if any, ends outside the lock: it     *)
(* waits for no job, and a job that found the binding ends no later one.   *)
LoseRole(u) ==
  /\ admin' = admin \ {u}
  /\ jobs' = {[j EXCEPT !.op = IF @ = "demote" /\ j.user = u THEN "void" ELSE @,
                       !.undercut = @ \/ u \in Administrators] : j \in jobs}

(* console_sso::sign_in: unless the answer was seen before or the account  *)
(* is disabled, the roles from the identity provider follow its groups,    *)
(* which name Administrator, other roles, or none, and then nobody signs   *)
(* in; the generation is read, the row being held.                         *)
SsoSignIn(b) ==
  LET u == req[b].user
  IN  /\ req[b].pc = "assertion"
      /\ ~Shared(u)
      /\ \/ /\ Finish(b)
            /\ UNCHANGED roles
         \/ /\ u \in enabled
            /\ \E groups \in SUBSET {"admin", "other"} :
                 /\ IF "admin" \in groups
                    THEN /\ admin' = admin \cup {u}
                         /\ UNCHANGED jobs
                    ELSE LoseRole(u)
                 /\ IF groups = {}
                    THEN Finish(b)
                    ELSE req' = [req EXCEPT ![b].pc = "share",
                                            ![b].gen = gen[u]]
      /\ UNCHANGED <<accounts, sso, session, cred>>

(* clean: a person who was found idle, and whom cases or alarms still      *)
(* mention, loses every role and session.                                  *)
Clean(u) ==
  /\ LoseRole(u)
  /\ session' = Revoked(u, None)
  /\ UNCHANGED <<accounts, sso, req, cred>>

(* set, reset: end_sso_sessions when the setting goes from on to off. *)
SwitchOff ==
  /\ sso
  /\ sso' = FALSE
  /\ session' = [b \in Browsers |->
                   IF session[b] # None /\ session[b].user \in SsoPeople
                   THEN None
                   ELSE session[b]]
  /\ UNCHANGED <<accounts, roles, req, cred>>

SwitchOn ==
  /\ ~sso
  /\ sso' = TRUE
  /\ UNCHANGED <<accounts, roles, session, req, cred>>

-----------------------------------------------------------------------------
Step(b) ==
  \/ Rehash(b) \/ Share(b) \/ Touch(b) \/ Deadlock(b)
  \/ LockCredential(b) \/ Swap(b) \/ SsoSignIn(b)

Next ==
  \/ \E b \in Browsers :
       \/ ReadCredential(b) \/ ReadForChange(b) \/ ReadSettings(b) \/ Logout(b)
       \/ Step(b)
  \/ \E u \in Users : RevokeSessions(u) \/ Enable(u)
  \/ \E u \in Locals : ReplacePassword(u) \/ GiveRole(u)
  \/ \E u \in SsoPeople : Clean(u)
  \/ Check
  \/ \E j \in jobs : Disable(j) \/ RemoveRole(j) \/ Rollback(j)
  \/ SwitchOff \/ SwitchOn

Spec == Init /\ [][Next]_vars

(* A handler runs on, and the database serves who waits for a row. *)
FairSpec == Spec /\ \A b \in Browsers : SF_vars(Step(b))

-----------------------------------------------------------------------------
(* create_session makes a session "only if the enabled account still has   *)
(* the generation whose password was just verified", and resets advance    *)
(* it: a session that is accepted comes from a sign-in that read the       *)
(* account after its last reset, end of sessions or disabling.             *)
ResetEndsSignIns ==
  \A b \in Browsers : Live(b) => session[b].seen = gen[session[b].user]

(* disable_local_user and remove_role, "never the last enabled             *)
(* Administrator", however the requests race: the last one is lost only    *)
(* outside the lock, by a single sign-on or the cleanup, which no guard    *)
(* holds back, or by a request that one of them undercut after its check.  *)
AdministratorRemains ==
  [][Administrators # {} /\ Administrators' = {} =>
       \/ \E u \in SsoPeople : LoseRole(u)
       \/ \E j \in jobs : j.undercut]_vars

(* change_own_password is "a compare-and-swap": the password it replaces   *)
(* is the one that was verified, so "of two concurrent changes with the    *)
(* same current password, one wins".                                       *)
OneChangeWins ==
  [][\A b \in Browsers :
       req[b].pc = "swap" /\ req'[b].pc = "idle"
         => req[b].pw = pw[req[b].user]]_vars

(* Sign-ins and password changes that wait for rows of one account end:    *)
(* "two concurrent changes by one user queue on it instead of              *)
(* deadlocking".                                                           *)
RequestsEnd ==
  \A b \in Browsers : (req[b].pc # "idle") ~> (req[b].pc = "idle")
=============================================================================
