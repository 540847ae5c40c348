------------------------ MODULE SignInMatchingProofs ------------------------
(***************************************************************************)
(* The safety properties of SignIn, for any numbers of accounts, browsers  *)
(* and administrators' requests; and those of Matching, for any numbers of *)
(* hosts, packages, reports, feeds and faults.  The two have no parameter, *)
(* variable or definition in common.                                       *)
(***************************************************************************)
EXTENDS SignIn, Matching, FiniteSetTheorems, TLAPS

-----------------------------------------------------------------------------
(* SignIn *)

(* What a request has by the statement it has reached. *)
RequestsTyped ==
  \A b \in Browsers :
    /\ req[b].pc \in {"share", "touch"} => req[b].user \in Users
    /\ req[b].pc = "assertion" => req[b].user \in SsoPeople
    /\ req[b].pc = "verified" => req[b].user \in Locals
    /\ req[b].pc \in {"change", "swap"} =>
         req[b].user \in Locals /\ req[b].pw < MaxPw

TypeInv == TypeOK /\ RequestsTyped

(* While create_session holds the row FOR SHARE, the generation that the   *)
(* sign-in read is the account's, so the session gets that one.            *)
SharedIsCurrent ==
  \A b \in Browsers : req[b].pc = "touch" => req[b].gen = gen[req[b].user]

SessionsAsRead ==
  \A b \in Browsers : session[b] # None => session[b].seen = session[b].gen

(* Between the comparison and the swap, the credential's row is held and   *)
(* stays as it was compared.                                               *)
SwapHolds ==
  \A b \in Browsers : req[b].pc = "swap" =>
    cred[req[b].user] = b /\ pw[req[b].user] = req[b].pw

SessionInv == SharedIsCurrent /\ SessionsAsRead /\ SwapHolds

(* A job past its check is alone, and an enabled Administrator other than  *)
(* its account remains, unless it was undercut.                            *)
AdminInv ==
  \A j \in jobs :
    /\ jobs = {j}
    /\ j.undercut \/ \E u \in Administrators : u # j.user

SignInInv == TypeInv /\ SessionInv /\ AdminInv

-------------------------------------------------------------------------------
(* Facts that several steps need.                                          *)

LEMMA NoRequestType == NoRequest \in Request
BY SignInAssumption DEF NoRequest, Request

(* What leaves the accounts' roles and states alone keeps Administrators. *)
LEMMA AdminKept ==
  ASSUME AdminInv, UNCHANGED <<enabled, admin, jobs>>
  PROVE  AdminInv'
BY DEF AdminInv, Administrators

(* More Administrators do no harm. *)
LEMMA AdminGrows ==
  ASSUME AdminInv, UNCHANGED jobs, Administrators \subseteq Administrators'
  PROVE  AdminInv'
BY DEF AdminInv

(* A request that ends, the rest of its browser's state being as it was. *)
LEMMA FinishTyped ==
  ASSUME TypeInv, NEW b \in Browsers, Finish(b)
  PROVE  /\ req' \in [Browsers -> Request]
         /\ req'[b] = NoRequest
         /\ \A c \in Browsers \ {b} : req'[c] = req[c]
         /\ RequestsTyped'
<1>1. /\ req' \in [Browsers -> Request]
      /\ req'[b] = NoRequest
      /\ \A c \in Browsers \ {b} : req'[c] = req[c]
  BY NoRequestType DEF Finish, TypeInv, TypeOK
<1> QED
  BY <1>1 DEF TypeInv, RequestsTyped, NoRequest

(* Revoking sessions leaves every other session as it was. *)
LEMMA RevokedSessions ==
  ASSUME TypeInv, NEW u, NEW kept, session' = Revoked(u, kept)
  PROVE  /\ session' \in [Browsers -> Session \cup {None}]
         /\ \A b \in Browsers : session'[b] = session[b] \/ session'[b] = None
BY DEF TypeInv, TypeOK, Revoked

-------------------------------------------------------------------------------
LEMMA InitInv == Init => SignInInv
<1> SUFFICES ASSUME Init PROVE SignInInv
  OBVIOUS
<1>1. TypeOK
  <2>1. req \in [Browsers -> Request]
    BY NoRequestType DEF Init
  <2>2. /\ gen \in [Users -> 0 .. MaxGen]
        /\ pw \in [Locals -> 0 .. MaxPw]
    BY SignInAssumption DEF Init
  <2> QED
    BY <2>1, <2>2 DEF Init, TypeOK, Users
<1>2. RequestsTyped /\ SessionInv
  BY DEF Init, NoRequest, RequestsTyped, SessionInv, SharedIsCurrent,
     SessionsAsRead, SwapHolds
<1>3. AdminInv
  BY DEF Init, AdminInv
<1> QED
  BY <1>1, <1>2, <1>3 DEF SignInInv, TypeInv

-------------------------------------------------------------------------------
(* Sign-in with a password.                                                *)

LEMMA ReadCredentialInv ==
  ASSUME SignInInv, NEW b \in Browsers, ReadCredential(b)
  PROVE  SignInInv'
<1>1. PICK u \in Locals \cap enabled :
        req' = [req EXCEPT ![b] =
                 IF u \in outdated
                 THEN [NoRequest EXCEPT !.pc = "verified", !.user = u,
                                        !.gen = gen[u], !.pw = pw[u]]
                 ELSE [NoRequest EXCEPT !.pc = "share", !.user = u,
                                        !.gen = gen[u]]]
  BY DEF ReadCredential
<1>2. UNCHANGED <<enabled, gen, pw, outdated, admin, jobs, sso,
                  session, cred>>
  BY DEF ReadCredential, accounts, roles
<1> DEFINE r == IF u \in outdated
                THEN [NoRequest EXCEPT !.pc = "verified", !.user = u,
                                       !.gen = gen[u], !.pw = pw[u]]
                ELSE [NoRequest EXCEPT !.pc = "share", !.user = u,
                                       !.gen = gen[u]]
<1>3. /\ r \in Request
      /\ r.pc \in {"verified", "share"} /\ r.user \in Locals
  <2>1. u \in Users /\ gen[u] \in 0 .. MaxGen /\ pw[u] \in 0 .. MaxPw
    BY DEF SignInInv, TypeInv, TypeOK, Users
  <2> QED
    BY <2>1, NoRequestType DEF Request
<1>4. /\ req' \in [Browsers -> Request]
      /\ req'[b] = r
      /\ \A c \in Browsers \ {b} : req'[c] = req[c]
  BY <1>1, <1>3 DEF SignInInv, TypeInv, TypeOK
<1> HIDE DEF r
<1>5. TypeInv'
  BY <1>2, <1>3, <1>4 DEF SignInInv, TypeInv, TypeOK, RequestsTyped, Users
<1>6. SessionInv'
  BY <1>2, <1>3, <1>4 DEF SignInInv, SessionInv, SharedIsCurrent,
     SessionsAsRead, SwapHolds
<1> QED
  BY <1>2, <1>5, <1>6, AdminKept DEF SignInInv

LEMMA RehashInv ==
  ASSUME SignInInv, NEW b \in Browsers, Rehash(b)
  PROVE  SignInInv'
<1> DEFINE u == req[b].user
<1>1. /\ req[b].pc = "verified" /\ cred[u] = None
      /\ UNCHANGED <<enabled, gen, admin, jobs, sso, session, cred>>
  BY DEF Rehash, roles
<1>2. u \in Locals /\ req[b].pw \in 0 .. MaxPw
  BY <1>1 DEF SignInInv, TypeInv, RequestsTyped, TypeOK, Request
<1>3. \A c \in Browsers : req[c].pc = "swap" => req[c].user # u
  BY <1>1, SignInAssumption DEF SignInInv, SessionInv, SwapHolds
<1>4. AdminInv'
  BY <1>1, AdminKept DEF SignInInv
<1>5. CASE u \in enabled /\ gen[u] = req[b].gen
  <2>1. /\ pw' = [pw EXCEPT ![u] = req[b].pw]
        /\ outdated' = outdated \ {u}
        /\ req' = [req EXCEPT ![b].pc = "share", ![b].pw = 0]
    BY <1>5 DEF Rehash
  <2>2. /\ req' \in [Browsers -> Request]
        /\ req'[b].pc = "share" /\ req'[b].user = u
        /\ \A c \in Browsers \ {b} : req'[c] = req[c]
    <3>1. req \in [Browsers -> Request] /\ 0 \in 0 .. MaxPw
      BY SignInAssumption DEF SignInInv, TypeInv, TypeOK
    <3> QED
      BY <2>1, <3>1 DEF Request
  <2>3. /\ pw' \in [Locals -> 0 .. MaxPw]
        /\ \A v \in Locals \ {u} : pw'[v] = pw[v]
    BY <1>2, <2>1 DEF SignInInv, TypeInv, TypeOK
  <2>4. TypeInv'
    BY <1>1, <1>2, <2>1, <2>2, <2>3 DEF SignInInv, TypeInv, TypeOK,
       RequestsTyped, Users
  <2>5. SessionInv'
    BY <1>1, <1>3, <2>2, <2>3 DEF SignInInv, TypeInv, RequestsTyped,
       SessionInv, SharedIsCurrent, SessionsAsRead, SwapHolds
  <2> QED
    BY <1>4, <2>4, <2>5 DEF SignInInv
<1>6. CASE ~(u \in enabled /\ gen[u] = req[b].gen)
  <2>1. Finish(b) /\ UNCHANGED <<pw, outdated>>
    BY <1>6 DEF Rehash
  <2>2. /\ req' \in [Browsers -> Request] /\ RequestsTyped'
        /\ req'[b] = NoRequest
        /\ \A c \in Browsers \ {b} : req'[c] = req[c]
    BY <2>1, FinishTyped DEF SignInInv
  <2>3. TypeInv'
    BY <1>1, <2>1, <2>2 DEF SignInInv, TypeInv, TypeOK
  <2>4. SessionInv'
    BY <1>1, <2>1, <2>2 DEF SignInInv, SessionInv, SharedIsCurrent,
       SessionsAsRead, SwapHolds, NoRequest
  <2> QED
    BY <1>4, <2>3, <2>4 DEF SignInInv
<1> QED
  BY <1>5, <1>6

LEMMA ShareInv ==
  ASSUME SignInInv, NEW b \in Browsers, Share(b)
  PROVE  SignInInv'
<1> DEFINE u == req[b].user
<1>1. /\ req[b].pc = "share"
      /\ UNCHANGED <<enabled, gen, pw, outdated, admin, jobs, sso,
                     session, cred>>
  BY DEF Share, accounts, roles
<1>2. /\ req' \in [Browsers -> Request]
      /\ \A c \in Browsers \ {b} : req'[c] = req[c]
      /\ \/ req'[b].pc = "idle"
         \/ /\ req'[b].pc = "touch" /\ req'[b].user = u
            /\ req'[b].gen = req[b].gen /\ req[b].gen = gen[u]
  <2>1. CASE u \in enabled /\ gen[u] = req[b].gen
    <3>1. req' = [req EXCEPT ![b].pc = "touch"]
      BY <2>1 DEF Share
    <3> QED
      BY <2>1, <3>1 DEF SignInInv, TypeInv, TypeOK, Request
  <2>2. CASE ~(u \in enabled /\ gen[u] = req[b].gen)
    <3>1. Finish(b)
      BY <2>2 DEF Share
    <3> QED
      BY <3>1, FinishTyped DEF SignInInv, NoRequest
  <2> QED
    BY <2>1, <2>2
<1>3. TypeInv'
  BY <1>1, <1>2 DEF SignInInv, TypeInv, TypeOK, RequestsTyped
<1>4. SessionInv'
  BY <1>1, <1>2 DEF SignInInv, SessionInv, SharedIsCurrent, SessionsAsRead,
     SwapHolds
<1> QED
  BY <1>1, <1>3, <1>4, AdminKept DEF SignInInv

LEMMA TouchInv ==
  ASSUME SignInInv, NEW b \in Browsers, Touch(b)
  PROVE  SignInInv'
<1> DEFINE u == req[b].user
           s == [user |-> u, gen |-> gen[u], seen |-> req[b].gen]
<1>1. /\ req[b].pc = "touch" /\ Finish(b)
      /\ session' = [session EXCEPT ![b] = s]
      /\ UNCHANGED <<enabled, gen, pw, outdated, admin, jobs, sso, cred>>
  BY DEF Touch, accounts, roles
<1>2. u \in Users /\ req[b].gen = gen[u]
  BY <1>1 DEF SignInInv, TypeInv, RequestsTyped, SessionInv, SharedIsCurrent
<1>3. s \in Session /\ s.seen = s.gen
  BY <1>2 DEF SignInInv, TypeInv, TypeOK, Session
<1>4. /\ session' \in [Browsers -> Session \cup {None}]
      /\ session'[b] = s
      /\ \A c \in Browsers \ {b} : session'[c] = session[c]
  BY <1>1, <1>3 DEF SignInInv, TypeInv, TypeOK
<1>5. /\ req' \in [Browsers -> Request] /\ RequestsTyped'
      /\ req'[b] = NoRequest
      /\ \A c \in Browsers \ {b} : req'[c] = req[c]
  BY <1>1, FinishTyped DEF SignInInv
<1>6. TypeInv'
  BY <1>1, <1>4, <1>5 DEF SignInInv, TypeInv, TypeOK
<1>7. SessionInv'
  BY <1>1, <1>3, <1>4, <1>5 DEF SignInInv, SessionInv, SharedIsCurrent,
     SessionsAsRead, SwapHolds, NoRequest
<1> QED
  BY <1>1, <1>6, <1>7, AdminKept DEF SignInInv

LEMMA DeadlockInv ==
  ASSUME SignInInv, NEW b \in Browsers, Deadlock(b)
  PROVE  SignInInv'
<1>1. /\ Finish(b)
      /\ UNCHANGED <<enabled, gen, pw, outdated, admin, jobs, sso,
                     session, cred>>
  BY DEF Deadlock, accounts, roles
<1>2. /\ req' \in [Browsers -> Request] /\ RequestsTyped'
      /\ req'[b] = NoRequest
      /\ \A c \in Browsers \ {b} : req'[c] = req[c]
  BY <1>1, FinishTyped DEF SignInInv
<1>3. TypeInv'
  BY <1>1, <1>2 DEF SignInInv, TypeInv, TypeOK
<1>4. SessionInv'
  BY <1>1, <1>2 DEF SignInInv, SessionInv, SharedIsCurrent, SessionsAsRead,
     SwapHolds, NoRequest
<1> QED
  BY <1>1, <1>3, <1>4, AdminKept DEF SignInInv

LEMMA LogoutInv ==
  ASSUME SignInInv, NEW b \in Browsers, Logout(b)
  PROVE  SignInInv'
<1>1. /\ session' = [session EXCEPT ![b] = None]
      /\ UNCHANGED <<enabled, gen, pw, outdated, admin, jobs, sso, req,
                     cred>>
  BY DEF Logout, accounts, roles
<1>2. TypeInv'
  BY <1>1 DEF SignInInv, TypeInv, TypeOK, RequestsTyped
<1>3. SessionInv'
  BY <1>1 DEF SignInInv, TypeInv, TypeOK, SessionInv, SharedIsCurrent,
     SessionsAsRead, SwapHolds
<1> QED
  BY <1>1, <1>2, <1>3, AdminKept DEF SignInInv

-------------------------------------------------------------------------------
(* A person changes their own password.                                    *)

LEMMA ReadForChangeInv ==
  ASSUME SignInInv, NEW b \in Browsers, ReadForChange(b)
  PROVE  SignInInv'
<1> DEFINE u == session[b].user
           r == [pc |-> "change", user |-> u, gen |-> 0, pw |-> pw[u],
                 old |-> u \in outdated]
<1>1. /\ u \in Locals /\ pw[u] < MaxPw
      /\ req' = [req EXCEPT ![b] = r]
      /\ UNCHANGED <<enabled, gen, pw, outdated, admin, jobs, sso,
                     session, cred>>
  BY DEF ReadForChange, accounts, roles
<1>2. /\ r \in Request
      /\ r.pc = "change" /\ r.user \in Locals /\ r.pw < MaxPw
  BY <1>1, SignInAssumption DEF SignInInv, TypeInv, TypeOK, Request, Users
<1>3. /\ req' \in [Browsers -> Request]
      /\ req'[b] = r
      /\ \A c \in Browsers \ {b} : req'[c] = req[c]
  BY <1>1, <1>2 DEF SignInInv, TypeInv, TypeOK
<1> HIDE DEF r
<1>4. TypeInv'
  BY <1>1, <1>2, <1>3 DEF SignInInv, TypeInv, TypeOK, RequestsTyped
<1>5. SessionInv'
  BY <1>1, <1>2, <1>3 DEF SignInInv, SessionInv, SharedIsCurrent,
     SessionsAsRead, SwapHolds
<1> QED
  BY <1>1, <1>4, <1>5, AdminKept DEF SignInInv

LEMMA LockCredentialInv ==
  ASSUME SignInInv, NEW b \in Browsers, LockCredential(b)
  PROVE  SignInInv'
<1> DEFINE u == req[b].user
<1>1. /\ req[b].pc = "change" /\ cred[u] = None
      /\ UNCHANGED <<enabled, gen, pw, outdated, admin, jobs, sso,
                     session>>
  BY DEF LockCredential, accounts, roles
<1>2. u \in Locals /\ req[b].pw < MaxPw
  BY <1>1 DEF SignInInv, TypeInv, RequestsTyped
<1>3. \A c \in Browsers : req[c].pc = "swap" => req[c].user # u
  BY <1>1, SignInAssumption DEF SignInInv, SessionInv, SwapHolds
<1>4. CASE ChangeRefused(b)
  <2>1. Finish(b) /\ UNCHANGED cred
    BY <1>4 DEF LockCredential
  <2>2. /\ req' \in [Browsers -> Request] /\ RequestsTyped'
        /\ req'[b] = NoRequest
        /\ \A c \in Browsers \ {b} : req'[c] = req[c]
    BY <2>1, FinishTyped DEF SignInInv
  <2>3. TypeInv'
    BY <1>1, <2>1, <2>2 DEF SignInInv, TypeInv, TypeOK
  <2>4. SessionInv'
    BY <1>1, <2>1, <2>2 DEF SignInInv, SessionInv, SharedIsCurrent,
       SessionsAsRead, SwapHolds, NoRequest
  <2> QED
    BY <1>1, <2>3, <2>4, AdminKept DEF SignInInv
<1>5. CASE ~ChangeRefused(b)
  <2>1. /\ req' = [req EXCEPT ![b].pc = "swap"]
        /\ cred' = [cred EXCEPT ![u] = b]
    BY <1>5 DEF LockCredential
  <2>2. pw[u] = req[b].pw
    BY <1>5 DEF ChangeRefused
  <2>3. /\ req' \in [Browsers -> Request]
        /\ req'[b].pc = "swap" /\ req'[b].user = u /\ req'[b].pw = req[b].pw
        /\ \A c \in Browsers \ {b} : req'[c] = req[c]
    BY <2>1 DEF SignInInv, TypeInv, TypeOK, Request
  <2>4. /\ cred' \in [Locals -> Browsers \cup {None}]
        /\ cred'[u] = b
        /\ \A v \in Locals \ {u} : cred'[v] = cred[v]
    BY <1>2, <2>1 DEF SignInInv, TypeInv, TypeOK
  <2>5. TypeInv'
    BY <1>1, <1>2, <2>3, <2>4 DEF SignInInv, TypeInv, TypeOK, RequestsTyped
  <2>6. SessionInv'
    BY <1>1, <1>3, <2>2, <2>3, <2>4 DEF SignInInv, TypeInv, RequestsTyped,
       SessionInv, SharedIsCurrent, SessionsAsRead, SwapHolds
  <2> QED
    BY <1>1, <2>5, <2>6, AdminKept DEF SignInInv
<1> QED
  BY <1>4, <1>5

LEMMA SwapInv ==
  ASSUME SignInInv, NEW b \in Browsers, Swap(b)
  PROVE  SignInInv'
<1> DEFINE u == req[b].user
<1>1. /\ req[b].pc = "swap" /\ Finish(b)
      /\ pw' = [pw EXCEPT ![u] = req[b].pw + 1]
      /\ outdated' = outdated \ {u}
      /\ session' = Revoked(u, b)
      /\ cred' = [cred EXCEPT ![u] = None]
      /\ UNCHANGED <<enabled, gen, admin, jobs, sso>>
  BY DEF Swap, roles
<1>2. /\ u \in Locals /\ req[b].pw + 1 \in 0 .. MaxPw
      /\ cred[u] = b
  BY <1>1, SignInAssumption DEF SignInInv, TypeInv, TypeOK, RequestsTyped,
     Request, SessionInv, SwapHolds
<1>3. /\ pw' \in [Locals -> 0 .. MaxPw]
      /\ \A v \in Locals \ {u} : pw'[v] = pw[v]
  BY <1>1, <1>2 DEF SignInInv, TypeInv, TypeOK
<1>4. /\ cred' \in [Locals -> Browsers \cup {None}]
      /\ \A v \in Locals \ {u} : cred'[v] = cred[v]
  BY <1>1, <1>2 DEF SignInInv, TypeInv, TypeOK
<1>5. /\ req' \in [Browsers -> Request] /\ RequestsTyped'
      /\ req'[b] = NoRequest
      /\ \A c \in Browsers \ {b} : req'[c] = req[c]
  BY <1>1, FinishTyped DEF SignInInv
<1>6. /\ session' \in [Browsers -> Session \cup {None}]
      /\ \A c \in Browsers : session'[c] = session[c] \/ session'[c] = None
  BY <1>1, RevokedSessions DEF SignInInv
<1>7. TypeInv'
  BY <1>1, <1>3, <1>4, <1>5, <1>6 DEF SignInInv, TypeInv, TypeOK
<1>8. SwapHolds'
  <2>1. \A c \in Browsers \ {b} : req[c].pc = "swap" =>
          req[c].user \in Locals \ {u}
    BY <1>2 DEF SignInInv, TypeInv, RequestsTyped, SessionInv, SwapHolds
  <2> QED
    BY <1>3, <1>4, <1>5, <2>1 DEF SignInInv, SessionInv, SwapHolds, NoRequest
<1>9. SharedIsCurrent' /\ SessionsAsRead'
  BY <1>1, <1>5, <1>6 DEF SignInInv, SessionInv, SharedIsCurrent,
     SessionsAsRead, NoRequest
<1> QED
  BY <1>1, <1>7, <1>8, <1>9, AdminKept DEF SignInInv, SessionInv

-------------------------------------------------------------------------------
(* Administrators.                                                         *)

(* An account whose row nobody shares gets another generation, and its     *)
(* sessions end.                                                           *)
LEMMA NextGeneration ==
  ASSUME SignInInv, NEW u \in Users, ~Shared(u), gen[u] < MaxGen,
         gen' = [gen EXCEPT ![u] = @ + 1],
         session' = Revoked(u, None), UNCHANGED req
  PROVE  /\ gen' \in [Users -> 0 .. MaxGen]
         /\ session' \in [Browsers -> Session \cup {None}]
         /\ SharedIsCurrent' /\ SessionsAsRead'
<1>1. /\ gen' \in [Users -> 0 .. MaxGen]
      /\ \A v \in Users \ {u} : gen'[v] = gen[v]
  BY SignInAssumption DEF SignInInv, TypeInv, TypeOK
<1>2. /\ session' \in [Browsers -> Session \cup {None}]
      /\ \A c \in Browsers : session'[c] = session[c] \/ session'[c] = None
  BY RevokedSessions DEF SignInInv
<1>3. SharedIsCurrent'
  BY <1>1 DEF SignInInv, TypeInv, RequestsTyped, SessionInv, SharedIsCurrent,
     Shared
<1>4. SessionsAsRead'
  BY <1>2 DEF SignInInv, SessionInv, SessionsAsRead
<1> QED
  BY <1>1, <1>2, <1>3, <1>4

LEMMA ReplacePasswordInv ==
  ASSUME SignInInv, NEW u \in Locals, ReplacePassword(u)
  PROVE  SignInInv'
<1>1. /\ cred[u] = None /\ ~Shared(u) /\ pw[u] < MaxPw /\ gen[u] < MaxGen
      /\ pw' = [pw EXCEPT ![u] = @ + 1]
      /\ gen' = [gen EXCEPT ![u] = @ + 1]
      /\ outdated' = outdated \ {u}
      /\ session' = Revoked(u, None)
      /\ UNCHANGED <<enabled, admin, jobs, sso, req, cred>>
  BY DEF ReplacePassword, roles
<1>2. /\ gen' \in [Users -> 0 .. MaxGen]
      /\ session' \in [Browsers -> Session \cup {None}]
      /\ SharedIsCurrent' /\ SessionsAsRead'
  BY <1>1, NextGeneration DEF Users
<1>3. /\ pw' \in [Locals -> 0 .. MaxPw]
      /\ \A v \in Locals \ {u} : pw'[v] = pw[v]
  BY <1>1, SignInAssumption DEF SignInInv, TypeInv, TypeOK
<1>4. TypeInv'
  BY <1>1, <1>2, <1>3 DEF SignInInv, TypeInv, TypeOK, RequestsTyped
<1>5. SwapHolds'
  <2>1. \A c \in Browsers : req[c].pc = "swap" =>
          req[c].user \in Locals \ {u}
    BY <1>1, SignInAssumption DEF SignInInv, TypeInv, RequestsTyped,
       SessionInv, SwapHolds
  <2> QED
    BY <1>1, <1>3, <2>1 DEF SignInInv, SessionInv, SwapHolds
<1> QED
  BY <1>1, <1>2, <1>4, <1>5, AdminKept DEF SignInInv, SessionInv

LEMMA RevokeSessionsInv ==
  ASSUME SignInInv, NEW u \in Users, RevokeSessions(u)
  PROVE  SignInInv'
<1>1. /\ ~Shared(u) /\ gen[u] < MaxGen
      /\ gen' = [gen EXCEPT ![u] = @ + 1]
      /\ session' = Revoked(u, None)
      /\ UNCHANGED <<enabled, pw, outdated, admin, jobs, sso, req, cred>>
  BY DEF RevokeSessions, roles
<1>2. /\ gen' \in [Users -> 0 .. MaxGen]
      /\ session' \in [Browsers -> Session \cup {None}]
      /\ SharedIsCurrent' /\ SessionsAsRead'
  BY <1>1, NextGeneration
<1>3. TypeInv'
  BY <1>1, <1>2 DEF SignInInv, TypeInv, TypeOK, RequestsTyped
<1>4. SwapHolds'
  BY <1>1 DEF SignInInv, SessionInv, SwapHolds
<1> QED
  BY <1>1, <1>2, <1>3, <1>4, AdminKept DEF SignInInv, SessionInv

LEMMA EnableInv ==
  ASSUME SignInInv, NEW u \in Users, Enable(u)
  PROVE  SignInInv'
<1>1. /\ enabled' = enabled \cup {u}
      /\ UNCHANGED <<gen, pw, outdated, admin, jobs, sso, session, req,
                     cred>>
  BY DEF Enable, roles
<1>2. TypeInv'
  BY <1>1 DEF SignInInv, TypeInv, TypeOK, RequestsTyped
<1>3. SessionInv'
  BY <1>1 DEF SignInInv, SessionInv, SharedIsCurrent, SessionsAsRead,
     SwapHolds
<1>4. AdminInv'
  BY <1>1, AdminGrows DEF SignInInv, Administrators
<1> QED
  BY <1>2, <1>3, <1>4 DEF SignInInv

(* Whoever is not the last enabled Administrator leaves another, if there  *)
(* is one at all.                                                          *)
LEMMA NotTheLast ==
  ASSUME SignInInv, NEW u \in Users, ~LastAdministrator(u),
         Administrators # {}
  PROVE  \E v \in Administrators : v # u
<1>1. CASE u \notin Administrators
  BY <1>1
<1>2. CASE u \in Administrators
  <2>1. IsFiniteSet(Administrators)
    BY SignInAssumption, FS_Subset DEF SignInInv, TypeInv, TypeOK,
       Administrators
  <2>2. Administrators # {u}
    <3>1. Cardinality({u}) = 1
      BY FS_Singleton
    <3> QED
      BY <1>2, <3>1 DEF LastAdministrator
  <2> QED
    BY <1>2, <2>2
<1> QED
  BY <1>1, <1>2

LEMMA CheckInv ==
  ASSUME SignInInv, Check
  PROVE  SignInInv'
<1>1. UNCHANGED <<enabled, gen, pw, outdated, admin, sso, session, req, cred>>
  BY DEF Check, accounts
<1>2. PICK op \in {"disable", "demote"}, u \in Users :
        /\ ~LastAdministrator(u)
        /\ jobs' = {[op |-> op, user |-> u, undercut |-> Administrators = {}]}
  BY DEF Check
<1> DEFINE j == [op |-> op, user |-> u, undercut |-> Administrators = {}]
<1>3. j \in Job /\ j.user = u /\ j.undercut = (Administrators = {})
  BY DEF Job
<1>4. jobs' = {j}
  BY <1>2
<1> HIDE DEF j
<1>5. TypeInv'
  BY <1>1, <1>3, <1>4 DEF SignInInv, TypeInv, TypeOK, RequestsTyped
<1>6. SessionInv'
  BY <1>1 DEF SignInInv, SessionInv, SharedIsCurrent, SessionsAsRead,
     SwapHolds
<1>7. AdminInv'
  <2>1. Administrators = {} \/ \E v \in Administrators : v # u
    BY <1>2, NotTheLast
  <2>2. Administrators' = Administrators
    BY <1>1 DEF Administrators
  <2> QED
    BY <1>3, <1>4, <2>1, <2>2 DEF AdminInv
<1> QED
  BY <1>5, <1>6, <1>7 DEF SignInInv

(* A job that ends leaves none. *)
LEMMA JobEnds ==
  ASSUME SignInInv, NEW j \in jobs, jobs' = jobs \ {j}
  PROVE  jobs' = {} /\ AdminInv'
BY DEF SignInInv, AdminInv

LEMMA DisableInv ==
  ASSUME SignInInv, NEW j \in jobs, Disable(j)
  PROVE  SignInInv'
<1> DEFINE u == j.user
<1>1. /\ ~Shared(u) /\ gen[u] < MaxGen
      /\ enabled' = enabled \ {u}
      /\ gen' = [gen EXCEPT ![u] = @ + 1]
      /\ session' = Revoked(u, None)
      /\ jobs' = jobs \ {j}
      /\ UNCHANGED <<pw, outdated, admin, sso, req, cred>>
  BY DEF Disable
<1>2. u \in Users
  BY DEF SignInInv, TypeInv, TypeOK, Job
<1>3. /\ gen' \in [Users -> 0 .. MaxGen]
      /\ session' \in [Browsers -> Session \cup {None}]
      /\ SharedIsCurrent' /\ SessionsAsRead'
  BY <1>1, <1>2, NextGeneration
<1>4. jobs' = {} /\ AdminInv'
  BY <1>1, JobEnds
<1>5. TypeInv'
  BY <1>1, <1>3, <1>4 DEF SignInInv, TypeInv, TypeOK, RequestsTyped
<1>6. SwapHolds'
  BY <1>1 DEF SignInInv, SessionInv, SwapHolds
<1> QED
  BY <1>3, <1>4, <1>5, <1>6 DEF SignInInv, SessionInv

LEMMA RemoveRoleInv ==
  ASSUME SignInInv, NEW j \in jobs, RemoveRole(j) \/ Rollback(j)
  PROVE  SignInInv'
<1>1. /\ admin' \subseteq admin
      /\ jobs' = jobs \ {j}
      /\ UNCHANGED <<enabled, gen, pw, outdated, sso, session, req, cred>>
  BY DEF RemoveRole, Rollback, accounts
<1>2. jobs' = {} /\ AdminInv'
  BY <1>1, JobEnds
<1>3. TypeInv'
  BY <1>1, <1>2 DEF SignInInv, TypeInv, TypeOK, RequestsTyped
<1>4. SessionInv'
  BY <1>1 DEF SignInInv, SessionInv, SharedIsCurrent, SessionsAsRead,
     SwapHolds
<1> QED
  BY <1>2, <1>3, <1>4 DEF SignInInv

LEMMA GiveRoleInv ==
  ASSUME SignInInv, NEW u \in Locals, GiveRole(u)
  PROVE  SignInInv'
<1>1. /\ admin' = admin \cup {u}
      /\ UNCHANGED <<enabled, gen, pw, outdated, jobs, sso, session, req,
                     cred>>
  BY DEF GiveRole, accounts
<1>2. TypeInv'
  BY <1>1 DEF SignInInv, TypeInv, TypeOK, RequestsTyped, Users
<1>3. SessionInv'
  BY <1>1 DEF SignInInv, SessionInv, SharedIsCurrent, SessionsAsRead,
     SwapHolds
<1>4. AdminInv'
  BY <1>1, AdminGrows DEF SignInInv, Administrators
<1> QED
  BY <1>2, <1>3, <1>4 DEF SignInInv

-------------------------------------------------------------------------------
(* Single sign-on.                                                         *)

LEMMA ReadSettingsInv ==
  ASSUME SignInInv, NEW b \in Browsers, ReadSettings(b)
  PROVE  SignInInv'
<1>1. PICK u \in SsoPeople :
        req' = [req EXCEPT ![b] = [NoRequest EXCEPT !.pc = "assertion",
                                                    !.user = u]]
  BY DEF ReadSettings
<1>2. UNCHANGED <<enabled, gen, pw, outdated, admin, jobs, sso,
                  session, cred>>
  BY DEF ReadSettings, accounts, roles
<1> DEFINE r == [NoRequest EXCEPT !.pc = "assertion", !.user = u]
<1>3. r \in Request /\ r.pc = "assertion" /\ r.user = u
  BY NoRequestType DEF Request, Users
<1>4. /\ req' \in [Browsers -> Request]
      /\ req'[b] = r
      /\ \A c \in Browsers \ {b} : req'[c] = req[c]
  BY <1>1, <1>3 DEF SignInInv, TypeInv, TypeOK
<1> HIDE DEF r
<1>5. TypeInv'
  BY <1>2, <1>3, <1>4 DEF SignInInv, TypeInv, TypeOK, RequestsTyped
<1>6. SessionInv'
  BY <1>2, <1>3, <1>4 DEF SignInInv, SessionInv, SharedIsCurrent,
     SessionsAsRead, SwapHolds
<1> QED
  BY <1>2, <1>5, <1>6, AdminKept DEF SignInInv

(* A role that ends outside the lock: the job under way is undercut.       *)
LEMMA LoseRoleInv ==
  ASSUME SignInInv, NEW u \in Users, LoseRole(u), UNCHANGED enabled
  PROVE  admin' \subseteq Users /\ jobs' \subseteq Job /\ AdminInv'
<1> DEFINE Lost(j) ==
      [j EXCEPT !.op = IF @ = "demote" /\ j.user = u THEN "void" ELSE @,
                !.undercut = @ \/ u \in Administrators]
<1>1. admin' = admin \ {u} /\ jobs' = {Lost(j) : j \in jobs}
  BY DEF LoseRole
<1>2. ASSUME NEW j \in Job
      PROVE  /\ Lost(j) \in Job /\ Lost(j).user = j.user
             /\ Lost(j).undercut = (j.undercut \/ u \in Administrators)
  BY DEF Job
<1>3. jobs \subseteq Job /\ admin \subseteq Users
  BY DEF SignInInv, TypeInv, TypeOK
<1> HIDE DEF Lost
<1>4. ASSUME NEW k \in jobs'
      PROVE  /\ jobs' = {k}
             /\ k.undercut \/ \E v \in Administrators' : v # k.user
  <2>1. PICK j \in jobs : k = Lost(j)
    BY <1>1
  <2>2. /\ jobs = {j}
        /\ j.undercut \/ \E v \in Administrators : v # j.user
    BY DEF SignInInv, AdminInv
  <2>3. jobs' = {k}
    BY <1>1, <2>1, <2>2
  <2>4. /\ k.user = j.user
        /\ k.undercut = (j.undercut \/ u \in Administrators)
    BY <1>2, <1>3, <2>1
  <2>5. u \notin Administrators => Administrators' = Administrators
    BY <1>1 DEF Administrators
  <2> QED
    BY <2>2, <2>3, <2>4, <2>5
<1>5. AdminInv'
  BY <1>4 DEF AdminInv
<1> QED
  BY <1>1, <1>2, <1>3, <1>5

LEMMA SsoSignInInv ==
  ASSUME SignInInv, NEW b \in Browsers, SsoSignIn(b)
  PROVE  SignInInv'
<1> DEFINE u == req[b].user
<1>1. /\ req[b].pc = "assertion"
      /\ UNCHANGED <<enabled, gen, pw, outdated, sso, session, cred>>
  BY DEF SsoSignIn, accounts
<1>2. u \in Users
  BY <1>1 DEF SignInInv, TypeInv, RequestsTyped, Users
<1>3. /\ \/ Finish(b)
         \/ req' = [req EXCEPT ![b].pc = "share", ![b].gen = gen[u]]
      /\ \/ UNCHANGED <<admin, jobs>>
         \/ admin' = admin \cup {u} /\ UNCHANGED jobs
         \/ LoseRole(u)
  BY DEF SsoSignIn, roles
<1>4. /\ req' \in [Browsers -> Request]
      /\ \A c \in Browsers \ {b} : req'[c] = req[c]
      /\ \/ req'[b].pc = "idle"
         \/ req'[b].pc = "share" /\ req'[b].user = u
  <2>1. CASE req' = [req EXCEPT ![b].pc = "share", ![b].gen = gen[u]]
    <3>1. req \in [Browsers -> Request] /\ gen[u] \in 0 .. MaxGen
      BY <1>2 DEF SignInInv, TypeInv, TypeOK
    <3>2. req' \in [Browsers -> Request]
      BY <2>1, <3>1 DEF Request
    <3>3. req'[b].pc = "share" /\ req'[b].user = u
      BY <2>1, <3>1 DEF Request
    <3> QED
      BY <2>1, <3>1, <3>2, <3>3
  <2>2. CASE Finish(b)
    BY <2>2, FinishTyped DEF SignInInv, NoRequest
  <2> QED
    BY <1>3, <2>1, <2>2
<1>5. admin' \subseteq Users /\ jobs' \subseteq Job /\ AdminInv'
  <2>1. CASE UNCHANGED <<admin, jobs>>
    BY <1>1, <2>1, AdminKept DEF SignInInv, TypeInv, TypeOK
  <2>2. CASE admin' = admin \cup {u} /\ UNCHANGED jobs
    <3>1. Administrators \subseteq Administrators'
      BY <1>1, <2>2 DEF Administrators
    <3> QED
      BY <1>2, <2>2, <3>1, AdminGrows DEF SignInInv, TypeInv, TypeOK
  <2>3. CASE LoseRole(u)
    BY <1>1, <1>2, <2>3, LoseRoleInv
  <2> QED
    BY <1>3, <2>1, <2>2, <2>3
<1>6. TypeInv'
  BY <1>1, <1>2, <1>4, <1>5 DEF SignInInv, TypeInv, TypeOK, RequestsTyped
<1>7. SessionInv'
  BY <1>1, <1>4 DEF SignInInv, SessionInv, SharedIsCurrent, SessionsAsRead,
     SwapHolds
<1> QED
  BY <1>5, <1>6, <1>7 DEF SignInInv

LEMMA CleanInv ==
  ASSUME SignInInv, NEW u \in SsoPeople, Clean(u)
  PROVE  SignInInv'
<1>1. /\ LoseRole(u)
      /\ session' = Revoked(u, None)
      /\ UNCHANGED <<enabled, gen, pw, outdated, sso, req, cred>>
  BY DEF Clean, accounts
<1>2. admin' \subseteq Users /\ jobs' \subseteq Job /\ AdminInv'
  BY <1>1, LoseRoleInv DEF Users
<1>3. /\ session' \in [Browsers -> Session \cup {None}]
      /\ \A c \in Browsers : session'[c] = session[c] \/ session'[c] = None
  BY <1>1, RevokedSessions DEF SignInInv
<1>4. TypeInv'
  BY <1>1, <1>2, <1>3 DEF SignInInv, TypeInv, TypeOK, RequestsTyped
<1>5. SessionInv'
  BY <1>1, <1>3 DEF SignInInv, SessionInv, SharedIsCurrent, SessionsAsRead,
     SwapHolds
<1> QED
  BY <1>2, <1>4, <1>5 DEF SignInInv

LEMMA SwitchInv ==
  ASSUME SignInInv, SwitchOff \/ SwitchOn
  PROVE  SignInInv'
<1>1. /\ sso' \in BOOLEAN
      /\ UNCHANGED <<enabled, gen, pw, outdated, admin, jobs, req,
                     cred>>
  BY DEF SwitchOff, SwitchOn, accounts, roles
<1>2. /\ session' \in [Browsers -> Session \cup {None}]
      /\ \A c \in Browsers : session'[c] = session[c] \/ session'[c] = None
  BY DEF SwitchOff, SwitchOn, SignInInv, TypeInv, TypeOK
<1>3. TypeInv'
  BY <1>1, <1>2 DEF SignInInv, TypeInv, TypeOK, RequestsTyped
<1>4. SessionInv'
  BY <1>1, <1>2 DEF SignInInv, SessionInv, SharedIsCurrent, SessionsAsRead,
     SwapHolds
<1> QED
  BY <1>1, <1>3, <1>4, AdminKept DEF SignInInv

-------------------------------------------------------------------------------
LEMMA NextInv == SignInInv /\ [Next]_vars => SignInInv'
<1> SUFFICES ASSUME SignInInv, [Next]_vars PROVE SignInInv'
  OBVIOUS
<1>1. CASE \E b \in Browsers : \/ ReadCredential(b) \/ ReadForChange(b)
                                \/ ReadSettings(b) \/ Logout(b)
  BY <1>1, ReadCredentialInv, ReadForChangeInv, ReadSettingsInv, LogoutInv
<1>2. CASE \E b \in Browsers : Step(b)
  BY <1>2, RehashInv, ShareInv, TouchInv, DeadlockInv, LockCredentialInv,
     SwapInv, SsoSignInInv DEF Step
<1>3. CASE \E u \in Users : RevokeSessions(u) \/ Enable(u)
  BY <1>3, RevokeSessionsInv, EnableInv
<1>4. CASE \/ \E u \in Locals : ReplacePassword(u) \/ GiveRole(u)
           \/ \E u \in SsoPeople : Clean(u)
  BY <1>4, ReplacePasswordInv, GiveRoleInv, CleanInv
<1>5. CASE \/ Check
           \/ \E j \in jobs : Disable(j) \/ RemoveRole(j) \/ Rollback(j)
  BY <1>5, CheckInv, DisableInv, RemoveRoleInv
<1>6. CASE SwitchOff \/ SwitchOn
  BY <1>6, SwitchInv
<1>7. CASE UNCHANGED vars
  <2>1. UNCHANGED <<enabled, gen, pw, outdated, admin, jobs, sso,
                    session, req, cred>>
    BY <1>7 DEF vars, accounts, roles
  <2>2. TypeInv' /\ SessionInv'
    BY <2>1 DEF SignInInv, TypeInv, TypeOK, RequestsTyped, SessionInv,
       SharedIsCurrent, SessionsAsRead, SwapHolds
  <2> QED
    BY <2>1, <2>2, AdminKept DEF SignInInv
<1> QED
  BY <1>1, <1>2, <1>3, <1>4, <1>5, <1>6, <1>7 DEF Next

LEMMA Invariance == Spec => []SignInInv
<1>1. Init => SignInInv
  BY InitInv
<1>2. SignInInv /\ [Next]_vars => SignInInv'
  BY NextInv
<1> QED
  BY <1>1, <1>2, PTL DEF Spec

-------------------------------------------------------------------------------
(* Results *)

(* Accounts, sessions, requests and locks keep their types. *)
THEOREM TypeCorrect == Spec => []TypeOK
<1>1. SignInInv => TypeOK
  BY DEF SignInInv, TypeInv
<1> QED
  BY <1>1, Invariance, PTL

(* create_session: no session is accepted that comes from a sign-in which  *)
(* read the account before its last reset, end of sessions or disabling.   *)
THEOREM OldSignInsEnd == Spec => []ResetEndsSignIns
<1>1. SignInInv => ResetEndsSignIns
  BY DEF SignInInv, SessionInv, SessionsAsRead, ResetEndsSignIns, Live
<1> QED
  BY <1>1, Invariance, PTL

(* disable_local_user and remove_role leave an enabled Administrator,      *)
(* however many of them race, unless a single sign-on or the cleanup takes *)
(* someone's role between the check and the write of one of them.          *)
THEOREM SomeoneAdministers == Spec => AdministratorRemains
<1> DEFINE Lost == Administrators # {} /\ Administrators' = {}
           Excused == \/ \E u \in SsoPeople : LoseRole(u)
                      \/ \E j \in jobs : j.undercut
<1>1. ASSUME SignInInv, [Next]_vars
      PROVE  [Lost => Excused]_vars
  <2> SUFFICES ASSUME Next, Lost PROVE Excused
    BY <1>1
  <2>1. CASE \E b \in Browsers :
               \/ ReadCredential(b) \/ ReadForChange(b) \/ ReadSettings(b)
               \/ Logout(b) \/ Rehash(b) \/ Share(b) \/ Touch(b)
               \/ Deadlock(b) \/ LockCredential(b) \/ Swap(b)
    <3>1. UNCHANGED <<enabled, admin>>
      BY <2>1 DEF ReadCredential, ReadForChange, ReadSettings, Logout, Rehash,
         Share, Touch, Deadlock, LockCredential, Swap, accounts, roles
    <3> QED
      BY <3>1 DEF Administrators
  <2>2. ASSUME NEW b \in Browsers, SsoSignIn(b) PROVE Excused
    <3>1. \/ enabled' = enabled /\ admin \subseteq admin'
          \/ LoseRole(req[b].user)
      BY <2>2 DEF SsoSignIn, accounts, roles
    <3>2. req[b].user \in SsoPeople
      BY <1>1, <2>2 DEF SsoSignIn, SignInInv, TypeInv, RequestsTyped
    <3> QED
      BY <3>1, <3>2 DEF Administrators
  <2>3. CASE \/ \E u \in Users : RevokeSessions(u) \/ Enable(u)
             \/ \E u \in Locals : ReplacePassword(u) \/ GiveRole(u)
             \/ Check \/ SwitchOff \/ SwitchOn
    <3>1. enabled \subseteq enabled' /\ admin \subseteq admin'
      BY <2>3 DEF RevokeSessions, Enable, ReplacePassword, GiveRole, Check,
         SwitchOff, SwitchOn, accounts, roles
    <3> QED
      BY <3>1 DEF Administrators
  <2>4. CASE \E u \in SsoPeople : Clean(u)
    BY <2>4 DEF Clean
  <2>5. ASSUME NEW j \in jobs, Disable(j) \/ RemoveRole(j) \/ Rollback(j)
        PROVE  Excused
    <3>1. Administrators \ {j.user} \subseteq Administrators'
      BY <2>5 DEF Disable, RemoveRole, Rollback, Administrators, accounts
    <3>2. j.undercut \/ \E u \in Administrators : u # j.user
      BY <1>1 DEF SignInInv, AdminInv
    <3> QED
      BY <3>1, <3>2
  <2> QED
    BY <2>1, <2>2, <2>3, <2>4, <2>5 DEF Next, Step
<1> QED
  BY <1>1, Invariance, PTL DEF Spec, AdministratorRemains

(* change_own_password replaces the password that its request verified.    *)
THEOREM ChangesCompare == Spec => OneChangeWins
<1> DEFINE Wins == \A b \in Browsers :
                     req[b].pc = "swap" /\ req'[b].pc = "idle"
                       => req[b].pw = pw[req[b].user]
<1>1. ASSUME SignInInv, [Next]_vars
      PROVE  [Wins]_vars
  BY <1>1 DEF SignInInv, SessionInv, SwapHolds
<1> QED
  BY <1>1, Invariance, PTL DEF Spec, OneChangeWins

-----------------------------------------------------------------------------
(* Matching *)

(* What a task has by the statement it has reached: a host to match unless *)
(* it matches the release, whose hosts are its batches, a batch while it   *)
(* evaluates one, and a feed while it imports one, which ends in a match   *)
(* of the release.                                                         *)
MatchPcs == {"applyVersions", "hosts", "candidates", "apply", "counts", "mark"}
BatchPcs == {"candidates", "apply", "counts"}

Importing(t) == t.pc = "import" \/ t.release

WellFormed(t) ==
  /\ t.pc = "rematch" => t.host \in Hosts
  /\ t.pc \in {"versions"} \cup MatchPcs /\ ~ t.release => t.host \in Hosts
  /\ t.pc \in BatchPcs => t.batch \in Hosts /\ (t.release \/ t.batch = t.host)
  /\ t.pc \in {"hosts", "record"} => t.release
  /\ t.release => t.pc \in {"versions", "record"} \cup MatchPcs
  /\ ~ Importing(t) => t.feed = NoFeed
  /\ ~ t.release => t.left = {}

TasksInv == MatchingTypeOK /\ \A w \in Workers : WellFormed(task[w])

(* The advisories have what a feed says. *)
Agrees(feed) ==
  \A p \in Packages : feed.status[p] # "missing" => adv[p] = feed.status[p]

(* A task imports what was upstream at its download, and the advisories    *)
(* have the feed imported last, if it is still the one upstream.           *)
FeedOf(t) ==
  Importing(t) => /\ t.feed.version \in 1 .. upstream.version
                  /\ t.feed.version = upstream.version => t.feed = upstream

FeedInv ==
  /\ upstream.version >= 1 /\ content <= upstream.version
  /\ content = upstream.version => Agrees(upstream)
  /\ \A w \in Workers : FeedOf(task[w])

(* A host that one match has outdated reads of, so has every match of it   *)
(* that runs at the same time.                                             *)
StaleInv ==
  /\ \A w \in Workers : stale[w] \subseteq upset
  /\ \A v, w \in Workers, h \in Hosts :
       Reading(w) /\ Covers(w, h) /\ h \in stale[v] => h \in stale[w]

(* What a task has read or written so far of a host it has no outdated     *)
(* reads of is what the tables give now.                                   *)
Evaluated(t, h) ==
  /\ t.pc = "applyVersions" => t.without = t.evaluated \cap Affected("nofix")
  /\ t.release \/ t.host = h =>
       /\ t.pc = "applyVersions" =>
            Installed(h) \ Affected("missing") \subseteq t.evaluated
       /\ t.pc \in MatchPcs => Installed(h) \cap Affected("fixable") \subseteq t.pairs
       /\ t.pc \in MatchPcs \ {"applyVersions"} =>
            Installed(h) \cap noFix = Installed(h) \cap Affected("nofix")

BatchFound(t, h) ==
  /\ t.pc = "apply" /\ t.batch = h =>
       t.found = Installed(h) \cap Affected("fixable")
  /\ t.pc = "counts" /\ t.batch = h =>
       open[h] = Installed(h) \cap Affected("fixable")

(* A host's match is right when it is marked; a release match has made     *)
(* every host right that is not left.                                      *)
DoneIsRight(t, h) ==
  /\ t.pc = "mark" /\ ~ t.release /\ t.host = h => Right(h)
  /\ t.release /\ t.pc \in BatchPcs \cup {"mark"} =>
       h \in t.left \/ (t.pc # "mark" /\ h = t.batch) \/ Right(h)

Results(t, h) == Evaluated(t, h) /\ BatchFound(t, h) /\ DoneIsRight(t, h)

Known(w, h) == h \in stale[w] \/ Results(task[w], h)


(* A host that is not pending is right, or a match of it was overlapped. *)
Shown(h) == pending[h] \/ h \in upset \/ Right(h)

(* What holds of the outdated reads too: only listed versions are without  *)
(* a fix, nothing is found on a host without an inventory, and the hosts   *)
(* are shown right before the feed is recorded.                            *)
Steady(t) ==
  /\ t.pc = "applyVersions" => t.without \cap Affected("missing") = {}
  /\ t.pc = "apply" => (rows[t.batch] = Null => t.found = {})
  /\ t.pc = "record" => \A h \in Hosts : Shown(h)

EmptyIsRight ==
  \A h \in Hosts :
    rows[h] = Null =>
      open[h] = {} /\ counted[h] = [open |-> {}, noFix |-> {}]

NoFixIsListed == \A p \in Packages : adv[p] = "missing" => p \notin noFix

MatchedIsRight == content = recorded => \A h \in Hosts : Shown(h)

TablesInv == EmptyIsRight /\ NoFixIsListed /\ MatchedIsRight

MatchingInv ==
  /\ TasksInv /\ FeedInv /\ StaleInv /\ TablesInv
  /\ \A w \in Workers : Steady(task[w]) /\ \A h \in Hosts : Known(w, h)

-----------------------------------------------------------------------------
(* Types of Matching. *)

(* The package versions that a match evaluates. *)
VersionsOf(t) ==
  IF t.release THEN UNION {Installed(h) : h \in Hosts} ELSE Installed(t.host)

LEMMA NoFeedTyped == NoFeed \in Feed
BY DEF NoFeed, Feed, Status

LEMMA IdleTaskTyped == IdleTask \in Task
BY NoFeedTyped DEF IdleTask, Task, PCs

LEMMA TaskFields ==
  ASSUME NEW t \in Task
  PROVE  /\ t.pc \in PCs /\ t.todo \subseteq Hosts
         /\ t.host \in Hosts \cup {Null} /\ t.release \in BOOLEAN
         /\ t.known \in Nat \cup {Null} /\ t.feed \in Feed
         /\ t.evaluated \subseteq Packages /\ t.pairs \subseteq Packages
         /\ t.without \subseteq Packages /\ t.left \subseteq Hosts
         /\ t.batch \in Hosts \cup {Null} /\ t.found \subseteq Packages
BY DEF Task

(* The step of one task keeps the types of all. *)
LEMMA TypedStep ==
  ASSUME TasksInv, NEW w \in Workers, NEW t, t \in Task, WellFormed(t),
         StepTo(w, t)
  PROVE  /\ task' \in [Workers -> Task]
         /\ task'[w] = t
         /\ \A v \in Workers \ {w} : task'[v] = task[v]
         /\ \A v \in Workers : WellFormed(task[v])'
<1>1. task \in [Workers -> Task] /\ \A v \in Workers : WellFormed(task[v])
  BY DEF TasksInv, MatchingTypeOK
<1>2. task' = [task EXCEPT ![w] = t]
  BY DEF StepTo
<1>3. /\ task' \in [Workers -> Task] /\ task'[w] = t
      /\ \A v \in Workers \ {w} : task'[v] = task[v]
  BY <1>1, <1>2
<1>4. \A v \in Workers : WellFormed(task'[v])
  BY <1>1, <1>3
<1> QED
  BY <1>3, <1>4 DEF WellFormed, Importing

LEMMA MatchingTables ==
  ASSUME MatchingTypeOK
  PROVE  /\ \A h \in Hosts : Installed(h) \subseteq Packages
         /\ \A s \in Status : Affected(s) \subseteq Packages
BY DEF MatchingTypeOK, Installed, Affected

LEMMA TasksInit ==
  ASSUME MatchingInit
  PROVE  TasksInv
<1>1. task \in [Workers -> Task]
  BY IdleTaskTyped DEF MatchingInit
<1>2. upstream \in Feed
  BY MatchingAssumption DEF MatchingInit, Feed, Status
<1>3. adv \in [Packages -> Status]
  BY DEF MatchingInit, NoFeed, Status
<1>4. counted \in [Hosts -> [open : SUBSET Packages, noFix : SUBSET Packages]]
  BY DEF MatchingInit
<1>5. /\ rows \in [Hosts -> (SUBSET Packages) \cup {Null}]
      /\ pending \in [Hosts -> BOOLEAN]
      /\ notes \in [Hosts -> Nat]
      /\ open \in [Hosts -> SUBSET Packages]
  BY DEF MatchingInit
<1>6. /\ reports \in Nat /\ faults \in Nat /\ content \in Nat
      /\ stale \in [Workers -> SUBSET Hosts] /\ upset \in SUBSET Hosts
  BY DEF MatchingInit
<1>7. recorded \in Nat \cup {Null} /\ checked \in BOOLEAN /\ noFix \in SUBSET Packages
  BY DEF MatchingInit
<1>8. MatchingTypeOK
  BY <1>1, <1>2, <1>3, <1>4, <1>5, <1>6, <1>7, Zenon DEF MatchingTypeOK
<1>9. ASSUME NEW w \in Workers PROVE WellFormed(task[w])
  BY DEF MatchingInit, WellFormed, Importing, IdleTask, MatchPcs, BatchPcs
<1> QED
  BY <1>8, <1>9 DEF TasksInv

RestPcs == {"idle", "rematch", "known", "download", "versions"}

(* A task that only has a host, or nothing, to do. *)
Resting(t) ==
  /\ t.pc \in RestPcs
  /\ ~ t.release /\ t.feed = NoFeed

LEMMA RestTyped ==
  ASSUME NEW pc \in RestPcs, NEW host \in Hosts \cup {Null},
         NEW todo \in SUBSET Hosts
  PROVE  /\ [IdleTask EXCEPT !.pc = pc] \in Task
         /\ [IdleTask EXCEPT !.todo = todo] \in Task
         /\ [IdleTask EXCEPT !.pc = pc, !.host = host] \in Task
         /\ [IdleTask EXCEPT !.pc = pc, !.host = host, !.todo = todo] \in Task
         /\ [[IdleTask EXCEPT !.todo = todo] EXCEPT !.pc = pc, !.host = host]
              \in Task
<1>1. pc \in PCs
  BY DEF RestPcs, PCs
<1>2. [IdleTask EXCEPT !.pc = pc] \in Task
  BY <1>1, IdleTaskTyped DEF Task
<1>3. [IdleTask EXCEPT !.todo = todo] \in Task
  BY IdleTaskTyped DEF Task
<1>4. ASSUME NEW t \in Task
      PROVE  [t EXCEPT !.pc = pc, !.host = host] \in Task
  BY <1>1, Zenon DEF Task
<1>5. ASSUME NEW t \in Task
      PROVE  [t EXCEPT !.pc = pc, !.host = host, !.todo = todo] \in Task
  BY <1>1, Zenon DEF Task
<1> QED
  BY <1>2, <1>3, <1>4, <1>5, IdleTaskTyped

(* The outdated reads of a task may be forgotten, and nothing else. *)
Relaxes(w) ==
  /\ stale' \in [Workers -> SUBSET Hosts]
  /\ stale'[w] \subseteq stale[w]
  /\ \A v \in Workers \ {w} : stale'[v] = stale[v]
  /\ UNCHANGED <<upset, content>>

LEMMA OverlapsStay ==
  ASSUME TasksInv, UNCHANGED overlaps, NEW w \in Workers
  PROVE  Relaxes(w)
BY DEF TasksInv, MatchingTypeOK, overlaps, Relaxes

(* A step after which the tasks that moved rest, and the tables are as     *)
(* before.                                                                 *)
RestStep ==
  /\ \A v \in Workers :
       \/ Resting(task'[v]) /\ stale'[v] \subseteq stale[v]
       \/ task'[v] = task[v] /\ stale'[v] = stale[v]
  /\ UNCHANGED <<rows, upstream, adv, recorded, open, noFix, counted, pending,
                 upset, content>>

LEMMA RestsTyped ==
  ASSUME TasksInv, NEW w \in Workers, NEW t, t \in Task, WellFormed(t),
         Resting(t), StepTo(w, t),
         UNCHANGED <<rows, upstream, adv, recorded, open, noFix, counted, pending>>,
         notes' \in [Hosts -> Nat], checked' \in BOOLEAN,
         reports' \in Nat, faults' \in Nat, Relaxes(w)
  PROVE  TasksInv' /\ RestStep
<1>1. /\ task' \in [Workers -> Task] /\ task'[w] = t
      /\ \A v \in Workers \ {w} : task'[v] = task[v]
      /\ \A v \in Workers : WellFormed(task[v])'
  BY TypedStep
<1>2. MatchingTypeOK'
  BY <1>1 DEF TasksInv, MatchingTypeOK, Relaxes
<1> QED
  BY <1>1, <1>2 DEF TasksInv, RestStep, Relaxes

LEMMA TickTyped ==
  ASSUME TasksInv, Tick
  PROVE  TasksInv' /\ RestStep
<1> DEFINE t == [IdleTask EXCEPT !.pc = "known"]
<1>1. t \in Task
  BY RestTyped DEF RestPcs
<1>2. WellFormed(t) /\ Resting(t)
  BY DEF WellFormed, Importing, Resting, RestPcs, IdleTask, MatchPcs, BatchPcs
<1>3. StepTo("main", t) /\ "main" \in Workers
  BY DEF Tick, Workers
<1>4. /\ UNCHANGED <<rows, upstream, adv, recorded, open, noFix, counted, pending>>
      /\ notes' \in [Hosts -> Nat] /\ checked' \in BOOLEAN
      /\ reports' \in Nat /\ faults' \in Nat
      /\ UNCHANGED overlaps
  BY DEF Tick, store, TasksInv, MatchingTypeOK
<1> HIDE DEF t
<1> QED
  BY <1>1, <1>2, <1>3, <1>4, OverlapsStay, RestsTyped

LEMMA NotifiedTyped ==
  ASSUME TasksInv, NEW h \in Hosts, Notified(h)
  PROVE  TasksInv' /\ RestStep
<1> DEFINE t == [IdleTask EXCEPT !.pc = "rematch", !.host = h]
<1>1. t \in Task
  BY RestTyped DEF RestPcs
<1>2. WellFormed(t) /\ Resting(t)
  BY DEF WellFormed, Importing, Resting, RestPcs, IdleTask, MatchPcs, BatchPcs
<1>3. StepTo("main", t) /\ "main" \in Workers
  BY DEF Notified, Workers
<1>4. notes' \in [Hosts -> Nat]
  BY DEF Notified, TasksInv, MatchingTypeOK
<1>5. /\ UNCHANGED <<rows, upstream, adv, recorded, open, noFix, counted, pending>>
      /\ checked' \in BOOLEAN
      /\ reports' \in Nat /\ faults' \in Nat
      /\ UNCHANGED overlaps
  BY DEF Notified, store, TasksInv, MatchingTypeOK
<1> HIDE DEF t
<1> QED
  BY <1>1, <1>2, <1>3, <1>4, <1>5, OverlapsStay, RestsTyped

LEMMA LoadPendingTyped ==
  ASSUME TasksInv, LoadPending
  PROVE  TasksInv' /\ RestStep
<1> DEFINE hosts == {h \in Hosts : rows[h] # Null /\ pending[h]}
           t == [IdleTask EXCEPT !.todo = hosts]
<1>1. t \in Task
  BY RestTyped DEF RestPcs
<1>2. WellFormed(t) /\ Resting(t)
  BY DEF WellFormed, Importing, Resting, RestPcs, IdleTask, MatchPcs, BatchPcs
<1>3. StepTo("retry", t) /\ "retry" \in Workers
  BY DEF LoadPending, Workers
<1>4. /\ UNCHANGED <<rows, upstream, adv, recorded, open, noFix, counted, pending>>
      /\ notes' \in [Hosts -> Nat] /\ checked' \in BOOLEAN
      /\ reports' \in Nat /\ faults' \in Nat
      /\ UNCHANGED overlaps
  BY DEF LoadPending, store, TasksInv, MatchingTypeOK
<1> HIDE DEF t
<1> QED
  BY <1>1, <1>2, <1>3, <1>4, OverlapsStay, RestsTyped

LEMMA NextPendingTyped ==
  ASSUME TasksInv, NEW h \in Hosts, NextPending(h)
  PROVE  TasksInv' /\ RestStep
<1> DEFINE t == [IdleTask EXCEPT !.pc = "rematch", !.host = h,
                                   !.todo = task["retry"].todo \ {h}]
<1>1. "retry" \in Workers
  BY DEF Workers
<1>2. task["retry"].todo \subseteq Hosts
  BY <1>1, TaskFields DEF TasksInv, MatchingTypeOK
<1>3. t \in Task
  BY <1>2, RestTyped DEF RestPcs
<1>4. WellFormed(t) /\ Resting(t)
  BY DEF WellFormed, Importing, Resting, RestPcs, IdleTask, MatchPcs, BatchPcs
<1>5. StepTo("retry", t)
  BY DEF NextPending
<1>6. /\ UNCHANGED <<rows, upstream, adv, recorded, open, noFix, counted, pending>>
      /\ notes' \in [Hosts -> Nat] /\ checked' \in BOOLEAN
      /\ reports' \in Nat /\ faults' \in Nat
      /\ UNCHANGED overlaps
  BY DEF NextPending, store, TasksInv, MatchingTypeOK
<1> HIDE DEF t
<1> QED
  BY <1>1, <1>3, <1>4, <1>5, <1>6, OverlapsStay, RestsTyped

(* Where a task goes on with its own record: it was resting. *)
LEMMA StaysResting ==
  ASSUME TasksInv, NEW w \in Workers, task[w].pc \in {"rematch", "known"},
         NEW pc \in RestPcs, pc = "versions" => task[w].host \in Hosts,
         pc # "rematch", NEW known \in Nat \cup {Null}
  PROVE  /\ [task[w] EXCEPT !.pc = pc] \in Task
         /\ WellFormed([task[w] EXCEPT !.pc = pc])
         /\ Resting([task[w] EXCEPT !.pc = pc])
         /\ [task[w] EXCEPT !.pc = pc, !.known = known] \in Task
         /\ WellFormed([task[w] EXCEPT !.pc = pc, !.known = known])
         /\ Resting([task[w] EXCEPT !.pc = pc, !.known = known])
<1>1. task[w] \in Task /\ WellFormed(task[w])
  BY DEF TasksInv, MatchingTypeOK
<1>2. ~ task[w].release /\ task[w].feed = NoFeed /\ task[w].left = {}
  BY <1>1 DEF WellFormed, Importing, MatchPcs
<1>3. pc \in PCs
  BY DEF RestPcs, PCs
<1>4. ASSUME NEW t \in Task
      PROVE  /\ [t EXCEPT !.pc = pc] \in Task
             /\ [t EXCEPT !.pc = pc, !.known = known] \in Task
  BY <1>3, Zenon DEF Task
<1>5. ASSUME NEW t, t \in Task, t.pc = pc, t.host = task[w].host,
             t.release = task[w].release, t.feed = task[w].feed,
             t.left = task[w].left
      PROVE  WellFormed(t) /\ Resting(t)
  BY <1>2, <1>5 DEF WellFormed, Importing, Resting, RestPcs, MatchPcs, BatchPcs
<1>6. /\ [task[w] EXCEPT !.pc = pc].pc = pc
      /\ [task[w] EXCEPT !.pc = pc].host = task[w].host
      /\ [task[w] EXCEPT !.pc = pc].release = task[w].release
      /\ [task[w] EXCEPT !.pc = pc].feed = task[w].feed
      /\ [task[w] EXCEPT !.pc = pc].left = task[w].left
      /\ [task[w] EXCEPT !.pc = pc, !.known = known].pc = pc
      /\ [task[w] EXCEPT !.pc = pc, !.known = known].host = task[w].host
      /\ [task[w] EXCEPT !.pc = pc, !.known = known].release = task[w].release
      /\ [task[w] EXCEPT !.pc = pc, !.known = known].feed = task[w].feed
      /\ [task[w] EXCEPT !.pc = pc, !.known = known].left = task[w].left
  BY <1>1 DEF Task
<1> QED
  BY <1>1, <1>4, <1>5, <1>6

(* The end of a check, and of a task. *)
LEMMA IdleRests ==
  ASSUME TasksInv, NEW w \in Workers
  PROVE  Idle(w) \in Task /\ WellFormed(Idle(w)) /\ Resting(Idle(w))
<1>1. task[w].todo \in SUBSET Hosts
  BY TaskFields DEF TasksInv, MatchingTypeOK
<1>2. Idle(w) \in Task
  BY <1>1, RestTyped DEF Idle, RestPcs
<1>3. WellFormed(Idle(w)) /\ Resting(Idle(w))
  BY DEF WellFormed, Importing, Resting, RestPcs, Idle, IdleTask, MatchPcs,
         BatchPcs
<1> QED
  BY <1>2, <1>3

LEMMA AfterCheckRests ==
  ASSUME TasksInv, NEW w \in Workers, AfterCheck(w)
  PROVE  \E t : t \in Task /\ WellFormed(t) /\ Resting(t) /\ StepTo(w, t)
<1>1. CASE task[w].host = Null
  BY <1>1, IdleRests DEF AfterCheck
<1>2. CASE task[w].host # Null
  <2> DEFINE t == [Idle(w) EXCEPT !.pc = "versions", !.host = task[w].host]
  <2>1. task[w].host \in Hosts /\ task[w].todo \in SUBSET Hosts
    BY <1>2, TaskFields DEF TasksInv, MatchingTypeOK
  <2>2. t \in Task
    BY <2>1, RestTyped DEF Idle, RestPcs
  <2>3. WellFormed(t) /\ Resting(t)
    BY <2>1 DEF WellFormed, Importing, Resting, RestPcs, Idle, IdleTask,
                MatchPcs, BatchPcs
  <2> QED
    BY <1>2, <2>2, <2>3 DEF AfterCheck
<1> QED
  BY <1>1, <1>2

LEMMA RematchTyped ==
  ASSUME TasksInv, NEW w \in Workers, Rematch(w)
  PROVE  TasksInv' /\ RestStep
<1>1. task[w].pc = "rematch" /\ task[w].host \in Hosts
  BY DEF Rematch, TasksInv, WellFormed
<1>2. PICK t : t \in Task /\ WellFormed(t) /\ Resting(t) /\ StepTo(w, t)
  BY <1>1, StaysResting, IdleRests DEF Rematch, RestPcs
<1>3. /\ UNCHANGED <<rows, upstream, adv, recorded, open, noFix, counted, pending>>
      /\ notes' \in [Hosts -> Nat] /\ checked' \in BOOLEAN
      /\ reports' \in Nat /\ faults' \in Nat
      /\ UNCHANGED overlaps
  BY DEF Rematch, store, TasksInv, MatchingTypeOK
<1> QED
  BY <1>2, <1>3, OverlapsStay, RestsTyped

LEMMA ReadKnownTyped ==
  ASSUME TasksInv, NEW w \in Workers, ReadKnown(w)
  PROVE  TasksInv' /\ RestStep
<1>1. recorded \in Nat \cup {Null} /\ task[w].pc = "known"
  BY DEF TasksInv, MatchingTypeOK, ReadKnown
<1>2. PICK t : t \in Task /\ WellFormed(t) /\ Resting(t) /\ StepTo(w, t)
  BY <1>1, StaysResting DEF ReadKnown, RestPcs
<1>3. /\ UNCHANGED <<rows, upstream, adv, recorded, open, noFix, counted, pending>>
      /\ notes' \in [Hosts -> Nat] /\ checked' \in BOOLEAN
      /\ reports' \in Nat /\ faults' \in Nat
      /\ UNCHANGED overlaps
  BY DEF ReadKnown, store, TasksInv, MatchingTypeOK
<1> QED
  BY <1>2, <1>3, OverlapsStay, RestsTyped

LEMMA UnchangedTyped ==
  ASSUME TasksInv, NEW w \in Workers, Unchanged(w)
  PROVE  TasksInv' /\ RestStep
<1>1. PICK t : t \in Task /\ WellFormed(t) /\ Resting(t) /\ StepTo(w, t)
  BY AfterCheckRests DEF Unchanged
<1>2. /\ UNCHANGED <<rows, upstream, adv, recorded, open, noFix, counted, pending>>
      /\ notes' \in [Hosts -> Nat] /\ checked' \in BOOLEAN
      /\ reports' \in Nat /\ faults' \in Nat
      /\ UNCHANGED overlaps
  BY DEF Unchanged, TasksInv, MatchingTypeOK
<1> QED
  BY <1>1, <1>2, OverlapsStay, RestsTyped

LEMMA FailTyped ==
  ASSUME TasksInv, NEW w \in Workers, Fail(w)
  PROVE  TasksInv' /\ RestStep
<1>1. PICK t : t \in Task /\ WellFormed(t) /\ Resting(t) /\ StepTo(w, t)
  BY IdleRests DEF Fail
<1>2. faults' \in Nat /\ Relaxes(w)
  BY DEF Fail, GiveUp, Relaxes, TasksInv, MatchingTypeOK
<1>3. checked' \in BOOLEAN
  BY DEF Fail, TasksInv, MatchingTypeOK
<1>4. /\ UNCHANGED <<rows, upstream, adv, recorded, open, noFix, counted, pending>>
      /\ notes' \in [Hosts -> Nat] /\ reports' \in Nat
  BY DEF Fail, TasksInv, MatchingTypeOK
<1> QED
  BY <1>1, <1>2, <1>3, <1>4, RestsTyped

LEMMA RestartTyped ==
  ASSUME TasksInv, Restart
  PROVE  TasksInv' /\ RestStep
<1>1. WellFormed(IdleTask) /\ Resting(IdleTask)
  BY DEF WellFormed, Importing, Resting, RestPcs, IdleTask, MatchPcs, BatchPcs
<1>2. \A w \in Workers : task'[w] = IdleTask
  BY DEF Restart
<1>3. task' \in [Workers -> Task]
  BY IdleTaskTyped DEF Restart
<1>4. notes' \in [Hosts -> Nat]
  BY DEF Restart
<1>5. /\ faults' \in Nat /\ stale' \in [Workers -> SUBSET Hosts]
      /\ \A w \in Workers : stale'[w] = {}
  BY DEF Restart, TasksInv, MatchingTypeOK
<1>6. UNCHANGED <<rows, upstream, adv, recorded, open, noFix, counted, pending,
                  checked, reports, upset, content>>
  BY DEF Restart, store
<1>7. MatchingTypeOK'
  BY <1>3, <1>4, <1>5, <1>6 DEF TasksInv, MatchingTypeOK
<1>8. \A w \in Workers : WellFormed(task'[w])
  BY <1>1, <1>2
<1> QED
  BY <1>1, <1>2, <1>5, <1>6, <1>7, <1>8
     DEF TasksInv, RestStep, WellFormed, Importing

-----------------------------------------------------------------------------
(* The steps that write a table, or go on with a match: types, and what    *)
(* becomes of the task.                                                    *)

OthersStay(w) == \A v \in Workers \ {w} : task'[v] = task[v]

LEMMA ReportTyped ==
  ASSUME TasksInv, NEW h \in Hosts,
         NEW inventory \in SUBSET Packages, Report(h, inventory)
  PROVE  TasksInv'
<1>1. rows' \in [Hosts -> (SUBSET Packages) \cup {Null}]
  BY DEF Report, TasksInv, MatchingTypeOK
<1>2. pending' \in [Hosts -> BOOLEAN]
  BY DEF Report, TasksInv, MatchingTypeOK
<1>3. notes' \in [Hosts -> Nat]
  BY DEF Report, TasksInv, MatchingTypeOK
<1>4. /\ reports' \in Nat /\ stale' \in [Workers -> SUBSET Hosts]
      /\ upset' \in SUBSET Hosts /\ content' \in Nat
  BY DEF Report, StoredUnder, TasksInv, MatchingTypeOK
<1>5. UNCHANGED <<upstream, adv, recorded, checked, open, noFix, counted, task,
                  faults>>
  BY DEF Report
<1>6. MatchingTypeOK'
  BY <1>1, <1>2, <1>3, <1>4, <1>5 DEF TasksInv, MatchingTypeOK
<1> QED
  BY <1>5, <1>6 DEF TasksInv, WellFormed, Importing

LEMMA PublishTyped ==
  ASSUME TasksInv, NEW status \in Contents, Publish(status)
  PROVE  TasksInv'
<1>1. upstream.version + 1 \in Nat
  BY DEF TasksInv, MatchingTypeOK, Feed
<1>2. upstream' \in Feed
  BY <1>1, MatchingAssumption DEF Publish, Feed, Status
<1>3. UNCHANGED <<rows, notes, adv, recorded, checked, open, noFix, counted,
                  pending, task, reports, faults, stale, upset, content>>
  BY DEF Publish, store, overlaps
<1>4. MatchingTypeOK'
  BY <1>2, <1>3 DEF TasksInv, MatchingTypeOK
<1> QED
  BY <1>3, <1>4 DEF TasksInv, WellFormed, Importing

LEMMA DownloadTyped ==
  ASSUME TasksInv, NEW w \in Workers, Download(w)
  PROVE  /\ TasksInv' /\ OthersStay(w)
         /\ task'[w].pc = "import" /\ ~ task'[w].release
         /\ task'[w].feed = upstream
<1> DEFINE t == [task[w] EXCEPT !.pc = "import", !.known = Null, !.feed = upstream]
<1>1. /\ task[w] \in Task /\ WellFormed(task[w]) /\ task[w].pc = "download"
      /\ upstream \in Feed
  BY DEF TasksInv, MatchingTypeOK, Download
<1>2. ~ task[w].release /\ task[w].left = {}
  BY <1>1 DEF WellFormed, MatchPcs
<1>3. t \in Task
  BY <1>1 DEF Task, PCs
<1>4. /\ t.pc = "import" /\ t.feed = upstream /\ t.release = task[w].release
      /\ t.left = task[w].left
  BY <1>1 DEF Task
<1>5. WellFormed(t)
  BY <1>2, <1>4 DEF WellFormed, Importing, MatchPcs, BatchPcs
<1>6. StepTo(w, t)
  BY DEF Download
<1> HIDE DEF t
<1>7. /\ task' \in [Workers -> Task] /\ task'[w] = t /\ OthersStay(w)
      /\ \A v \in Workers : WellFormed(task[v])'
  BY <1>3, <1>5, <1>6, TypedStep DEF OthersStay
<1>8. MatchingTypeOK'
  BY <1>7 DEF TasksInv, MatchingTypeOK, Download, store, overlaps
<1> QED
  BY <1>2, <1>4, <1>7, <1>8 DEF TasksInv

LEMMA ReplaceTyped ==
  ASSUME TasksInv, NEW w \in Workers, ReplaceAdvisories(w)
  PROVE  /\ TasksInv' /\ OthersStay(w)
         /\ task'[w].pc = "versions" /\ task'[w].release
         /\ task'[w].feed = task[w].feed
<1> DEFINE t == [task[w] EXCEPT !.pc = "versions", !.release = TRUE]
<1>1. /\ task[w] \in Task /\ WellFormed(task[w]) /\ task[w].pc = "import"
  BY DEF TasksInv, MatchingTypeOK, ReplaceAdvisories
<1>2. t \in Task
  BY <1>1 DEF Task, PCs
<1>3. t.pc = "versions" /\ t.feed = task[w].feed /\ t.release
  BY <1>1 DEF Task
<1>4. WellFormed(t)
  BY <1>3 DEF WellFormed, Importing, MatchPcs, BatchPcs
<1>5. StepTo(w, t)
  BY DEF ReplaceAdvisories
<1> HIDE DEF t
<1>6. /\ task' \in [Workers -> Task] /\ task'[w] = t /\ OthersStay(w)
      /\ \A v \in Workers : WellFormed(task[v])'
  BY <1>2, <1>4, <1>5, TypedStep DEF OthersStay
<1>7. adv' \in [Packages -> Status]
  <2>1. task[w].feed.status \in [Packages -> Status]
    BY <1>1, TaskFields DEF Feed
  <2> QED
    BY <2>1 DEF ReplaceAdvisories, Upserted, TasksInv, MatchingTypeOK
<1>8. /\ stale' \in [Workers -> SUBSET Hosts]
      /\ upset' \in SUBSET Hosts /\ content' \in Nat
  <2>1. task[w].feed.version \in Nat
    BY <1>1, TaskFields DEF Feed
  <2> QED
    BY <2>1 DEF ReplaceAdvisories, ImportedUnder, TasksInv, MatchingTypeOK
<1>9. MatchingTypeOK'
  BY <1>6, <1>7, <1>8 DEF TasksInv, MatchingTypeOK, ReplaceAdvisories
<1> QED
  BY <1>3, <1>6, <1>9 DEF TasksInv

LEMMA VersionCandidatesTyped ==
  ASSUME TasksInv, NEW w \in Workers, VersionCandidates(w)
  PROVE  /\ TasksInv' /\ OthersStay(w)
         /\ task'[w].pc = "applyVersions"
         /\ task'[w].release = task[w].release
         /\ task'[w].host = task[w].host /\ task'[w].feed = task[w].feed
         /\ task'[w].evaluated = VersionsOf(task[w]) \ Affected("missing")
         /\ task'[w].pairs = VersionsOf(task[w]) \cap Affected("fixable")
         /\ task'[w].without = VersionsOf(task[w]) \cap Affected("nofix")
<1> DEFINE V == VersionsOf(task[w])
           t == [task[w] EXCEPT !.pc = "applyVersions",
                   !.evaluated = V \ Affected("missing"),
                   !.pairs = V \cap Affected("fixable"),
                   !.without = V \cap Affected("nofix")]
<1>1. /\ task[w] \in Task /\ WellFormed(task[w]) /\ task[w].pc = "versions"
      /\ MatchingTypeOK
  BY DEF TasksInv, MatchingTypeOK, VersionCandidates
<1>2. V \subseteq Packages
  BY <1>1, MatchingTables DEF VersionsOf, WellFormed
<1>3. StepTo(w, t)
  BY DEF VersionCandidates, VersionsOf
<1> HIDE DEF V
<1>4. t \in Task
  BY <1>1, <1>2 DEF Task, PCs
<1>5. /\ t.pc = "applyVersions" /\ t.feed = task[w].feed
      /\ t.release = task[w].release /\ t.host = task[w].host
      /\ t.left = task[w].left
      /\ t.evaluated = V \ Affected("missing")
      /\ t.pairs = V \cap Affected("fixable")
      /\ t.without = V \cap Affected("nofix")
  BY <1>1 DEF Task
<1>6. WellFormed(t)
  BY <1>1, <1>5 DEF WellFormed, Importing, MatchPcs, BatchPcs
<1> HIDE DEF t
<1>7. /\ task' \in [Workers -> Task] /\ task'[w] = t /\ OthersStay(w)
      /\ \A v \in Workers : WellFormed(task[v])'
  BY <1>3, <1>4, <1>6, TypedStep DEF OthersStay
<1>8. /\ stale' \in [Workers -> SUBSET Hosts]
      /\ upset' \in SUBSET Hosts /\ content' \in Nat
  BY <1>1 DEF VersionCandidates, BeginMatch, MatchingTypeOK
<1>9. MatchingTypeOK'
  BY <1>7, <1>8 DEF TasksInv, MatchingTypeOK, VersionCandidates, store
<1> QED
  BY <1>5, <1>7, <1>9 DEF TasksInv, V

LEMMA ApplyVersionsTyped ==
  ASSUME TasksInv, NEW w \in Workers, ApplyVersions(w)
  PROVE  /\ TasksInv' /\ OthersStay(w)
         /\ task'[w].pc = IF task[w].release THEN "hosts" ELSE "candidates"
         /\ ~ task[w].release => task'[w].batch = task[w].host
         /\ task'[w].release = task[w].release /\ task'[w].host = task[w].host
         /\ task'[w].feed = task[w].feed /\ task'[w].pairs = task[w].pairs
<1> DEFINE t == [task[w] EXCEPT
                   !.pc = IF task[w].release THEN "hosts" ELSE "candidates",
                   !.batch = IF task[w].release THEN Null ELSE task[w].host,
                   !.evaluated = {}, !.without = {}]
<1>1. /\ task[w] \in Task /\ WellFormed(task[w]) /\ task[w].pc = "applyVersions"
      /\ MatchingTypeOK
  BY DEF TasksInv, MatchingTypeOK, ApplyVersions
<1>2. t \in Task
  BY <1>1 DEF Task, PCs
<1>3. /\ t.pc = IF task[w].release THEN "hosts" ELSE "candidates"
      /\ t.batch = IF task[w].release THEN Null ELSE task[w].host
      /\ t.release = task[w].release /\ t.host = task[w].host
      /\ t.feed = task[w].feed /\ t.pairs = task[w].pairs
      /\ t.left = task[w].left
  BY <1>1 DEF Task
<1>4. WellFormed(t)
  BY <1>1, <1>3 DEF WellFormed, Importing, MatchPcs, BatchPcs
<1>5. StepTo(w, t)
  BY DEF ApplyVersions
<1> HIDE DEF t
<1>6. /\ task' \in [Workers -> Task] /\ task'[w] = t /\ OthersStay(w)
      /\ \A v \in Workers : WellFormed(task[v])'
  BY <1>2, <1>4, <1>5, TypedStep DEF OthersStay
<1>7. noFix' \in SUBSET Packages
  BY <1>1, TaskFields DEF MatchingTypeOK, ApplyVersions
<1>8. MatchingTypeOK'
  BY <1>6, <1>7 DEF TasksInv, MatchingTypeOK, ApplyVersions, overlaps
<1> QED
  BY <1>3, <1>6, <1>8 DEF TasksInv

LEMMA ReleaseHostsTyped ==
  ASSUME TasksInv, NEW w \in Workers, ReleaseHosts(w)
  PROVE  /\ TasksInv' /\ OthersStay(w)
         /\ task'[w].pc = "mark" /\ task'[w].release /\ task[w].release
         /\ task'[w].left = {h \in Hosts : rows[h] # Null}
         /\ task'[w].host = task[w].host
         /\ task'[w].feed = task[w].feed /\ task'[w].pairs = task[w].pairs
<1> DEFINE t == [task[w] EXCEPT !.pc = "mark",
                                !.left = {h \in Hosts : rows[h] # Null}]
<1>1. task[w] \in Task /\ WellFormed(task[w]) /\ task[w].pc = "hosts"
  BY DEF TasksInv, MatchingTypeOK, ReleaseHosts
<1>2. task[w].release
  BY <1>1 DEF WellFormed
<1>3. t \in Task
  BY <1>1 DEF Task, PCs
<1>4. /\ t.pc = "mark" /\ t.left = {h \in Hosts : rows[h] # Null}
      /\ t.release = task[w].release /\ t.host = task[w].host
      /\ t.feed = task[w].feed /\ t.pairs = task[w].pairs
  BY <1>1 DEF Task
<1>5. WellFormed(t)
  BY <1>2, <1>4 DEF WellFormed, Importing, MatchPcs, BatchPcs
<1>6. StepTo(w, t)
  BY DEF ReleaseHosts
<1> HIDE DEF t
<1>7. /\ task' \in [Workers -> Task] /\ task'[w] = t /\ OthersStay(w)
      /\ \A v \in Workers : WellFormed(task[v])'
  BY <1>3, <1>5, <1>6, TypedStep DEF OthersStay
<1>8. MatchingTypeOK'
  BY <1>7 DEF TasksInv, MatchingTypeOK, ReleaseHosts, store, overlaps
<1> QED
  BY <1>2, <1>4, <1>7, <1>8 DEF TasksInv

LEMMA NextBatchTyped ==
  ASSUME TasksInv, NEW w \in Workers, NEW h \in Hosts, NextBatch(w, h)
  PROVE  /\ TasksInv' /\ OthersStay(w)
         /\ task'[w].pc = "candidates" /\ task'[w].batch = h
         /\ task'[w].left = task[w].left \ {h}
         /\ task[w].release /\ task'[w].release /\ task'[w].host = task[w].host
         /\ task'[w].feed = task[w].feed /\ task'[w].pairs = task[w].pairs
<1> DEFINE t == [task[w] EXCEPT !.pc = "candidates", !.batch = h,
                                !.left = task[w].left \ {h}]
<1>1. /\ task[w] \in Task /\ WellFormed(task[w]) /\ task[w].pc = "mark"
      /\ task[w].release
  BY DEF TasksInv, MatchingTypeOK, NextBatch, WellFormed
<1>2. t \in Task
  BY <1>1 DEF Task, PCs
<1>3. /\ t.pc = "candidates" /\ t.batch = h /\ t.left = task[w].left \ {h}
      /\ t.release = task[w].release /\ t.host = task[w].host
      /\ t.feed = task[w].feed /\ t.pairs = task[w].pairs
  BY <1>1 DEF Task
<1>4. WellFormed(t)
  BY <1>1, <1>3 DEF WellFormed, Importing, MatchPcs, BatchPcs
<1>5. StepTo(w, t)
  BY DEF NextBatch, StepTo
<1> HIDE DEF t
<1>6. /\ task' \in [Workers -> Task] /\ task'[w] = t /\ OthersStay(w)
      /\ \A v \in Workers : WellFormed(task[v])'
  BY <1>2, <1>4, <1>5, TypedStep DEF OthersStay
<1>7. MatchingTypeOK'
  BY <1>6 DEF TasksInv, MatchingTypeOK, NextBatch, store, overlaps
<1> QED
  BY <1>1, <1>3, <1>6, <1>7 DEF TasksInv

LEMMA CandidatesTyped ==
  ASSUME TasksInv, NEW w \in Workers, Candidates(w)
  PROVE  /\ TasksInv' /\ OthersStay(w)
         /\ task'[w].pc = "apply"
         /\ task'[w].found = Installed(task[w].batch) \cap task[w].pairs
                               \cap Affected("fixable")
         /\ task'[w].batch = task[w].batch /\ task'[w].left = task[w].left
         /\ task'[w].release = task[w].release /\ task'[w].host = task[w].host
         /\ task'[w].feed = task[w].feed /\ task'[w].pairs = task[w].pairs
<1> DEFINE F == Installed(task[w].batch) \cap task[w].pairs
                  \cap Affected("fixable")
           t == [task[w] EXCEPT !.pc = "apply", !.found = F]
<1>1. task[w] \in Task /\ WellFormed(task[w]) /\ task[w].pc = "candidates"
  BY DEF TasksInv, MatchingTypeOK, Candidates
<1>2. F \subseteq Packages
  BY <1>1, TaskFields
<1>3. StepTo(w, t)
  BY DEF Candidates
<1> HIDE DEF F
<1>4. t \in Task
  BY <1>1, <1>2 DEF Task, PCs
<1>5. /\ t.pc = "apply" /\ t.found = F /\ t.batch = task[w].batch
      /\ t.left = task[w].left /\ t.release = task[w].release
      /\ t.host = task[w].host /\ t.feed = task[w].feed /\ t.pairs = task[w].pairs
  BY <1>1 DEF Task
<1>6. WellFormed(t)
  BY <1>1, <1>5 DEF WellFormed, Importing, MatchPcs, BatchPcs
<1> HIDE DEF t
<1>7. /\ task' \in [Workers -> Task] /\ task'[w] = t /\ OthersStay(w)
      /\ \A v \in Workers : WellFormed(task[v])'
  BY <1>3, <1>4, <1>6, TypedStep DEF OthersStay
<1>8. MatchingTypeOK'
  BY <1>7 DEF TasksInv, MatchingTypeOK, Candidates, store, overlaps
<1> QED
  BY <1>5, <1>7, <1>8 DEF TasksInv, F

LEMMA ApplyFoundTyped ==
  ASSUME TasksInv, NEW w \in Workers, ApplyFound(w)
  PROVE  /\ TasksInv' /\ OthersStay(w)
         /\ task'[w].pc = "counts"
         /\ task'[w].batch = task[w].batch /\ task'[w].left = task[w].left
         /\ task'[w].release = task[w].release /\ task'[w].host = task[w].host
         /\ task'[w].feed = task[w].feed /\ task'[w].pairs = task[w].pairs
<1> DEFINE t == [task[w] EXCEPT !.pc = "counts", !.found = {}]
<1>1. task[w] \in Task /\ WellFormed(task[w]) /\ task[w].pc = "apply"
  BY DEF TasksInv, MatchingTypeOK, ApplyFound
<1>2. t \in Task
  BY <1>1 DEF Task, PCs
<1>3. /\ t.pc = "counts" /\ t.batch = task[w].batch
      /\ t.left = task[w].left /\ t.release = task[w].release
      /\ t.host = task[w].host /\ t.feed = task[w].feed /\ t.pairs = task[w].pairs
  BY <1>1 DEF Task
<1>4. WellFormed(t)
  BY <1>1, <1>3 DEF WellFormed, Importing, MatchPcs, BatchPcs
<1>5. StepTo(w, t)
  BY DEF ApplyFound
<1> HIDE DEF t
<1>6. /\ task' \in [Workers -> Task] /\ task'[w] = t /\ OthersStay(w)
      /\ \A v \in Workers : WellFormed(task[v])'
  BY <1>2, <1>4, <1>5, TypedStep DEF OthersStay
<1>7. open' \in [Hosts -> SUBSET Packages]
  BY <1>1, TaskFields DEF TasksInv, MatchingTypeOK, ApplyFound
<1>8. MatchingTypeOK'
  BY <1>6, <1>7 DEF TasksInv, MatchingTypeOK, ApplyFound, overlaps
<1> QED
  BY <1>3, <1>6, <1>8 DEF TasksInv

LEMMA RefreshCountsTyped ==
  ASSUME TasksInv, NEW w \in Workers, RefreshCounts(w)
  PROVE  /\ TasksInv' /\ OthersStay(w)
         /\ task'[w].pc = "mark" /\ task'[w].left = task[w].left
         /\ task'[w].release = task[w].release /\ task'[w].host = task[w].host
         /\ task'[w].feed = task[w].feed /\ task'[w].pairs = task[w].pairs
<1> DEFINE t == [task[w] EXCEPT !.pc = "mark", !.batch = Null]
<1>1. /\ task[w] \in Task /\ WellFormed(task[w]) /\ task[w].pc = "counts"
      /\ MatchingTypeOK
  BY DEF TasksInv, MatchingTypeOK, RefreshCounts
<1>2. t \in Task
  BY <1>1 DEF Task, PCs
<1>3. /\ t.pc = "mark" /\ t.left = task[w].left /\ t.release = task[w].release
      /\ t.host = task[w].host /\ t.feed = task[w].feed /\ t.pairs = task[w].pairs
  BY <1>1 DEF Task
<1>4. WellFormed(t)
  BY <1>1, <1>3 DEF WellFormed, Importing, MatchPcs, BatchPcs
<1>5. StepTo(w, t)
  BY DEF RefreshCounts
<1> HIDE DEF t
<1>6. /\ task' \in [Workers -> Task] /\ task'[w] = t /\ OthersStay(w)
      /\ \A v \in Workers : WellFormed(task[v])'
  BY <1>2, <1>4, <1>5, TypedStep DEF OthersStay
<1>7. task[w].batch \in Hosts
  BY <1>1 DEF WellFormed, BatchPcs
<1>8. counted' \in [Hosts -> [open : SUBSET Packages, noFix : SUBSET Packages]]
  BY <1>1, <1>7, MatchingTables DEF MatchingTypeOK, RefreshCounts
<1>9. MatchingTypeOK'
  BY <1>6, <1>8 DEF TasksInv, MatchingTypeOK, RefreshCounts, overlaps
<1> QED
  BY <1>3, <1>6, <1>9 DEF TasksInv

LEMMA MarkHostTyped ==
  ASSUME TasksInv, NEW w \in Workers, MarkHost(w)
  PROVE  TasksInv' /\ OthersStay(w) /\ Resting(task'[w])
<1>1. /\ Idle(w) \in Task /\ WellFormed(Idle(w)) /\ Resting(Idle(w))
      /\ StepTo(w, Idle(w))
  BY IdleRests DEF MarkHost
<1>2. /\ task' \in [Workers -> Task] /\ task'[w] = Idle(w) /\ OthersStay(w)
      /\ \A v \in Workers : WellFormed(task[v])'
  BY <1>1, TypedStep DEF OthersStay
<1>3. /\ pending' \in [Hosts -> BOOLEAN]
      /\ stale' \in [Workers -> SUBSET Hosts]
      /\ upset' \in SUBSET Hosts /\ content' \in Nat
  BY DEF TasksInv, MatchingTypeOK, MarkHost, EndMatch
<1>4. MatchingTypeOK'
  BY <1>2, <1>3 DEF TasksInv, MatchingTypeOK, MarkHost
<1> QED
  BY <1>1, <1>2, <1>4 DEF TasksInv

LEMMA MarkReleaseTyped ==
  ASSUME TasksInv, NEW w \in Workers, MarkRelease(w)
  PROVE  /\ TasksInv' /\ OthersStay(w)
         /\ task'[w].pc = "record" /\ task'[w].release
         /\ task'[w].feed = task[w].feed
<1> DEFINE t == [task[w] EXCEPT !.pc = "record", !.pairs = {}]
<1>1. /\ task[w] \in Task /\ WellFormed(task[w]) /\ task[w].release
  BY DEF TasksInv, MatchingTypeOK, MarkRelease
<1>2. t \in Task
  BY <1>1 DEF Task, PCs
<1>3. t.pc = "record" /\ t.release = task[w].release /\ t.feed = task[w].feed
  BY <1>1 DEF Task
<1>4. WellFormed(t)
  BY <1>1, <1>3 DEF WellFormed, Importing, MatchPcs, BatchPcs
<1>5. StepTo(w, t)
  BY DEF MarkRelease
<1> HIDE DEF t
<1>6. /\ task' \in [Workers -> Task] /\ task'[w] = t /\ OthersStay(w)
      /\ \A v \in Workers : WellFormed(task[v])'
  BY <1>2, <1>4, <1>5, TypedStep DEF OthersStay
<1>7. /\ pending' \in [Hosts -> BOOLEAN]
      /\ stale' \in [Workers -> SUBSET Hosts]
      /\ upset' \in SUBSET Hosts /\ content' \in Nat
  BY DEF TasksInv, MatchingTypeOK, MarkRelease, EndMatch
<1>8. MatchingTypeOK'
  BY <1>6, <1>7 DEF TasksInv, MatchingTypeOK, MarkRelease
<1> QED
  BY <1>1, <1>3, <1>6, <1>8 DEF TasksInv

LEMMA RecordFeedTyped ==
  ASSUME TasksInv, NEW w \in Workers, RecordFeed(w)
  PROVE  TasksInv' /\ OthersStay(w) /\ Resting(task'[w])
<1>1. PICK t : t \in Task /\ WellFormed(t) /\ Resting(t) /\ StepTo(w, t)
  BY AfterCheckRests DEF RecordFeed
<1>2. /\ task' \in [Workers -> Task] /\ task'[w] = t /\ OthersStay(w)
      /\ \A v \in Workers : WellFormed(task[v])'
  BY <1>1, TypedStep DEF OthersStay
<1>3. task[w].feed.version \in Nat
  BY TaskFields DEF TasksInv, MatchingTypeOK, Feed
<1>4. MatchingTypeOK'
  BY <1>2, <1>3 DEF TasksInv, MatchingTypeOK, RecordFeed, overlaps
<1> QED
  BY <1>1, <1>2, <1>4 DEF TasksInv

-----------------------------------------------------------------------------
(* Type correctness of Matching. *)

LEMMA TasksStutter ==
  ASSUME TasksInv, UNCHANGED matchingVars
  PROVE  TasksInv'
BY DEF matchingVars, TasksInv, MatchingTypeOK, WellFormed, Importing

LEMMA TasksWorkerNext ==
  ASSUME TasksInv, NEW w \in Workers, WorkerNext(w)
  PROVE  TasksInv'
<1>1. CASE Rematch(w)  BY <1>1, RematchTyped
<1>2. CASE ReadKnown(w)  BY <1>2, ReadKnownTyped
<1>3. CASE Unchanged(w)  BY <1>3, UnchangedTyped
<1>4. CASE Download(w)  BY <1>4, DownloadTyped
<1>5. CASE ReplaceAdvisories(w)  BY <1>5, ReplaceTyped
<1>6. CASE VersionCandidates(w)  BY <1>6, VersionCandidatesTyped
<1>7. CASE ApplyVersions(w)  BY <1>7, ApplyVersionsTyped
<1>8. CASE ReleaseHosts(w)  BY <1>8, ReleaseHostsTyped
<1>9. CASE \E h \in Hosts : NextBatch(w, h)  BY <1>9, NextBatchTyped
<1>10. CASE Candidates(w)  BY <1>10, CandidatesTyped
<1>11. CASE ApplyFound(w)  BY <1>11, ApplyFoundTyped
<1>12. CASE RefreshCounts(w)  BY <1>12, RefreshCountsTyped
<1>13. CASE MarkHost(w)  BY <1>13, MarkHostTyped
<1>14. CASE MarkRelease(w)  BY <1>14, MarkReleaseTyped
<1>15. CASE RecordFeed(w)  BY <1>15, RecordFeedTyped
<1> QED
  BY <1>1, <1>2, <1>3, <1>4, <1>5, <1>6, <1>7, <1>8, <1>9, <1>10, <1>11, <1>12,
     <1>13, <1>14, <1>15 DEF WorkerNext

LEMMA TasksNext ==
  ASSUME TasksInv, MatchingNext
  PROVE  TasksInv'
<1>1. CASE \E h \in Hosts, inventory \in SUBSET Packages : Report(h, inventory)
  BY <1>1, ReportTyped
<1>2. CASE \E status \in Contents : Publish(status)
  BY <1>2, PublishTyped
<1>3. CASE Tick  BY <1>3, TickTyped
<1>4. CASE \E h \in Hosts : Notified(h)  BY <1>4, NotifiedTyped
<1>5. CASE LoadPending  BY <1>5, LoadPendingTyped
<1>6. CASE \E h \in Hosts : NextPending(h)  BY <1>6, NextPendingTyped
<1>7. CASE \E w \in Workers : WorkerNext(w)  BY <1>7, TasksWorkerNext
<1>8. CASE \E w \in Workers : Fail(w)  BY <1>8, FailTyped
<1>9. CASE Restart  BY <1>9, RestartTyped
<1> QED
  BY <1>1, <1>2, <1>3, <1>4, <1>5, <1>6, <1>7, <1>8, <1>9 DEF MatchingNext

(* However matches overlap, the tables and the two tasks of                *)
(* openvibes-vulns keep their types: a host that is matched, a batch and a *)
(* feed are there whenever a statement uses them.                          *)
THEOREM MatchingTypeCorrect == MatchingSpec => []MatchingTypeOK
<1>1. MatchingInit => TasksInv
  BY TasksInit
<1>2. TasksInv /\ [MatchingNext]_matchingVars => TasksInv'
  BY TasksNext, TasksStutter
<1>3. TasksInv => MatchingTypeOK
  BY DEF TasksInv
<1> QED
  BY <1>1, <1>2, <1>3, PTL DEF MatchingSpec

-----------------------------------------------------------------------------
(* The initial states, and what a step leaves as it is. *)

LEMMA InvInit ==
  ASSUME MatchingInit
  PROVE  MatchingInv
<1>1. TasksInv
  BY TasksInit
<1>2. \A w \in Workers : task[w].pc = "idle" /\ ~ task[w].release
  BY DEF MatchingInit, IdleTask
<1>3. /\ upstream.version = 1 /\ recorded = Null /\ Null \notin Nat
      /\ content = 0
  BY MatchingAssumption DEF MatchingInit
<1>4. FeedInv
  BY <1>2, <1>3 DEF FeedInv, FeedOf, Importing
<1>5. StaleInv
  BY <1>2 DEF MatchingInit, StaleInv, Reading
<1>6. ASSUME NEW w \in Workers
      PROVE  Steady(task[w]) /\ \A h \in Hosts : Known(w, h)
  BY <1>2 DEF Steady, Known, Results, Evaluated, BatchFound, DoneIsRight,
              MatchPcs, BatchPcs
<1>7. EmptyIsRight
  BY DEF MatchingInit, EmptyIsRight
<1>8. NoFixIsListed /\ MatchedIsRight
  BY <1>3 DEF MatchingInit, NoFixIsListed, MatchedIsRight
<1> QED
  BY <1>1, <1>4, <1>5, <1>6, <1>7, <1>8 DEF MatchingInv, TablesInv

LEMMA FeedStays ==
  ASSUME MatchingInv, UNCHANGED <<upstream, adv, content>>,
         \A v \in Workers : Importing(task'[v]) =>
           Importing(task[v]) /\ task'[v].feed = task[v].feed
  PROVE  FeedInv'
BY DEF MatchingInv, FeedInv, FeedOf, Importing, Agrees

(* Reads that are not of a match any more may be forgotten. *)
LEMMA StaleStays ==
  ASSUME MatchingInv, upset' = upset,
         \A v \in Workers :
           /\ stale'[v] \subseteq stale[v]
           /\ \A h \in Hosts :
                (Reading(v) /\ Covers(v, h))' =>
                  Reading(v) /\ Covers(v, h) /\ stale'[v] = stale[v]
  PROVE  StaleInv'
BY DEF MatchingInv, StaleInv

LEMMA RightStays ==
  ASSUME UNCHANGED <<rows, adv, open, counted>>, NEW h \in Hosts
  PROVE  Right(h)' <=> Right(h)
BY DEF Right, Installed, Affected

(* A task that stays where it is knows what it knew, while the tables stay *)
(* the same.                                                               *)
LEMMA KnownStays ==
  ASSUME MatchingInv, NEW v \in Workers, NEW h \in Hosts,
         task'[v] = task[v], h \in stale[v] => h \in stale'[v],
         UNCHANGED <<rows, adv, open, noFix, counted>>
  PROVE  Known(v, h)'
<1>1. Known(v, h)
  BY DEF MatchingInv
<1>2. SUFFICES ASSUME Results(task[v], h)
               PROVE  Results(task[v], h)'
  BY <1>1 DEF Known
<1>3. Evaluated(task[v], h)'
  BY <1>2 DEF Results, Evaluated, Installed, Affected
<1>4. BatchFound(task[v], h)'
  BY <1>2 DEF Results, BatchFound, Installed, Affected
<1>5. DoneIsRight(task[v], h)'
  BY <1>2 DEF Results, DoneIsRight, Right, Installed, Affected
<1> QED
  BY <1>3, <1>4, <1>5 DEF Results

LEMMA SteadyStays ==
  ASSUME MatchingInv, NEW v \in Workers, task'[v] = task[v],
         UNCHANGED <<rows, adv>>, \A h \in Hosts : Shown(h) => Shown(h)'
  PROVE  Steady(task[v])'
<1>1. Steady(task[v])
  BY DEF MatchingInv
<1> QED
  BY <1>1 DEF Steady, Affected

(* A task that rests knows nothing and has nothing to record. *)
LEMMA RestKnows ==
  ASSUME NEW v \in Workers, NEW h \in Hosts, Resting(task'[v])
  PROVE  /\ Known(v, h)' /\ Steady(task[v])'
         /\ ~ Importing(task'[v]) /\ ~ Reading(v)'
<1>1. /\ task'[v].pc \notin MatchPcs \cup BatchPcs \cup {"record", "import"}
      /\ ~ task'[v].release
  BY DEF Resting, RestPcs, MatchPcs, BatchPcs
<1>2. ~ Importing(task'[v]) /\ ~ Reading(v)'
  BY <1>1 DEF Importing, Reading, MatchPcs
<1>3. Steady(task[v])'
  BY <1>1 DEF Steady, MatchPcs
<1>4. Results(task[v], h)'
  BY <1>1 DEF Results, Evaluated, BatchFound, DoneIsRight, MatchPcs
<1> QED
  BY <1>2, <1>3, <1>4 DEF Known

LEMMA TablesStay ==
  ASSUME MatchingInv, UNCHANGED <<rows, adv, open, noFix, counted>>,
         content' = recorded' => content = recorded,
         \A h \in Hosts : Shown(h) => Shown(h)'
  PROVE  TablesInv'
BY DEF MatchingInv, TablesInv, EmptyIsRight, NoFixIsListed, MatchedIsRight

LEMMA RestInv ==
  ASSUME MatchingInv, TasksInv', RestStep
  PROVE  MatchingInv'
<1>1. /\ UNCHANGED <<rows, upstream, adv, recorded, open, noFix, counted,
                     pending, upset, content>>
      /\ \A v \in Workers :
           \/ Resting(task'[v]) /\ stale'[v] \subseteq stale[v]
           \/ task'[v] = task[v] /\ stale'[v] = stale[v]
  BY DEF RestStep
<1>2. \A h \in Hosts : Shown(h) => Shown(h)'
  BY <1>1, RightStays DEF Shown
<1>3. ASSUME NEW v \in Workers
      PROVE  /\ Steady(task[v])' /\ \A h \in Hosts : Known(v, h)'
             /\ Importing(task'[v]) => task'[v] = task[v]
             /\ Reading(v)' => task'[v] = task[v] /\ stale'[v] = stale[v]
  <2>1. CASE Resting(task'[v])
    <3>1. Steady(task[v])' /\ \A h \in Hosts : Known(v, h)'
      BY <2>1, RestKnows DEF Steady, Resting, RestPcs
    <3>2. ~ Importing(task'[v]) /\ ~ Reading(v)'
      BY <2>1 DEF Resting, RestPcs, Importing, Reading
    <3> QED
      BY <3>1, <3>2
  <2>2. CASE task'[v] = task[v] /\ stale'[v] = stale[v]
    BY <1>1, <1>2, <2>2, KnownStays, SteadyStays
  <2> QED
    BY <1>1, <2>1, <2>2
<1>4. FeedInv'
  BY <1>1, <1>3, FeedStays
<1>5. StaleInv'
  BY <1>1, <1>3, StaleStays DEF Reading, Covers
<1>6. TablesInv'
  BY <1>1, <1>2, TablesStay
<1> QED
  BY <1>3, <1>4, <1>5, <1>6 DEF MatchingInv

-----------------------------------------------------------------------------
(* The writes that a match may read under. *)

(* A host that reports is pending, and whoever matches it has an outdated  *)
(* read of it from then on.                                                *)
LEMMA ReportInv ==
  ASSUME MatchingInv, NEW h \in Hosts,
         NEW inventory \in SUBSET Packages, Report(h, inventory)
  PROVE  MatchingInv'
<1>1. TasksInv /\ TasksInv' /\ MatchingTypeOK
  BY ReportTyped DEF MatchingInv, TasksInv
<1>2. UNCHANGED <<upstream, adv, recorded, open, noFix, counted, task, content>>
  BY DEF Report, StoredUnder
<1>3. /\ \A g \in Hosts \ {h} : rows'[g] = rows[g] /\ pending'[g] = pending[g]
      /\ rows'[h] # Null /\ pending'[h]
  <2>1. inventory # Null
    BY MatchingAssumption, Zenon
  <2> QED
    BY <1>1, <2>1 DEF Report, MatchingTypeOK
<1>4. ASSUME NEW v \in Workers
      PROVE  /\ Reading(v) /\ Covers(v, h) => stale'[v] = stale[v] \cup {h}
             /\ ~ (Reading(v) /\ Covers(v, h)) => stale'[v] = stale[v]
             /\ Reading(v) /\ Covers(v, h) => h \in upset'
             /\ upset \subseteq upset' /\ upset' \subseteq upset \cup {h}
  BY DEF Report, StoredUnder
<1>5. FeedInv'
  BY <1>2, FeedStays
<1>6. StaleInv'
  <2>1. \A v \in Workers, g \in Hosts :
          Reading(v)' = Reading(v) /\ Covers(v, g)' = Covers(v, g)
    BY <1>2 DEF Reading, Covers
  <2>2. StaleInv
    BY DEF MatchingInv
  <2>3. \A v \in Workers : stale'[v] \subseteq upset'
    BY <1>4, <2>2 DEF StaleInv
  <2>4. ASSUME NEW v \in Workers, NEW u \in Workers, NEW g \in Hosts,
               Reading(u), Covers(u, g), g \in stale'[v]
        PROVE  g \in stale'[u]
    <3>1. CASE g = h
      BY <1>4, <2>4, <3>1
    <3>2. CASE g # h
      <4>1. g \in stale[v]
        BY <1>4, <2>4, <3>2
      <4>2. g \in stale[u]
        BY <2>2, <2>4, <4>1 DEF StaleInv
      <4> QED
        BY <1>4, <4>2
    <3> QED
      BY <3>1, <3>2
  <2> QED
    BY <2>1, <2>3, <2>4 DEF StaleInv
<1>7. ASSUME NEW g \in Hosts \ {h}
      PROVE  /\ Right(g)' <=> Right(g)
             /\ Installed(g)' = Installed(g)
  BY <1>2, <1>3 DEF Right, Installed, Affected
<1>8. \A g \in Hosts : Shown(g) => Shown(g)'
  BY <1>3, <1>4, <1>7 DEF Shown, Workers
<1>9. ASSUME NEW v \in Workers
      PROVE  Steady(task[v])'
  <2>1. Steady(task[v]) /\ WellFormed(task[v])
    BY <1>1 DEF MatchingInv, TasksInv
  <2>2. task[v].pc = "apply" => task[v].batch \in Hosts
    BY <2>1 DEF WellFormed, BatchPcs
  <2> QED
    BY <1>2, <1>3, <1>8, <2>1, <2>2 DEF Steady, Affected
<1>10. ASSUME NEW v \in Workers, NEW g \in Hosts
       PROVE  Known(v, g)'
  <2>1. Known(v, g) /\ task'[v] = task[v] /\ WellFormed(task[v])
    BY <1>1, <1>2 DEF MatchingInv, TasksInv
  <2>2. SUFFICES ASSUME Results(task[v], g), g \notin stale'[v]
                 PROVE  Results(task[v], g)'
    BY <1>4, <2>1 DEF Known
  <2>3. \A s \in Status : Affected(s)' = Affected(s)
    BY <1>2 DEF Affected
  <2>4. CASE g = h
    <3>1. ~ (Reading(v) /\ Covers(v, h))
      BY <1>4, <2>2, <2>4
    <3>2. CASE ~ Reading(v)
      BY <2>1, <3>2 DEF Results, Evaluated, BatchFound, DoneIsRight, Reading,
                        MatchPcs, BatchPcs
    <3>3. CASE ~ Covers(v, h)
      <4>1. ~ task[v].release /\ task[v].host # h
        BY <3>3 DEF Covers
      <4>2. task[v].pc \in BatchPcs => task[v].batch # h
        BY <2>1, <4>1 DEF WellFormed
      <4> QED
        BY <2>1, <2>2, <2>3, <2>4, <4>1, <4>2
           DEF Results, Evaluated, BatchFound, DoneIsRight, BatchPcs, Status
    <3> QED
      BY <3>1, <3>2, <3>3
  <2>5. CASE g # h
    <3>1. /\ Installed(g)' = Installed(g) /\ Right(g)' = Right(g)
          /\ open' = open /\ noFix' = noFix
      BY <1>2, <1>7, <2>5 DEF Right
    <3>2. Evaluated(task[v], g)'
      BY <2>1, <2>2, <2>3, <3>1 DEF Results, Evaluated, Status
    <3>3. BatchFound(task[v], g)'
      BY <2>1, <2>2, <2>3, <3>1 DEF Results, BatchFound, Status
    <3>4. DoneIsRight(task[v], g)'
      BY <2>1, <2>2, <3>1 DEF Results, DoneIsRight
    <3> QED
      BY <3>2, <3>3, <3>4 DEF Results
  <2> QED
    BY <2>4, <2>5
<1>11. TablesInv'
  BY <1>2, <1>3, <1>8 DEF MatchingInv, TablesInv, EmptyIsRight, NoFixIsListed,
                          MatchedIsRight
<1> QED
  BY <1>1, <1>5, <1>6, <1>9, <1>10, <1>11 DEF MatchingInv

(* The feed imported last is older than one that is published. *)
LEMMA PublishInv ==
  ASSUME MatchingInv, NEW status \in Contents, Publish(status)
  PROVE  MatchingInv'
<1>1. TasksInv /\ TasksInv'
  BY PublishTyped DEF MatchingInv
<1>2. UNCHANGED <<rows, adv, recorded, open, noFix, counted, pending, task,
                  stale, upset, content>>
  BY DEF Publish, store, overlaps
<1>3. /\ upstream.version \in Nat /\ upstream'.version = upstream.version + 1
      /\ content \in Nat
  BY <1>1 DEF TasksInv, MatchingTypeOK, Feed, Publish
<1>4. FeedInv'
  <2>1. FeedInv
    BY DEF MatchingInv
  <2>2. ASSUME NEW v \in Workers PROVE FeedOf(task[v])'
    <3>1. FeedOf(task[v])
      BY <2>1 DEF FeedInv
    <3>2. Importing(task[v]) => task[v].feed.version \in 1 .. upstream.version
      BY <3>1 DEF FeedOf
    <3>3. Importing(task[v])' => task[v].feed.version \in 1 .. upstream.version
      BY <1>2, <3>2 DEF Importing
    <3> QED
      BY <1>2, <1>3, <3>3 DEF FeedOf
  <2> QED
    BY <1>2, <1>3, <2>1, <2>2 DEF FeedInv
<1>5. StaleInv'
  BY <1>2, StaleStays DEF Reading, Covers
<1>6. \A h \in Hosts : Shown(h) => Shown(h)'
  BY <1>2, RightStays DEF Shown
<1>7. \A v \in Workers : Steady(task[v])' /\ \A h \in Hosts : Known(v, h)'
  BY <1>2, <1>6, SteadyStays, KnownStays
<1>8. TablesInv'
  BY <1>2, <1>6, TablesStay
<1> QED
  BY <1>1, <1>4, <1>5, <1>7, <1>8 DEF MatchingInv

(* A task downloads what is upstream. *)
LEMMA DownloadInv ==
  ASSUME MatchingInv, NEW w \in Workers, Download(w)
  PROVE  MatchingInv'
<1>1. TasksInv
  BY DEF MatchingInv
<1>2. /\ TasksInv' /\ OthersStay(w) /\ task'[w].pc = "import" /\ ~ task'[w].release
      /\ task'[w].feed = upstream
  BY <1>1, DownloadTyped
<1>3. UNCHANGED <<rows, upstream, recorded, adv, open, noFix, counted, pending,
                  stale, upset, content>>
  BY DEF Download, store, overlaps
<1>4. \A h \in Hosts : Shown(h) => Shown(h)'
  BY <1>3, RightStays DEF Shown
<1>5. FeedInv'
  <2>1. FeedInv /\ upstream.version \in Nat /\ upstream.version >= 1
    BY <1>1 DEF MatchingInv, FeedInv, TasksInv, MatchingTypeOK, Feed
  <2>2. ASSUME NEW v \in Workers \ {w} PROVE FeedOf(task[v])'
    BY <1>2, <1>3, <2>1 DEF FeedInv, FeedOf, Importing, OthersStay
  <2>3. FeedOf(task[w])'
    BY <1>2, <1>3, <2>1 DEF FeedOf
  <2> QED
    BY <1>3, <2>1, <2>2, <2>3 DEF FeedInv, Agrees
<1>6. StaleInv'
  <2>1. \A v \in Workers : Reading(v)' => v # w /\ task'[v] = task[v]
    BY <1>2 DEF Reading, OthersStay
  <2> QED
    BY <1>3, <2>1, StaleStays DEF Reading, Covers
<1>7. Steady(task[w])' /\ \A h \in Hosts : Known(w, h)'
  BY <1>2 DEF Steady, Known, Results, Evaluated, BatchFound, DoneIsRight,
              MatchPcs, BatchPcs
<1>8. \A v \in Workers \ {w} : Steady(task[v])' /\ \A h \in Hosts : Known(v, h)'
  BY <1>2, <1>3, <1>4, SteadyStays, KnownStays DEF OthersStay
<1>9. TablesInv'
  BY <1>3, <1>4, TablesStay
<1> QED
  BY <1>2, <1>5, <1>6, <1>7, <1>8, <1>9 DEF MatchingInv

(* Whoever matches while the advisories are replaced has outdated reads of *)
(* all hosts; nobody is right by the new advisories until the match of the *)
(* release, unless they come late and all hosts are upset.                 *)
LEMMA ReplaceInv ==
  ASSUME MatchingInv, NEW w \in Workers, ReplaceAdvisories(w)
  PROVE  MatchingInv'
<1>1. TasksInv /\ Null \notin Nat /\ MatchingTypeOK
  BY MatchingAssumption DEF MatchingInv, TasksInv
<1>2. /\ TasksInv' /\ OthersStay(w) /\ task'[w].pc = "versions" /\ task'[w].release
      /\ task'[w].feed = task[w].feed
  BY <1>1, ReplaceTyped
<1>3. UNCHANGED <<rows, upstream, recorded, open, noFix, counted, pending>>
  BY DEF ReplaceAdvisories
<1>4. /\ task[w].pc = "import" /\ task[w].feed \in Feed /\ Importing(task[w])
      /\ content' = task[w].feed.version
  <2>1. task[w] \in Task /\ task[w].pc = "import"
    BY <1>1 DEF MatchingTypeOK, ReplaceAdvisories
  <2> QED
    BY <2>1, TaskFields DEF Importing, ReplaceAdvisories, ImportedUnder
<1>5. /\ adv' \in [Packages -> Status] /\ adv \in [Packages -> Status]
      /\ \A p \in Packages :
           adv'[p] = IF task[w].feed.status[p] = "missing" THEN adv[p]
                                                    ELSE task[w].feed.status[p]
  BY <1>1, <1>2 DEF TasksInv, MatchingTypeOK, ReplaceAdvisories, Upserted
<1>6. Agrees(task[w].feed)'
  BY <1>2, <1>5 DEF Agrees
<1>7. FeedInv'
  <2>1. FeedInv
    BY DEF MatchingInv
  <2>2. /\ task[w].feed.version \in 1 .. upstream.version
        /\ task[w].feed.version = upstream.version => task[w].feed = upstream
    BY <1>4, <2>1 DEF FeedInv, FeedOf
  <2>3. ASSUME NEW v \in Workers PROVE FeedOf(task[v])'
    <3>1. CASE v = w
      BY <1>2, <1>3, <2>2, <3>1 DEF FeedOf
    <3>2. CASE v # w
      BY <1>2, <1>3, <2>1, <3>2 DEF FeedInv, FeedOf, Importing, OthersStay
    <3> QED
      BY <3>1, <3>2
  <2>4. content' <= upstream.version /\ upstream.version >= 1
    BY <1>4, <2>1, <2>2 DEF FeedInv
  <2>5. content' = upstream.version => Agrees(upstream)'
    BY <1>2, <1>3, <1>4, <1>6, <2>2 DEF Agrees
  <2> QED
    BY <1>3, <2>3, <2>4, <2>5 DEF FeedInv
<1>8. /\ \A v \in Workers \ {w} : Reading(v) => stale'[v] = Hosts /\ upset' = Hosts
      /\ \A v \in Workers \ {w} : task[v].pc = "record" => upset' = Hosts
      /\ recorded # Null /\ content' <= recorded => upset' = Hosts
      /\ \A v \in Workers : ~ Reading(v) \/ v = w => stale'[v] = stale[v]
      /\ upset \subseteq upset'
  BY <1>1, <1>4 DEF ReplaceAdvisories, ImportedUnder, MatchingTypeOK
<1>9. StaleInv'
  <2>1. \A v \in Workers : Reading(v)' => v # w /\ Reading(v)
    BY <1>2 DEF Reading, OthersStay
  <2>2. stale' \in [Workers -> SUBSET Hosts] /\ StaleInv
    BY <1>2 DEF TasksInv, MatchingTypeOK, MatchingInv
  <2>3. \A v \in Workers : stale'[v] \subseteq upset'
    BY <1>8, <2>2 DEF StaleInv
  <2> QED
    BY <1>8, <2>1, <2>3 DEF StaleInv
<1>10. ASSUME NEW v \in Workers \ {w} PROVE Steady(task[v])'
  <2>1. Steady(task[v]) /\ task'[v] = task[v] /\ task[v] \in Task
    BY <1>1, <1>2 DEF MatchingInv, OthersStay, MatchingTypeOK
  <2>2. Affected("missing")' \subseteq Affected("missing")
    BY <1>5 DEF Affected
  <2>3. task[v].pc = "record" => \A h \in Hosts : Shown(h)'
    BY <1>8 DEF Shown
  <2> QED
    BY <1>3, <2>1, <2>2, <2>3 DEF Steady
<1>11. ASSUME NEW v \in Workers \ {w}, NEW h \in Hosts PROVE Known(v, h)'
  <2>1. CASE Reading(v)
    BY <1>8, <2>1 DEF Known
  <2>2. CASE ~ Reading(v)
    BY <1>2, <2>2 DEF Known, Results, Evaluated, BatchFound, DoneIsRight,
                      OthersStay, Reading, MatchPcs, BatchPcs
  <2> QED
    BY <2>1, <2>2
<1>12. Steady(task[w])' /\ \A h \in Hosts : Known(w, h)'
  BY <1>2 DEF Steady, Known, Results, Evaluated, BatchFound, DoneIsRight,
              MatchPcs, BatchPcs
<1>13. EmptyIsRight'
  BY <1>3 DEF MatchingInv, TablesInv, EmptyIsRight
<1>14. NoFixIsListed'
  BY <1>3, <1>5 DEF MatchingInv, TablesInv, NoFixIsListed
<1>15. MatchedIsRight'
  <2>1. content' \in Nat
    BY <1>2 DEF TasksInv, MatchingTypeOK
  <2>2. content' = recorded' => upset' = Hosts
    BY <1>1, <1>3, <1>8, <2>1
  <2> QED
    BY <2>2 DEF MatchedIsRight, Shown
<1> QED
  BY <1>2, <1>7, <1>9, <1>10, <1>11, <1>12, <1>13, <1>14, <1>15
     DEF MatchingInv, TablesInv

-----------------------------------------------------------------------------
(* The steps of a match. *)

(* A match begins with the outdated reads of those that run. *)
LEMMA VersionCandidatesInv ==
  ASSUME MatchingInv, NEW w \in Workers, VersionCandidates(w)
  PROVE  MatchingInv'
<1>1. TasksInv /\ MatchingTypeOK /\ task[w].pc = "versions"
  BY DEF MatchingInv, TasksInv, VersionCandidates
<1>2. /\ TasksInv' /\ OthersStay(w)
      /\ task'[w].pc = "applyVersions"
      /\ task'[w].release = task[w].release
      /\ task'[w].host = task[w].host /\ task'[w].feed = task[w].feed
      /\ task'[w].evaluated = VersionsOf(task[w]) \ Affected("missing")
      /\ task'[w].pairs = VersionsOf(task[w]) \cap Affected("fixable")
      /\ task'[w].without = VersionsOf(task[w]) \cap Affected("nofix")
  BY <1>1, VersionCandidatesTyped
<1>3. UNCHANGED <<rows, upstream, recorded, adv, open, noFix, counted, pending,
                  upset, content>>
  BY DEF VersionCandidates, BeginMatch, store
<1>4. /\ stale'[w] = {h \in Hosts : Outdated(h)}
      /\ \A v \in Workers \ {w} : stale'[v] = stale[v]
  BY <1>1 DEF VersionCandidates, BeginMatch, MatchingTypeOK
<1>5. \A h \in Hosts : Shown(h) => Shown(h)'
  BY <1>3, RightStays DEF Shown
<1>6. FeedInv'
  BY <1>1, <1>2, <1>3, FeedStays DEF Importing, OthersStay
<1>7. StaleInv'
  <2>1. StaleInv
    BY DEF MatchingInv
  <2>2. \A v \in Workers, h \in Hosts :
          h \in stale'[v] => \E u \in Workers : h \in stale[u]
    BY <1>4 DEF Outdated
  <2>3. \A v \in Workers : stale'[v] \subseteq upset'
    <3>1. stale'[w] \subseteq upset
      BY <1>4, <2>1 DEF Outdated, StaleInv
    <3> QED
      BY <1>3, <1>4, <2>1, <3>1 DEF StaleInv
  <2>4. ASSUME NEW v \in Workers, NEW u \in Workers, NEW h \in Hosts,
               (Reading(u) /\ Covers(u, h))', h \in stale'[v]
        PROVE  h \in stale'[u]
    <3>1. PICK x \in Workers : h \in stale[x]
      BY <2>2, <2>4
    <3>2. CASE u = w
      BY <1>4, <3>1, <3>2 DEF Outdated
    <3>3. CASE u # w
      <4>1. Reading(u) /\ Covers(u, h)
        BY <1>2, <2>4, <3>3 DEF OthersStay, Reading, Covers
      <4> QED
        BY <1>4, <2>1, <3>1, <3>3, <4>1 DEF StaleInv
    <3> QED
      BY <3>2, <3>3
  <2> QED
    BY <2>3, <2>4 DEF StaleInv
<1>8. \A s \in Status : Affected(s)' = Affected(s)
  BY <1>3 DEF Affected
<1>9. Steady(task[w])'
  BY <1>2, <1>3 DEF Steady, Affected
<1>10. ASSUME NEW h \in Hosts PROVE Known(w, h)'
  <2>1. task[w].release \/ task[w].host = h => Installed(h) \subseteq VersionsOf(task[w])
    BY <1>1 DEF VersionsOf, TasksInv, WellFormed
  <2>2. Installed(h)' = Installed(h)
    BY <1>3 DEF Installed
  <2>3. Evaluated(task[w], h)'
    BY <1>2, <1>8, <2>1, <2>2 DEF Evaluated, MatchPcs, Status, Affected
  <2> QED
    BY <1>2, <2>3 DEF Known, Results, BatchFound, DoneIsRight, BatchPcs
<1>11. \A v \in Workers \ {w} : Steady(task[v])' /\ \A h \in Hosts : Known(v, h)'
  BY <1>2, <1>3, <1>4, <1>5, SteadyStays, KnownStays DEF OthersStay
<1>12. TablesInv'
  BY <1>3, <1>5, TablesStay
<1> QED
  BY <1>2, <1>6, <1>7, <1>9, <1>10, <1>11, <1>12 DEF MatchingInv

(* A match that goes on: what it covers stays the same. *)
LEMMA MatchGoesOn ==
  ASSUME MatchingInv, NEW w \in Workers, OthersStay(w),
         UNCHANGED <<upstream, adv, overlaps>>,
         task[w].pc \in MatchPcs, task'[w].pc \in MatchPcs,
         task'[w].release = task[w].release, task'[w].host = task[w].host,
         task'[w].feed = task[w].feed
  PROVE  FeedInv' /\ StaleInv'
<1>1. FeedInv'
  BY FeedStays DEF Importing, OthersStay, MatchPcs, overlaps
<1>2. \A v \in Workers, h \in Hosts :
        (Reading(v) /\ Covers(v, h))' => Reading(v) /\ Covers(v, h)
  BY DEF Reading, Covers, OthersStay, MatchPcs
<1>3. StaleInv'
  BY <1>2, StaleStays DEF overlaps
<1> QED
  BY <1>1, <1>3

(* What a match evaluated stays what the tables give until its mark, while *)
(* they stay as they are.                                                  *)
LEMMA EvaluatedStays ==
  ASSUME NEW w \in Workers, NEW h \in Hosts, Results(task[w], h),
         UNCHANGED <<rows, adv, noFix>>,
         task[w].pc \in MatchPcs \ {"applyVersions"},
         task'[w].pc \in MatchPcs \ {"applyVersions"},
         task'[w].release = task[w].release, task'[w].host = task[w].host,
         task'[w].pairs = task[w].pairs
  PROVE  Evaluated(task[w], h)'
BY DEF Results, Evaluated, Installed, Affected

(* A step of a match that only reads. *)
LEMMA MatchReads ==
  ASSUME MatchingInv, NEW w \in Workers, TasksInv', OthersStay(w),
         UNCHANGED <<rows, upstream, store, overlaps>>,
         task[w].pc \in MatchPcs \ {"applyVersions"},
         task'[w].pc \in MatchPcs \ {"applyVersions"},
         task'[w].release = task[w].release, task'[w].host = task[w].host,
         task'[w].feed = task[w].feed, task'[w].pairs = task[w].pairs,
         Steady(task[w])',
         \A h \in Hosts :
           Results(task[w], h) => BatchFound(task[w], h)' /\ DoneIsRight(task[w], h)'
  PROVE  MatchingInv'
<1>1. UNCHANGED <<rows, upstream, recorded, adv, open, noFix, counted, pending,
                  stale, upset, content>>
  BY DEF store, overlaps
<1>2. FeedInv' /\ StaleInv'
  BY <1>1, MatchGoesOn
<1>3. \A h \in Hosts : Shown(h) => Shown(h)'
  BY <1>1, RightStays DEF Shown
<1>4. ASSUME NEW h \in Hosts PROVE Known(w, h)'
  <2>1. Known(w, h)
    BY DEF MatchingInv
  <2>2. CASE Results(task[w], h)
    BY <1>1, <2>2, EvaluatedStays DEF Known, Results
  <2>3. CASE h \in stale[w]
    BY <1>1, <2>3 DEF Known
  <2> QED
    BY <2>1, <2>2, <2>3 DEF Known
<1>5. \A v \in Workers \ {w} : Steady(task[v])' /\ \A h \in Hosts : Known(v, h)'
  BY <1>1, <1>3, SteadyStays, KnownStays DEF OthersStay
<1>6. TablesInv'
  BY <1>1, <1>3, TablesStay
<1> QED
  BY <1>2, <1>4, <1>5, <1>6 DEF MatchingInv

(* A host without an inventory has nothing, and is right. *)
LEMMA EmptyRight ==
  ASSUME MatchingInv, NEW h \in Hosts, rows[h] = Null
  PROVE  Right(h)
BY DEF MatchingInv, TablesInv, EmptyIsRight, Right, Installed

(* The hosts of a release are those with an inventory. *)
LEMMA ReleaseHostsInv ==
  ASSUME MatchingInv, NEW w \in Workers, ReleaseHosts(w)
  PROVE  MatchingInv'
<1>1. TasksInv /\ task[w].pc = "hosts"
  BY DEF MatchingInv, ReleaseHosts
<1>2. /\ TasksInv' /\ OthersStay(w)
      /\ task'[w].pc = "mark" /\ task'[w].release /\ task[w].release
      /\ task'[w].left = {h \in Hosts : rows[h] # Null}
      /\ task'[w].host = task[w].host
      /\ task'[w].feed = task[w].feed /\ task'[w].pairs = task[w].pairs
  BY <1>1, ReleaseHostsTyped
<1>3. task'[w].release = task[w].release
  <2>1. task[w].release \in BOOLEAN /\ task'[w].release \in BOOLEAN
    BY <1>1, <1>2, TaskFields DEF TasksInv, MatchingTypeOK
  <2> QED
    BY <1>2, <2>1
<1>4. UNCHANGED <<rows, upstream, store, overlaps>>
  BY DEF ReleaseHosts
<1>5. Steady(task[w])'
  BY <1>2 DEF Steady
<1>6. ASSUME NEW h \in Hosts
      PROVE  BatchFound(task[w], h)' /\ DoneIsRight(task[w], h)'
  <2>1. rows[h] = Null => Right(h)'
    BY <1>4, EmptyRight, RightStays DEF store
  <2> QED
    BY <1>2, <2>1 DEF BatchFound, DoneIsRight, BatchPcs
<1> QED
  BY <1>1, <1>2, <1>3, <1>4, <1>5, <1>6, MatchReads DEF MatchPcs

LEMMA NextBatchInv ==
  ASSUME MatchingInv, NEW w \in Workers, NEW h \in Hosts, NextBatch(w, h)
  PROVE  MatchingInv'
<1>1. TasksInv /\ task[w].pc = "mark"
  BY DEF MatchingInv, NextBatch
<1>2. /\ TasksInv' /\ OthersStay(w)
      /\ task'[w].pc = "candidates" /\ task'[w].batch = h
      /\ task'[w].left = task[w].left \ {h}
      /\ task[w].release /\ task'[w].release /\ task'[w].host = task[w].host
      /\ task'[w].feed = task[w].feed /\ task'[w].pairs = task[w].pairs
  BY <1>1, NextBatchTyped
<1>3. task'[w].release = task[w].release
  <2>1. task[w].release \in BOOLEAN /\ task'[w].release \in BOOLEAN
    BY <1>1, <1>2, TaskFields DEF TasksInv, MatchingTypeOK
  <2> QED
    BY <1>2, <2>1
<1>4. UNCHANGED <<rows, upstream, store, overlaps>>
  BY DEF NextBatch
<1>5. Steady(task[w])'
  BY <1>2 DEF Steady
<1>6. ASSUME NEW g \in Hosts, Results(task[w], g)
      PROVE  BatchFound(task[w], g)' /\ DoneIsRight(task[w], g)'
  <2>1. g \in task[w].left \/ Right(g)
    BY <1>1, <1>2, <1>6 DEF Results, DoneIsRight
  <2>2. Right(g) => Right(g)'
    BY <1>4, RightStays DEF store
  <2> QED
    BY <1>2, <2>1, <2>2 DEF BatchFound, DoneIsRight
<1> QED
  BY <1>1, <1>2, <1>3, <1>4, <1>5, <1>6, MatchReads DEF MatchPcs

(* The pairs are those of all versions of the batch. *)
LEMMA CandidatesInv ==
  ASSUME MatchingInv, NEW w \in Workers, Candidates(w)
  PROVE  MatchingInv'
<1>1. TasksInv /\ task[w].pc = "candidates"
  BY DEF MatchingInv, Candidates
<1>2. /\ TasksInv' /\ OthersStay(w)
      /\ task'[w].pc = "apply"
      /\ task'[w].found = Installed(task[w].batch) \cap task[w].pairs
                            \cap Affected("fixable")
      /\ task'[w].batch = task[w].batch /\ task'[w].left = task[w].left
      /\ task'[w].release = task[w].release /\ task'[w].host = task[w].host
      /\ task'[w].feed = task[w].feed /\ task'[w].pairs = task[w].pairs
  BY <1>1, CandidatesTyped
<1>3. UNCHANGED <<rows, upstream, store, overlaps>>
  BY DEF Candidates
<1>4. Steady(task[w])'
  BY <1>2, <1>3 DEF Steady, Installed
<1>5. ASSUME NEW h \in Hosts, Results(task[w], h)
      PROVE  BatchFound(task[w], h)' /\ DoneIsRight(task[w], h)'
  <2>1. task[w].batch = h => task[w].release \/ task[w].host = h
    BY <1>1 DEF TasksInv, WellFormed, BatchPcs
  <2>2. task[w].batch = h => task'[w].found = Installed(h) \cap Affected("fixable")
    BY <1>1, <1>2, <1>5, <2>1 DEF Results, Evaluated, MatchPcs
  <2>3. BatchFound(task[w], h)'
    BY <1>2, <1>3, <2>2 DEF BatchFound, Installed, Affected, store
  <2>4. Right(h) => Right(h)'
    BY <1>3, RightStays DEF store
  <2>5. DoneIsRight(task[w], h)'
    BY <1>1, <1>2, <1>5, <2>4 DEF Results, DoneIsRight, BatchPcs
  <2> QED
    BY <2>3, <2>5
<1> QED
  BY <1>1, <1>2, <1>3, <1>4, <1>5, MatchReads DEF MatchPcs

(* A host that two matches cover at once is outdated in both or in none. *)
LEMMA StaleTogether ==
  ASSUME MatchingInv, NEW v \in Workers, NEW w \in Workers, NEW h \in Hosts,
         Reading(v), Covers(v, h), h \notin stale[v]
  PROVE  h \notin stale[w]
BY DEF MatchingInv, StaleInv

(* All that a match evaluates gets its advisory's word, and a version that *)
(* no advisory lists has none: what another match wrote stays right.       *)
LEMMA ApplyVersionsInv ==
  ASSUME MatchingInv, NEW w \in Workers, ApplyVersions(w)
  PROVE  MatchingInv'
<1>1. TasksInv /\ MatchingTypeOK /\ task[w].pc = "applyVersions"
  BY DEF MatchingInv, TasksInv, ApplyVersions
<1>2. /\ TasksInv' /\ OthersStay(w)
      /\ task'[w].pc = IF task[w].release THEN "hosts" ELSE "candidates"
      /\ ~ task[w].release => task'[w].batch = task[w].host
      /\ task'[w].release = task[w].release /\ task'[w].host = task[w].host
      /\ task'[w].feed = task[w].feed /\ task'[w].pairs = task[w].pairs
  BY <1>1, ApplyVersionsTyped
<1>3. UNCHANGED <<rows, upstream, recorded, adv, open, counted, pending,
                  stale, upset, content>>
  BY DEF ApplyVersions, overlaps
<1>4. FeedInv' /\ StaleInv'
  BY <1>1, <1>2, <1>3, MatchGoesOn DEF MatchPcs, overlaps
<1>5. \A h \in Hosts : (Shown(h) => Shown(h)') /\ Installed(h)' = Installed(h)
  BY <1>3, RightStays DEF Shown, Installed
<1>6. \A s \in Status : Affected(s)' = Affected(s)
  BY <1>3 DEF Affected
<1>7. /\ noFix' = (noFix \ task[w].evaluated) \cup task[w].without
      /\ task[w].without \cap Affected("missing") = {}
      /\ noFix \cap Affected("missing") = {}
      /\ task[w].without \subseteq Packages /\ noFix \subseteq Packages
  <2>1. Steady(task[w]) /\ NoFixIsListed /\ task[w] \in Task
    BY <1>1 DEF MatchingInv, TablesInv, MatchingTypeOK
  <2> QED
    BY <1>1, <2>1, TaskFields
       DEF ApplyVersions, Steady, NoFixIsListed, Affected, MatchingTypeOK
<1>8. Steady(task[w])'
  BY <1>2 DEF Steady
<1>9. ASSUME NEW h \in Hosts PROVE Known(w, h)'
  <2>1. SUFFICES ASSUME Results(task[w], h)
                 PROVE  Results(task[w], h)'
    BY <1>3 DEF MatchingInv, Known
  <2>2. ASSUME task[w].release \/ task[w].host = h
        PROVE  /\ Installed(h) \cap noFix' = Installed(h) \cap Affected("nofix")
               /\ Installed(h) \cap Affected("fixable") \subseteq task[w].pairs
    <3>1. /\ task[w].without = task[w].evaluated \cap Affected("nofix")
          /\ Installed(h) \ Affected("missing") \subseteq task[w].evaluated
          /\ Installed(h) \cap Affected("fixable") \subseteq task[w].pairs
      BY <1>1, <2>1, <2>2 DEF Results, Evaluated, MatchPcs
    <3>2. Affected("nofix") \cap Affected("missing") = {}
      BY DEF Affected
    <3> QED
      BY <1>7, <3>1, <3>2
  <2>3. Evaluated(task[w], h)'
    BY <1>2, <1>5, <1>6, <2>2 DEF Evaluated, Status
  <2>4. BatchFound(task[w], h)'
    BY <1>2 DEF BatchFound
  <2>5. DoneIsRight(task[w], h)'
    BY <1>2 DEF DoneIsRight, BatchPcs
  <2> QED
    BY <2>3, <2>4, <2>5 DEF Results
<1>10. ASSUME NEW v \in Workers \ {w}, NEW h \in Hosts PROVE Known(v, h)'
  <2>1. task'[v] = task[v] /\ Known(v, h)
    BY <1>2 DEF OthersStay, MatchingInv
  <2>2. SUFFICES ASSUME Results(task[v], h), h \notin stale[v]
                 PROVE  Results(task[v], h)'
    BY <1>3, <2>1 DEF Known
  <2>3. ASSUME task[v].release \/ task[v].host = h,
               task[v].pc \in MatchPcs \ {"applyVersions"}
        PROVE  Installed(h) \cap noFix' = Installed(h) \cap Affected("nofix")
    <3>1. h \notin stale[w]
      BY <2>2, <2>3, StaleTogether DEF Reading, Covers, MatchPcs
    <3>2. task[w].without = task[w].evaluated \cap Affected("nofix")
      BY <1>1, <3>1 DEF MatchingInv, Known, Results, Evaluated
    <3>3. Installed(h) \cap noFix = Installed(h) \cap Affected("nofix")
      BY <2>2, <2>3 DEF Results, Evaluated
    <3> QED
      BY <1>7, <3>2, <3>3
  <2>4. Evaluated(task[v], h)'
    BY <1>5, <1>6, <2>1, <2>2, <2>3 DEF Results, Evaluated, Status
  <2>5. BatchFound(task[v], h)'
    BY <1>3, <1>5, <1>6, <2>1, <2>2 DEF Results, BatchFound, Status
  <2>6. DoneIsRight(task[v], h)'
    BY <1>3, <2>1, <2>2, RightStays DEF Results, DoneIsRight
  <2> QED
    BY <2>4, <2>5, <2>6 DEF Results
<1>11. \A v \in Workers \ {w} : Steady(task[v])'
  BY <1>2, <1>3, <1>5, SteadyStays DEF OthersStay
<1>12. EmptyIsRight' /\ MatchedIsRight'
  BY <1>3, <1>5 DEF MatchingInv, TablesInv, EmptyIsRight, MatchedIsRight
<1>13. NoFixIsListed'
  BY <1>3, <1>7 DEF NoFixIsListed, Affected
<1> QED
  BY <1>2, <1>4, <1>8, <1>9, <1>10, <1>11, <1>12, <1>13 DEF MatchingInv, TablesInv

(* A step of a match that stores the vulnerabilities or the counts of a    *)
(* host: it makes nobody wrong, unless it is of an outdated read.          *)
LEMMA MatchWrites ==
  ASSUME MatchingInv, NEW w \in Workers, TasksInv', OthersStay(w),
         UNCHANGED <<rows, upstream, adv, recorded, noFix, pending, overlaps>>,
         task[w].pc \in BatchPcs, task'[w].pc \in MatchPcs \ {"applyVersions"},
         task'[w].release = task[w].release, task'[w].host = task[w].host,
         task'[w].feed = task[w].feed, task'[w].pairs = task[w].pairs,
         \A h \in Hosts : h \in stale[w] \/ (Right(h) => Right(h)'),
         \A h \in Hosts \ {task[w].batch} : open'[h] = open[h],
         task[w].batch \notin stale[w] =>
           open'[task[w].batch] =
             Installed(task[w].batch) \cap Affected("fixable"),
         EmptyIsRight', Steady(task[w])',
         \A h \in Hosts : Results(task[w], h) =>
           h \in stale[w] \/ (BatchFound(task[w], h)' /\ DoneIsRight(task[w], h)')
  PROVE  MatchingInv'
<1>1. UNCHANGED <<stale, upset, content>> /\ StaleInv
  BY DEF overlaps, MatchingInv
<1>2. FeedInv' /\ StaleInv'
  BY MatchGoesOn DEF MatchPcs, BatchPcs
<1>3. \A h \in Hosts : (Shown(h) => Shown(h)') /\ Installed(h)' = Installed(h)
  BY <1>1 DEF Shown, StaleInv, Installed
<1>4. \A s \in Status : Affected(s)' = Affected(s)
  BY DEF Affected
<1>5. ASSUME NEW h \in Hosts PROVE Known(w, h)'
  <2>1. Known(w, h)
    BY DEF MatchingInv
  <2>2. CASE h \in stale[w]
    BY <1>1, <2>2 DEF Known
  <2>3. CASE h \notin stale[w]
    <3>1. Results(task[w], h)
      BY <2>1, <2>3 DEF Known
    <3>2. Evaluated(task[w], h)'
      BY <3>1, EvaluatedStays DEF BatchPcs, MatchPcs
    <3> QED
      BY <2>3, <3>1, <3>2 DEF Known, Results
  <2> QED
    BY <2>2, <2>3
<1>6. ASSUME NEW v \in Workers \ {w}, NEW h \in Hosts PROVE Known(v, h)'
  <2>1. task'[v] = task[v] /\ Known(v, h) /\ WellFormed(task[v])
    BY DEF OthersStay, MatchingInv, TasksInv
  <2>2. SUFFICES ASSUME Results(task[v], h), h \notin stale[v]
                 PROVE  Results(task[v], h)'
    BY <1>1, <2>1 DEF Known
  <2>3. Evaluated(task[v], h)'
    BY <1>3, <1>4, <2>1, <2>2 DEF Results, Evaluated, Status
  <2>4. ASSUME task[v].pc \in MatchPcs, task[v].release \/ task[v].host = h
        PROVE  h \notin stale[w]
    BY <2>2, <2>4, StaleTogether DEF Reading, Covers, MatchPcs
  <2>5. BatchFound(task[v], h)'
    <3>1. task[v].pc \in BatchPcs /\ task[v].batch = h => h \notin stale[w]
      BY <2>1, <2>4 DEF WellFormed, BatchPcs, MatchPcs
    <3>2. CASE h = task[w].batch
      BY <1>3, <1>4, <2>1, <2>2, <3>1, <3>2
         DEF Results, BatchFound, BatchPcs, Status
    <3>3. CASE h # task[w].batch
      BY <1>3, <1>4, <2>1, <2>2, <3>3 DEF Results, BatchFound, Status
    <3> QED
      BY <3>2, <3>3
  <2>6. DoneIsRight(task[v], h)'
    BY <2>1, <2>2, <2>4 DEF Results, DoneIsRight, BatchPcs, MatchPcs
  <2> QED
    BY <2>3, <2>5, <2>6 DEF Results
<1>7. \A v \in Workers \ {w} : Steady(task[v])'
  BY <1>3, SteadyStays DEF OthersStay
<1>8. NoFixIsListed' /\ MatchedIsRight'
  BY <1>1, <1>3 DEF MatchingInv, TablesInv, NoFixIsListed, MatchedIsRight
<1> QED
  BY <1>2, <1>5, <1>6, <1>7, <1>8 DEF MatchingInv, TablesInv

LEMMA ApplyFoundInv ==
  ASSUME MatchingInv, NEW w \in Workers, ApplyFound(w)
  PROVE  MatchingInv'
<1> DEFINE b == task[w].batch
<1>1. TasksInv /\ MatchingTypeOK /\ task[w].pc = "apply" /\ b \in Hosts
  BY DEF MatchingInv, TasksInv, ApplyFound, WellFormed, BatchPcs
<1>2. /\ TasksInv' /\ OthersStay(w)
      /\ task'[w].pc = "counts"
      /\ task'[w].batch = task[w].batch /\ task'[w].left = task[w].left
      /\ task'[w].release = task[w].release /\ task'[w].host = task[w].host
      /\ task'[w].feed = task[w].feed /\ task'[w].pairs = task[w].pairs
  BY <1>1, ApplyFoundTyped
<1>3. UNCHANGED <<rows, upstream, adv, recorded, noFix, counted, pending, overlaps>>
  BY DEF ApplyFound
<1>4. open'[b] = task[w].found /\ \A h \in Hosts \ {b} : open'[h] = open[h]
  BY <1>1 DEF ApplyFound, MatchingTypeOK
<1>5. b \notin stale[w] => open'[b] = Installed(b) \cap Affected("fixable")
  BY <1>1, <1>4 DEF MatchingInv, Known, Results, BatchFound
<1>6. \A h \in Hosts : Installed(h)' = Installed(h)
  BY <1>3 DEF Installed
<1>7. \A s \in Status : Affected(s)' = Affected(s)
  BY <1>3 DEF Affected
<1>8. ASSUME NEW h \in Hosts, h \notin stale[w], Right(h) PROVE Right(h)'
  BY <1>3, <1>4, <1>5, <1>6, <1>7, <1>8 DEF Right, Status
<1>9. EmptyIsRight'
  <2>1. Steady(task[w]) /\ EmptyIsRight
    BY DEF MatchingInv, TablesInv
  <2> QED
    BY <1>1, <1>3, <1>4, <2>1 DEF Steady, EmptyIsRight
<1>10. Steady(task[w])'
  BY <1>2 DEF Steady
<1>11. ASSUME NEW h \in Hosts, Results(task[w], h), h \notin stale[w]
       PROVE  BatchFound(task[w], h)' /\ DoneIsRight(task[w], h)'
  <2>1. BatchFound(task[w], h)'
    BY <1>2, <1>5, <1>6, <1>7, <1>11 DEF BatchFound, Status
  <2>2. DoneIsRight(task[w], h)'
    BY <1>1, <1>2, <1>8, <1>11 DEF Results, DoneIsRight, BatchPcs
  <2> QED
    BY <2>1, <2>2
<1> QED
  BY <1>1, <1>2, <1>3, <1>4, <1>5, <1>8, <1>9, <1>10, <1>11, MatchWrites
     DEF BatchPcs, MatchPcs

(* With its vulnerabilities counted, a host is right. *)
LEMMA RefreshCountsInv ==
  ASSUME MatchingInv, NEW w \in Workers, RefreshCounts(w)
  PROVE  MatchingInv'
<1>1. PICK b \in Hosts :
        /\ TasksInv /\ MatchingTypeOK /\ task[w].pc = "counts"
        /\ b = task[w].batch /\ (task[w].release \/ task[w].host = b)
  BY DEF MatchingInv, TasksInv, RefreshCounts, WellFormed, BatchPcs
<1>2. /\ TasksInv' /\ OthersStay(w)
      /\ task'[w].pc = "mark" /\ task'[w].left = task[w].left
      /\ task'[w].release = task[w].release /\ task'[w].host = task[w].host
      /\ task'[w].feed = task[w].feed /\ task'[w].pairs = task[w].pairs
  BY <1>1, RefreshCountsTyped
<1>3. UNCHANGED <<rows, upstream, adv, recorded, noFix, open, pending, overlaps>>
  BY DEF RefreshCounts
<1>4. /\ counted'[b] = [open |-> open[b], noFix |-> Installed(b) \cap noFix]
      /\ \A h \in Hosts \ {b} : counted'[h] = counted[h]
  BY <1>1 DEF RefreshCounts, MatchingTypeOK
<1>5. \A h \in Hosts : Installed(h)' = Installed(h)
  BY <1>3 DEF Installed
<1>6. \A s \in Status : Affected(s)' = Affected(s)
  BY <1>3 DEF Affected
<1>7. ASSUME b \notin stale[w]
      PROVE  Right(b)' /\ open'[b] = Installed(b) \cap Affected("fixable")
  <2>1. Results(task[w], b)
    BY <1>1, <1>7 DEF MatchingInv, Known
  <2>2. /\ open[b] = Installed(b) \cap Affected("fixable")
        /\ Installed(b) \cap noFix = Installed(b) \cap Affected("nofix")
    BY <1>1, <2>1 DEF Results, BatchFound, Evaluated, MatchPcs
  <2> QED
    BY <1>1, <1>3, <1>4, <1>5, <1>6, <2>2 DEF Right, Status
<1>8. ASSUME NEW h \in Hosts, h \notin stale[w], Right(h) PROVE Right(h)'
  <2>1. CASE h = b
    BY <1>7, <1>8, <2>1
  <2>2. CASE h # b
    BY <1>3, <1>4, <1>5, <1>6, <1>8, <2>2 DEF Right, Status
  <2> QED
    BY <2>1, <2>2
<1>9. EmptyIsRight'
  <2>1. EmptyIsRight
    BY DEF MatchingInv, TablesInv
  <2>2. rows[b] = Null => Installed(b) \cap noFix = {}
    BY DEF Installed
  <2> QED
    BY <1>1, <1>3, <1>4, <2>1, <2>2 DEF EmptyIsRight
<1>10. Steady(task[w])'
  BY <1>2 DEF Steady
<1>11. ASSUME NEW h \in Hosts, Results(task[w], h), h \notin stale[w]
       PROVE  BatchFound(task[w], h)' /\ DoneIsRight(task[w], h)'
  <2>1. BatchFound(task[w], h)'
    BY <1>2 DEF BatchFound
  <2>2. ASSUME ~ task[w].release, task[w].host = h PROVE Right(h)'
    BY <1>1, <1>7, <1>11, <2>2
  <2>3. ASSUME task[w].release, h \notin task[w].left PROVE Right(h)'
    BY <1>1, <1>7, <1>8, <1>11, <2>3 DEF Results, DoneIsRight, BatchPcs
  <2> QED
    BY <1>2, <2>1, <2>2, <2>3 DEF DoneIsRight, BatchPcs
<1> QED
  BY <1>1, <1>2, <1>3, <1>7, <1>8, <1>9, <1>10, <1>11, MatchWrites
     DEF BatchPcs, MatchPcs

(* Only hosts that are right lose their mark as upset or pending. *)
LEMMA MarkedShown ==
  ASSUME UNCHANGED <<rows, adv, open, counted>>,
         \A h \in Hosts :
           \/ Right(h)
           \/ (pending[h] => pending'[h]) /\ (h \in upset => h \in upset')
           \/ h \in upset'
  PROVE  \A h \in Hosts : Shown(h) => Shown(h)'
BY RightStays DEF Shown

(* A match ends: what it forgets, no other match of those hosts has.       *)
LEMMA MatchEnds ==
  ASSUME MatchingInv, NEW w \in Workers, OthersStay(w), task[w].pc = "mark",
         task'[w].pc \notin MatchPcs,
         NEW hosts \in SUBSET Hosts, \A h \in hosts : Covers(w, h),
         EndMatch(w, hosts)
  PROVE  /\ StaleInv'
         /\ \A v \in Workers \ {w} : stale'[v] = stale[v]
         /\ content' = content
         /\ \A h \in Hosts : h \in upset /\ h \notin upset' =>
              h \in hosts /\ h \notin stale[w]
<1>1. MatchingTypeOK /\ StaleInv
  BY DEF MatchingInv, TasksInv
<1>2. /\ stale'[w] = {} /\ \A v \in Workers \ {w} : stale'[v] = stale[v]
      /\ upset' = upset \ (hosts \ stale[w]) /\ content' = content
  BY <1>1 DEF EndMatch, MatchingTypeOK
<1>3. ASSUME NEW v \in Workers, NEW h \in stale'[v] PROVE h \in upset'
  <2>1. v # w /\ h \in stale[v] /\ h \in upset /\ h \in Hosts
    BY <1>1, <1>2, <1>3 DEF StaleInv, MatchingTypeOK
  <2>2. h \in hosts => h \in stale[w]
    BY <2>1, StaleTogether DEF Reading
  <2> QED
    BY <1>2, <2>1, <2>2
<1>4. ASSUME NEW u \in Workers, NEW v \in Workers, NEW h \in Hosts,
             (Reading(u) /\ Covers(u, h))', h \in stale'[v]
      PROVE  h \in stale'[u]
  <2>1. u # w /\ v # w /\ h \in stale[v]
    BY <1>2, <1>4 DEF Reading, MatchPcs
  <2>2. Reading(u) /\ Covers(u, h)
    BY <1>4, <2>1 DEF Reading, Covers, OthersStay
  <2> QED
    BY <1>1, <1>2, <2>1, <2>2 DEF StaleInv
<1>5. StaleInv'
  BY <1>3, <1>4 DEF StaleInv
<1> QED
  BY <1>2, <1>5

LEMMA MarkHostInv ==
  ASSUME MatchingInv, NEW w \in Workers, MarkHost(w)
  PROVE  MatchingInv'
<1>1. PICK g \in Hosts :
        /\ TasksInv /\ MatchingTypeOK /\ task[w].pc = "mark" /\ ~ task[w].release
        /\ g = task[w].host
  BY DEF MatchingInv, TasksInv, MarkHost, WellFormed, MatchPcs
<1>2. TasksInv' /\ OthersStay(w) /\ Resting(task'[w])
  BY <1>1, MarkHostTyped
<1>3. UNCHANGED <<rows, upstream, recorded, adv, open, noFix, counted>>
  BY DEF MarkHost
<1>4. /\ StaleInv' /\ content' = content
      /\ \A v \in Workers \ {w} : stale'[v] = stale[v]
      /\ \A h \in Hosts : h \in upset /\ h \notin upset' => h = g /\ h \notin stale[w]
  <2>1. task'[w].pc \notin MatchPcs
    BY <1>2 DEF Resting, RestPcs, MatchPcs
  <2>2. EndMatch(w, {g}) /\ \A h \in {g} : Covers(w, h)
    BY <1>1 DEF MarkHost, Covers
  <2> QED
    BY <1>1, <1>2, <2>1, <2>2, MatchEnds
<1>5. \A h \in Hosts : Shown(h) => Shown(h)'
  <2>1. g \in stale[w] \/ Right(g)
    BY <1>1 DEF MatchingInv, Known, Results, DoneIsRight
  <2>2. \A h \in Hosts : h # g => pending'[h] = pending[h]
    BY <1>1 DEF MarkHost, MatchingTypeOK
  <2>3. g \in stale[w] => g \in upset'
    BY <1>4 DEF MatchingInv, StaleInv
  <2> QED
    BY <1>3, <1>4, <2>1, <2>2, <2>3, MarkedShown
<1>6. \A v \in Workers : Importing(task'[v]) => v # w
  BY <1>2 DEF Resting, RestPcs, Importing
<1>7. FeedInv'
  BY <1>2, <1>3, <1>4, <1>6, FeedStays DEF OthersStay
<1>8. Steady(task[w])' /\ \A h \in Hosts : Known(w, h)'
  BY <1>1, <1>2, RestKnows
<1>9. \A v \in Workers \ {w} : Steady(task[v])' /\ \A h \in Hosts : Known(v, h)'
  BY <1>2, <1>3, <1>4, <1>5, SteadyStays, KnownStays DEF OthersStay
<1>10. TablesInv'
  BY <1>3, <1>4, <1>5, TablesStay
<1> QED
  BY <1>2, <1>4, <1>7, <1>8, <1>9, <1>10 DEF MatchingInv

(* All hosts of the release are right when they are marked together, but   *)
(* those with an outdated read.                                            *)
LEMMA MarkReleaseInv ==
  ASSUME MatchingInv, NEW w \in Workers, MarkRelease(w)
  PROVE  MatchingInv'
<1>1. /\ TasksInv /\ MatchingTypeOK /\ task[w].pc = "mark" /\ task[w].release
      /\ task[w].left = {}
  BY DEF MatchingInv, TasksInv, MarkRelease
<1>2. /\ TasksInv' /\ OthersStay(w) /\ task'[w].pc = "record" /\ task'[w].release
      /\ task'[w].feed = task[w].feed
  BY <1>1, MarkReleaseTyped
<1>3. UNCHANGED <<rows, upstream, recorded, adv, open, noFix, counted>>
  BY DEF MarkRelease
<1>4. /\ StaleInv' /\ content' = content
      /\ \A v \in Workers \ {w} : stale'[v] = stale[v]
      /\ \A h \in Hosts : h \in upset /\ h \notin upset' => h \notin stale[w]
  <2>1. task'[w].pc \notin MatchPcs
    BY <1>2 DEF MatchPcs
  <2>2. EndMatch(w, Hosts) /\ \A h \in Hosts : Covers(w, h)
    BY <1>1 DEF MarkRelease, Covers
  <2> QED
    BY <1>1, <1>2, <2>1, <2>2, MatchEnds
<1>5. ASSUME NEW h \in Hosts PROVE h \in upset' \/ Right(h)
  <2>1. h \in stale[w] \/ Right(h)
    BY <1>1 DEF MatchingInv, Known, Results, DoneIsRight
  <2>2. h \in stale[w] => h \in upset'
    BY <1>4 DEF MatchingInv, StaleInv
  <2> QED
    BY <2>1, <2>2
<1>6. \A h \in Hosts : Shown(h)'
  BY <1>3, <1>5, RightStays DEF Shown
<1>7. FeedInv'
  BY <1>1, <1>2, <1>3, <1>4, FeedStays DEF OthersStay, Importing
<1>8. Steady(task[w])' /\ \A h \in Hosts : Known(w, h)'
  BY <1>2, <1>6 DEF Steady, Known, Results, Evaluated, BatchFound, DoneIsRight,
                    MatchPcs, BatchPcs
<1>9. \A v \in Workers \ {w} : Steady(task[v])' /\ \A h \in Hosts : Known(v, h)'
  BY <1>2, <1>3, <1>4, <1>6, SteadyStays, KnownStays DEF OthersStay
<1>10. TablesInv'
  BY <1>3, <1>4, <1>6, TablesStay
<1> QED
  BY <1>2, <1>4, <1>7, <1>8, <1>9, <1>10 DEF MatchingInv

(* Before a feed is recorded, every host is pending, upset or right. *)
LEMMA RecordFeedInv ==
  ASSUME MatchingInv, NEW w \in Workers, RecordFeed(w)
  PROVE  MatchingInv'
<1>1. TasksInv /\ task[w].pc = "record"
  BY DEF MatchingInv, RecordFeed
<1>2. TasksInv' /\ OthersStay(w) /\ Resting(task'[w])
  BY <1>1, RecordFeedTyped
<1>3. UNCHANGED <<rows, upstream, adv, open, noFix, counted, pending, stale,
                  upset, content>>
  BY DEF RecordFeed, overlaps
<1>4. \A h \in Hosts : Shown(h) => Shown(h)'
  BY <1>3, RightStays DEF Shown
<1>5. \A v \in Workers : Importing(task'[v]) \/ Reading(v)' => v # w
  BY <1>2 DEF Resting, RestPcs, Importing, Reading
<1>6. FeedInv'
  BY <1>2, <1>3, <1>5, FeedStays DEF OthersStay
<1>7. StaleInv'
  BY <1>2, <1>3, <1>5, StaleStays DEF Reading, Covers, OthersStay
<1>8. Steady(task[w])' /\ \A h \in Hosts : Known(w, h)'
  BY <1>2, RestKnows DEF Steady, Resting, RestPcs
<1>9. \A v \in Workers \ {w} : Steady(task[v])' /\ \A h \in Hosts : Known(v, h)'
  BY <1>2, <1>3, <1>4, SteadyStays, KnownStays DEF OthersStay
<1>10. TablesInv'
  <2>1. \A h \in Hosts : Shown(h)'
    BY <1>1, <1>4 DEF MatchingInv, Steady
  <2> QED
    BY <1>3, <2>1
       DEF MatchingInv, TablesInv, EmptyIsRight, NoFixIsListed, MatchedIsRight
<1> QED
  BY <1>2, <1>6, <1>7, <1>8, <1>9, <1>10 DEF MatchingInv

-----------------------------------------------------------------------------
LEMMA InvStutter ==
  ASSUME MatchingInv, UNCHANGED matchingVars
  PROVE  MatchingInv'
<1>1. TasksInv' /\ RestStep
  BY TasksStutter DEF MatchingInv, RestStep, matchingVars
<1> QED
  BY <1>1, RestInv

LEMMA InvWorkerNext ==
  ASSUME MatchingInv, NEW w \in Workers, WorkerNext(w)
  PROVE  MatchingInv'
<1>1. TasksInv
  BY DEF MatchingInv
<1>2. CASE Rematch(w)  BY <1>1, <1>2, RematchTyped, RestInv
<1>3. CASE ReadKnown(w)  BY <1>1, <1>3, ReadKnownTyped, RestInv
<1>4. CASE Unchanged(w)  BY <1>1, <1>4, UnchangedTyped, RestInv
<1>5. CASE Download(w)  BY <1>5, DownloadInv
<1>6. CASE ReplaceAdvisories(w)  BY <1>6, ReplaceInv
<1>7. CASE VersionCandidates(w)  BY <1>7, VersionCandidatesInv
<1>8. CASE ApplyVersions(w)  BY <1>8, ApplyVersionsInv
<1>9. CASE ReleaseHosts(w)  BY <1>9, ReleaseHostsInv
<1>10. CASE \E h \in Hosts : NextBatch(w, h)  BY <1>10, NextBatchInv
<1>11. CASE Candidates(w)  BY <1>11, CandidatesInv
<1>12. CASE ApplyFound(w)  BY <1>12, ApplyFoundInv
<1>13. CASE RefreshCounts(w)  BY <1>13, RefreshCountsInv
<1>14. CASE MarkHost(w)  BY <1>14, MarkHostInv
<1>15. CASE MarkRelease(w)  BY <1>15, MarkReleaseInv
<1>16. CASE RecordFeed(w)  BY <1>16, RecordFeedInv
<1> QED
  BY <1>2, <1>3, <1>4, <1>5, <1>6, <1>7, <1>8, <1>9, <1>10, <1>11, <1>12, <1>13,
     <1>14, <1>15, <1>16 DEF WorkerNext

LEMMA InvNext ==
  ASSUME MatchingInv, MatchingNext
  PROVE  MatchingInv'
<1>1. TasksInv
  BY DEF MatchingInv
<1>2. CASE \E h \in Hosts, inventory \in SUBSET Packages : Report(h, inventory)
  BY <1>2, ReportInv
<1>3. CASE \E status \in Contents : Publish(status)
  BY <1>3, PublishInv
<1>4. CASE Tick  BY <1>1, <1>4, TickTyped, RestInv
<1>5. CASE \E h \in Hosts : Notified(h)  BY <1>1, <1>5, NotifiedTyped, RestInv
<1>6. CASE LoadPending  BY <1>1, <1>6, LoadPendingTyped, RestInv
<1>7. CASE \E h \in Hosts : NextPending(h)
  BY <1>1, <1>7, NextPendingTyped, RestInv
<1>8. CASE \E w \in Workers : WorkerNext(w)  BY <1>8, InvWorkerNext
<1>9. CASE \E w \in Workers : Fail(w)  BY <1>1, <1>9, FailTyped, RestInv
<1>10. CASE Restart  BY <1>1, <1>10, RestartTyped, RestInv
<1> QED
  BY <1>2, <1>3, <1>4, <1>5, <1>6, <1>7, <1>8, <1>9, <1>10 DEF MatchingNext

LEMMA MatchingInvariance == MatchingSpec => []MatchingInv
<1>1. MatchingInit => MatchingInv
  BY InvInit
<1>2. MatchingInv /\ [MatchingNext]_matchingVars => MatchingInv'
  BY InvNext, InvStutter
<1> QED
  BY <1>1, <1>2, PTL DEF MatchingSpec

(* Any number of hosts, packages, reports, feeds and faults, and however   *)
(* the matches of the two tasks and the writers of what they read overlap: *)
(* a host that is marked as matched, with the imported feed recorded,      *)
(* shows exactly the vulnerabilities of its inventory and of that feed,    *)
(* unless its match read what was replaced under it.                       *)
THEOREM MarkedStaysRight == MatchingSpec => []MarkedIsRight
<1>1. MatchingInv => MarkedIsRight
  BY DEF MatchingInv, FeedInv, Agrees, TablesInv, MatchedIsRight, Shown,
         MarkedIsRight, Current
<1> QED
  BY <1>1, MatchingInvariance, PTL

(* A host loses its pending mark only when what is stored of it follows    *)
(* from its inventory and the advisories: "its current inventory was       *)
(* successfully evaluated", as mark_host_matched says of itself.  The      *)
(* exception is a match with an outdated read of that very host, which     *)
(* leaves the host upset: the mark is then wrong, and no other way.        *)
OnlyRightIsMarked ==
  [][\A h \in Hosts :
       pending[h] /\ ~ pending'[h] =>
         \/ Right(h)'
         \/ h \in upset' /\ \E w \in Workers : h \in stale[w] /\ task'[w] # task[w]
    ]_matchingVars

(* mark_host_matched and mark_release_matched keep their word, but for the *)
(* overlaps that the exception names.                                      *)
THEOREM MarksAreRight == MatchingSpec => OnlyRightIsMarked
<1> DEFINE Marks ==
      \A h \in Hosts :
        pending[h] /\ ~ pending'[h] =>
          \/ Right(h)'
          \/ h \in upset' /\ \E w \in Workers : h \in stale[w] /\ task'[w] # task[w]
<1>1. ASSUME MatchingInv, [MatchingNext]_matchingVars
      PROVE  [Marks]_matchingVars
  <2>1. SUFFICES ASSUME MatchingNext, NEW h \in Hosts, pending[h], ~ pending'[h]
                 PROVE  \/ Right(h)'
                        \/ /\ h \in upset'
                           /\ \E w \in Workers : h \in stale[w] /\ task'[w] # task[w]
    BY <1>1
  <2>2. MatchingTypeOK /\ MatchingInv'
    BY <1>1, <2>1, InvNext DEF MatchingInv, TasksInv
  <2>3. PICK w \in Workers : MarkHost(w) \/ MarkRelease(w)
    <3>1. ASSUME NEW g \in Hosts, NEW inventory, Report(g, inventory) PROVE FALSE
      BY <2>1, <2>2, <3>1 DEF Report, MatchingTypeOK
    <3>2. \E w \in Workers : WorkerNext(w)
      BY <2>1, <3>1 DEF MatchingNext, Publish, Tick, Notified, LoadPending,
         NextPending, Fail, Restart, store
    <3> QED
      BY <2>1, <3>2 DEF WorkerNext, Rematch, ReadKnown, Unchanged, Download,
         ReplaceAdvisories, VersionCandidates, ApplyVersions, ReleaseHosts,
         NextBatch, Candidates, ApplyFound, RefreshCounts, RecordFeed,
         store
  <2>4. UNCHANGED <<rows, adv, open, counted>> /\ task[w].pc = "mark"
    BY <2>3 DEF MarkHost, MarkRelease
  <2>5. task'[w].pc # "mark"
    BY <1>1, <2>3, MarkHostTyped, MarkReleaseTyped
       DEF MatchingInv, Resting, RestPcs
  <2>6. h \in stale[w] \/ Right(h)
    <3>1. h \in stale[w] \/ DoneIsRight(task[w], h)
      BY <1>1 DEF MatchingInv, Known, Results
    <3>2. CASE MarkHost(w)
      <4>1. h = task[w].host
        BY <2>1, <2>2, <3>2 DEF MarkHost, MatchingTypeOK
      <4> QED
        BY <3>1, <3>2, <4>1 DEF MarkHost, DoneIsRight
    <3>3. CASE MarkRelease(w)
      BY <3>1, <3>3 DEF MarkRelease, DoneIsRight
    <3> QED
      BY <2>3, <3>2, <3>3
  <2>7. h \in stale[w] => h \in upset'
    <3>1. h \in stale[w] => h \in upset
      BY <1>1 DEF MatchingInv, StaleInv
    <3> QED
      BY <2>3, <3>1 DEF MarkHost, MarkRelease, EndMatch
  <2> QED
    BY <2>4, <2>5, <2>6, <2>7, RightStays
<1> QED
  BY <1>1, MatchingInvariance, PTL DEF MatchingSpec, OnlyRightIsMarked
=============================================================================
