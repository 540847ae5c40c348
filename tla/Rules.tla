-------------------------------- MODULE Rules --------------------------------
(***************************************************************************)
(* One rule set on its way from the console's drafts to the agents: people *)
(* edit drafts and publish them; the rule signer numbers and signs them,   *)
(* keeping the last version in a file; the store takes the signed          *)
(* envelope, or one uploaded from elsewhere, as the set's next bundle      *)
(* while its key is trusted; the distribution service answers the agents'  *)
(* polls.  Operators trust and remove keys, and retire the set.            *)
(*                                                                         *)
(* The signer's steps are those between which it can crash; the store's    *)
(* are the statements of publish_inner and add_trust_key that read what    *)
(* another transaction may write.  The signer's reasons to refuse (wrong   *)
(* password, throttle, permission, limits, hourly rate) are one            *)
(* nondeterministic refusal.  The set is one the signer signs, site or     *)
(* site-alarms, which no host can be switched off from.  Agents and        *)
(* operators are external.                                                 *)
(***************************************************************************)
EXTENDS Integers, FiniteSets

CONSTANTS
  Publishers,  \* console requests and rules publish commands
  Keys,        \* issuer key ids
  SiteKey,     \* the signer's
  Offline,     \* envelopes signed with other keys
  Agents,
  MaxVersion,  \* bound on the versions the signer gives out
  MaxAsks,     \* bound on the requests to publish drafts
  None         \* NULL, no answer, no holder

Versions == 1 .. MaxVersion

Drafts == 0 .. MaxAsks

(* SignedRuleEnvelope: what the properties tell apart.  The rules are      *)
(* named by the request that sent them as drafts, or 0.                    *)
Envelope == [version : Versions, rules : Drafts, key : Keys]

ASSUME RulesAssumption ==
  /\ SiteKey \in Keys
  /\ Offline \subseteq [version : Versions, rules : Drafts,
                        key : Keys \ {SiteKey}]
  /\ MaxVersion \in Nat \ {0}
  /\ MaxAsks \in Nat
  /\ None \notin Publishers \cup Keys \cup Agents \cup Nat \cup Envelope

VARIABLES
  asks,     \* how many requests to publish drafts there were
  up,       \* the signer runs
  file,     \* versions.json: the last version signed; None if unreadable
  sets,     \* State::sets of the running signer, None without version state
  lock,     \* who holds the signer's state mutex
  job,      \* the signer's connections, by publisher
  out,      \* the envelopes that the signer has handed out
  since,    \* history: those since its version state was seeded last
  retired,  \* rule_sets.retired_at is set
  trust,    \* table rule_trust_keys: each issuer's row
  bundles,  \* table rule_bundles
  plock,    \* who holds the set's PUBLISH_LOCK
  adding,   \* the key whose add_trust_key holds the set row FOR SHARE
  pub,      \* the publishers' requests
  held,     \* the version each agent runs, 0: none
  dropped   \* the keys that each agent has dropped

signer == <<up, file, sets, lock, job, out, since>>
store == <<retired, trust, bundles, plock, adding>>
agents == <<held, dropped>>
vars == <<asks, signer, store, pub, agents>>

(* A connection of the signer, and a publisher's request: where each is    *)
(* and what it carries.                                                    *)
Job == [pc : {"none", "check", "write", "remember", "answer"},
        rules : Drafts, version : 0 .. MaxVersion]

Request == [pc : {"idle", "asked", "verify", "lock", "trust", "insert"},
            env : Envelope \cup {None}]

NoJob == [pc |-> "none", rules |-> 0, version |-> 0]
NoRequest == [pc |-> "idle", env |-> None]

TypeOK ==
  /\ asks \in 0 .. MaxAsks
  /\ up \in BOOLEAN
  /\ file \in (0 .. MaxVersion) \cup {None}
  /\ sets \in (0 .. MaxVersion) \cup {None}
  /\ lock \in Publishers \cup {None}
  /\ job \in [Publishers -> Job]
  /\ out \subseteq Envelope /\ since \subseteq Envelope
  /\ retired \in BOOLEAN
  /\ trust \in [Keys -> {"unknown", "trusted", "removed"}]
  /\ bundles \subseteq Envelope
  /\ plock \in Publishers \cup {None}
  /\ adding \in Keys \cup {None}
  /\ pub \in [Publishers -> Request]
  /\ held \in [Agents -> 0 .. MaxVersion]
  /\ dropped \in [Agents -> SUBSET Keys]

(* Setup has seeded the signer and trusted its key. *)
Init ==
  /\ asks = 0
  /\ up = TRUE /\ file = 0 /\ sets = 0 /\ lock = None
  /\ job = [p \in Publishers |-> NoJob]
  /\ out = {} /\ since = {}
  /\ retired = FALSE
  /\ trust = [k \in Keys |-> IF k = SiteKey THEN "trusted" ELSE "unknown"]
  /\ bundles = {}
  /\ plock = None /\ adding = None
  /\ pub = [p \in Publishers |-> NoRequest]
  /\ held = [a \in Agents |-> 0]
  /\ dropped = [a \in Agents |-> {}]

-----------------------------------------------------------------------------
(* The store's current bundle and what serve answers.                      *)

Current == {b \in bundles : \A c \in bundles : c.version <= b.version}

(* Faulty variant: the index is read forwards. *)
ServeOldest(version) ==
  {b \in bundles : /\ ~ retired /\ b.version > version
                   /\ \A c \in bundles : b.version <= c.version}

(* serve: the newest bundle of a live set, whether its key is still        *)
(* trusted or not, unless the agent has it; none for a 404 or a 204.       *)
Serve(version) == {b \in Current : ~ retired /\ b.version > version}

-----------------------------------------------------------------------------
(* The console: drafts, and requests to publish them.                      *)

(* publish_drafts up to ask_signer: the drafts are sent as people have put *)
(* them by now (rule_drafts::put and delete).  Without drafts, or with     *)
(* those that are published already, the request ends here and changes     *)
(* nothing.                                                                *)
Ask(p) ==
  /\ pub[p].pc = "idle"
  /\ up
  /\ job[p].pc = "none"
  /\ asks < MaxAsks
  /\ asks' = asks + 1
  /\ pub' = [pub EXCEPT ![p].pc = "asked"]
  /\ job' = [job EXCEPT ![p] = [NoJob EXCEPT !.pc = "check", !.rules = asks']]
  /\ UNCHANGED <<up, file, sets, lock, out, since, store, agents>>

(* The request ends after SIGNER_TIMEOUT, or the console stops; the        *)
(* signer goes on.                                                         *)
GiveUp(p) ==
  /\ pub[p].pc = "asked"
  /\ pub' = [pub EXCEPT ![p] = NoRequest]
  /\ UNCHANGED <<asks, signer, store, agents>>

(* publish_authenticated_rule_bundle and rules publish: any signed         *)
(* envelope, an old one too, that the keys trusted now verify.             *)
Upload(p) ==
  /\ pub[p].pc = "idle"
  /\ \E e \in out \cup Offline :
       /\ trust[e.key] = "trusted"
       /\ pub' = [pub EXCEPT ![p] = [pc |-> "lock", env |-> e]]
  /\ UNCHANGED <<asks, signer, store, agents>>

-----------------------------------------------------------------------------
(* The signer.                                                             *)

(* What a publisher sees of a refusal or of a dead connection. *)
Refused(p) ==
  IF pub[p].pc = "asked" THEN [pub EXCEPT ![p] = NoRequest] ELSE pub

(* check_and_sign refuses before the version is taken: no version state,   *)
(* credentials, permission, limits or rate.                                *)
Refuse(p) ==
  /\ job[p].pc = "check"
  /\ job' = [job EXCEPT ![p] = NoJob]
  /\ pub' = Refused(p)
  /\ UNCHANGED <<asks, up, file, sets, lock, out, since, store, agents>>

(* The mutex is taken and the next version signed. *)
TakeVersion(p) ==
  /\ job[p].pc = "check"
  /\ lock = None
  /\ sets # None
  /\ sets < MaxVersion
  /\ lock' = p
  /\ job' = [job EXCEPT ![p].pc = "write", ![p].version = sets + 1]
  /\ UNCHANGED <<asks, up, file, sets, out, since, store, pub, agents>>

(* Faulty variant: the map is written as it was before the new version. *)
WriteOldSets(p) ==
  /\ job[p].pc = "write"
  /\ file' = sets
  /\ job' = [job EXCEPT ![p].pc = "remember"]
  /\ UNCHANGED <<asks, up, sets, lock, out, since, store, pub, agents>>

(* record_signed: versions.json is replaced. *)
Write(p) ==
  /\ job[p].pc = "write"
  /\ file' = job[p].version
  /\ job' = [job EXCEPT ![p].pc = "remember"]
  /\ UNCHANGED <<asks, up, sets, lock, out, since, store, pub, agents>>

(* write_atomic fails, before or after its rename; the envelope is not     *)
(* used.                                                                   *)
WriteFails(p) ==
  /\ job[p].pc = "write"
  /\ file' \in {file, job[p].version}
  /\ lock' = None
  /\ job' = [job EXCEPT ![p] = NoJob]
  /\ pub' = Refused(p)
  /\ UNCHANGED <<asks, up, sets, out, since, store, agents>>

(* The end of record_signed, and of the mutex. *)
Remember(p) ==
  /\ job[p].pc = "remember"
  /\ sets' = job[p].version
  /\ lock' = None
  /\ job' = [job EXCEPT ![p].pc = "answer"]
  /\ UNCHANGED <<asks, up, file, out, since, store, pub, agents>>

(* The connection is answered, whether or not the console still waits. *)
Answer(p) ==
  LET e == [version |-> job[p].version, rules |-> job[p].rules,
            key |-> SiteKey]
  IN  /\ job[p].pc = "answer"
      /\ out' = out \cup {e}
      /\ since' = since \cup {e}
      /\ job' = [job EXCEPT ![p] = NoJob]
      /\ pub' = IF pub[p].pc = "asked"
                THEN [pub EXCEPT ![p] = [pc |-> "verify", env |-> e]]
                ELSE pub
      /\ UNCHANGED <<asks, up, file, sets, lock, store, agents>>

(* The signer stops at any step: its connections end. *)
Crash ==
  /\ up
  /\ up' = FALSE
  /\ sets' = None
  /\ lock' = None
  /\ job' = [p \in Publishers |-> NoJob]
  /\ pub' = [p \in Publishers |->
               IF pub[p].pc = "asked" /\ job[p].pc # "none"
               THEN NoRequest ELSE pub[p]]
  /\ UNCHANGED <<asks, file, out, since, store, agents>>

(* Signer::new: State::open reads the file. *)
Restart ==
  /\ ~up
  /\ up' = TRUE
  /\ sets' = file
  /\ UNCHANGED <<asks, file, lock, job, out, since, store, pub, agents>>

(* The file is found damaged or lost when the signer starts again. *)
Damage ==
  /\ ~up
  /\ file # None
  /\ file' = None
  /\ UNCHANGED <<asks, up, sets, lock, job, out, since, store, pub, agents>>

(* Faulty variant: --min-version 0 is not refused. *)
SeedFromZero ==
  /\ file = None
  /\ \E n \in 0 .. MaxVersion : file' = n - 1
  /\ since' = {}
  /\ UNCHANGED <<asks, up, sets, lock, job, out, store, pub, agents>>

(* State::seed replaces only a file that cannot be read.  The next version *)
(* is the caller's --min-version; Setup passes 1, whatever was signed      *)
(* before.                                                                 *)
Seed ==
  /\ file = None
  /\ \E n \in Versions : file' = n - 1
  /\ since' = {}
  /\ UNCHANGED <<asks, up, sets, lock, job, out, store, pub, agents>>

-----------------------------------------------------------------------------
(* publish_inner, after the caller verified the envelope.                  *)

(* verify_console_rule_envelope, verify_and_store: the keys read now. *)
Verify(p) ==
  /\ pub[p].pc = "verify"
  /\ pub' = IF trust[pub[p].env.key] = "trusted"
            THEN [pub EXCEPT ![p].pc = "lock"]
            ELSE [pub EXCEPT ![p] = NoRequest]
  /\ UNCHANGED <<asks, signer, store, agents>>

(* Faulty variant: publishers of one set are not serialized. *)
LockSetShared(p) ==
  /\ pub[p].pc = "lock"
  /\ IF retired \/ \E b \in bundles : b.version >= pub[p].env.version
     THEN /\ pub' = [pub EXCEPT ![p] = NoRequest]
          /\ UNCHANGED plock
     ELSE /\ pub' = [pub EXCEPT ![p].pc = "trust"]
          /\ plock' = p
  /\ UNCHANGED <<asks, signer, retired, trust, bundles, adding, agents>>

(* PUBLISH_LOCK is taken.  A retired set, a version that is stored already *)
(* (Unchanged, VersionConflict) or one not above the current ends the      *)
(* transaction.                                                            *)
LockSet(p) ==
  /\ pub[p].pc = "lock"
  /\ plock = None
  /\ IF retired \/ \E b \in bundles : b.version >= pub[p].env.version
     THEN /\ pub' = [pub EXCEPT ![p] = NoRequest]
          /\ UNCHANGED plock
     ELSE /\ pub' = [pub EXCEPT ![p].pc = "trust"]
          /\ plock' = p
  /\ UNCHANGED <<asks, signer, retired, trust, bundles, adding, agents>>

(* The key must still be trusted; its row is held FOR SHARE. *)
CheckTrust(p) ==
  /\ pub[p].pc = "trust"
  /\ IF trust[pub[p].env.key] = "trusted"
     THEN /\ pub' = [pub EXCEPT ![p].pc = "insert"]
          /\ UNCHANGED plock
     ELSE /\ pub' = [pub EXCEPT ![p] = NoRequest]
          /\ plock' = None
  /\ UNCHANGED <<asks, signer, retired, trust, bundles, adding, agents>>

(* The bundle, its audit row and the commit. *)
Insert(p) ==
  /\ pub[p].pc = "insert"
  /\ bundles' = bundles \cup {pub[p].env}
  /\ pub' = [pub EXCEPT ![p] = NoRequest]
  /\ plock' = None
  /\ UNCHANGED <<asks, signer, retired, trust, adding, agents>>

(* The connection to the database is lost: the transaction rolls back. *)
Abort(p) ==
  /\ pub[p].pc \in {"verify", "lock", "trust", "insert"}
  /\ pub' = [pub EXCEPT ![p] = NoRequest]
  /\ plock' = IF plock = p THEN None ELSE plock
  /\ UNCHANGED <<asks, signer, retired, trust, bundles, adding, agents>>

-----------------------------------------------------------------------------
(* Operators.                                                              *)

(* add_trust_key of an issuer without a row (any other leaves everything   *)
(* as it is): the set row, not retired, is held FOR SHARE.                 *)
AddCheck(k) ==
  /\ adding = None
  /\ trust[k] = "unknown"
  /\ ~retired
  /\ adding' = k
  /\ UNCHANGED <<asks, signer, retired, trust, bundles, plock, pub, agents>>

(* The key is inserted and committed. *)
AddKey ==
  /\ adding # None
  /\ trust' = [trust EXCEPT ![adding] = "trusted"]
  /\ adding' = None
  /\ UNCHANGED <<asks, signer, retired, bundles, plock, pub, agents>>

(* Faulty variant: the publisher's check locks nothing. *)
SharedNever(k) == FALSE

(* A key's row is held FOR SHARE by the publishers that found it trusted. *)
Shared(k) == \E p \in Publishers : pub[p].pc = "insert" /\ pub[p].env.key = k

(* remove_trust_key waits for the share locks. *)
RemoveKey(k) ==
  /\ trust[k] = "trusted"
  /\ ~Shared(k)
  /\ trust' = [trust EXCEPT ![k] = "removed"]
  /\ UNCHANGED <<asks, signer, retired, bundles, plock, adding, pub, agents>>

(* Faulty variant: add_trust_key reads the set without FOR SHARE. *)
RetireAtOnce ==
  /\ ~retired
  /\ retired' = TRUE
  /\ UNCHANGED <<asks, signer, trust, bundles, plock, adding, pub, agents>>

(* retire waits for add_trust_key; a publisher holds no lock on the row    *)
(* that it would wait for.                                                 *)
Retire ==
  /\ ~retired
  /\ adding = None
  /\ retired' = TRUE
  /\ UNCHANGED <<asks, signer, trust, bundles, plock, adding, pub, agents>>

-----------------------------------------------------------------------------
(* The distribution service.                                               *)

(* rule_bundle: an agent takes the envelope it is sent, if any, unless it  *)
(* dropped the key.  A lost answer changes nothing, and a late one is      *)
(* refused by the agent, which takes only a version above its own.         *)
Poll(a) ==
  /\ \E b \in Serve(held[a]) :
       /\ b.key \notin dropped[a]
       /\ held' = [held EXCEPT ![a] = b.version]
  /\ UNCHANGED <<asks, signer, store, pub, dropped>>

(* Removing a key changes nothing on the agents, which trust keys          *)
(* themselves; sooner or later, or never, each is told to drop it.         *)
DropKey(a, k) ==
  /\ trust[k] = "removed"
  /\ k \notin dropped[a]
  /\ dropped' = [dropped EXCEPT ![a] = @ \cup {k}]
  /\ UNCHANGED <<asks, signer, store, pub, held>>

-----------------------------------------------------------------------------
Signing(p) ==
  \/ Refuse(p) \/ TakeVersion(p) \/ Write(p) \/ WriteFails(p) \/ Remember(p)
  \/ Answer(p)

Publishing(p) ==
  Verify(p) \/ LockSet(p) \/ CheckTrust(p) \/ Insert(p)

Next ==
  \/ Crash \/ Restart \/ Damage \/ Seed
  \/ AddKey \/ Retire
  \/ \E p \in Publishers :
       Ask(p) \/ GiveUp(p) \/ Upload(p) \/ Signing(p) \/ Publishing(p)
         \/ Abort(p)
  \/ \E k \in Keys : AddCheck(k) \/ RemoveKey(k)
  \/ \E a \in Agents : Poll(a)
  \/ \E a \in Agents, k \in Keys : DropKey(a, k)

Spec == Init /\ [][Next]_vars

(* Agents poll on their own clock, and not every answer is lost. *)
FairSpec ==
  /\ Spec
  /\ \A a \in Agents : WF_vars(Poll(a))

-----------------------------------------------------------------------------
(* record_signed: "the rules and the new version reach disk before the     *)
(* envelope is handed out, so a version is never signed twice": across     *)
(* crashes, failed writes and lost answers, no two envelopes that left the *)
(* signer share a version.  This is so from one seeding of the version     *)
(* state to the next: Setup seeds a lost file with version 1, and what was *)
(* handed out before is then signed again.                                 *)
SignedOnce ==
  \A e, f \in since : e.version = f.version => e = f

(* publish_inner serializes publishers "so check-then-insert is atomic": a *)
(* bundle is stored only above every stored one, so what agents are served *)
(* never goes back, also when a seeded signer numbers from 1 again.        *)
VersionsRise ==
  [][\A e \in bundles' \ bundles : \A b \in bundles : b.version < e.version]_vars

(* publish_inner: "a bundle is stored only while its signer is trusted",   *)
(* although the caller verified the signature against keys read earlier.   *)
StoredWhileTrusted ==
  [][\A e \in bundles' \ bundles : trust'[e.key] = "trusted"]_vars

(* add_trust_key: "a key never lands on a set retired between this check   *)
(* and the insert".                                                        *)
NoKeyOnRetired ==
  [][\A k \in Keys : trust'[k] = "trusted" /\ trust[k] # "trusted"
                       => ~retired']_vars

(* rule_bundle and serve: an agent that keeps polling comes to run each    *)
(* published version or a newer one, unless the set is retired or the      *)
(* agent has dropped the key of the newest bundle, which is served to it   *)
(* and refused; the next one with another key brings it up again.          *)
AgentsCatchUp ==
  \A a \in Agents, v \in Versions :
    (\E b \in bundles : b.version = v)
      ~> \/ held[a] >= v
         \/ retired
         \/ \E b \in Current : b.key \in dropped[a]
=============================================================================
