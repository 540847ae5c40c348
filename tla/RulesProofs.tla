----------------------------- MODULE RulesProofs -----------------------------
(***************************************************************************)
(* The safety properties of Rules, for any numbers of publishers, keys,    *)
(* offline envelopes, agents, requests and versions.                       *)
(***************************************************************************)
EXTENDS Rules, TLAPS

(* The signer numbers one request at a time, with the version after the    *)
(* last it remembers, and remembers no version before the file has it.     *)
OneNumbering ==
  /\ \A p \in Publishers : job[p].pc \in {"write", "remember"} =>
       lock = p /\ sets # None /\ job[p].version = sets + 1
  /\ \A p \in Publishers : job[p].pc = "remember" => file = job[p].version
  /\ sets # None => file # None /\ sets <= file

(* A stopped signer has no connections and no memory. *)
DownIsEmpty ==
  ~up => sets = None /\ \A p \in Publishers : job[p].pc = "none"

(* Versions that left the signer since it was seeded, or are about to, are *)
(* behind the memory, and those that left it behind the file.              *)
VersionsBehind ==
  /\ \A p \in Publishers : job[p].pc = "answer" =>
       sets # None /\ job[p].version \in 1 .. sets
  /\ \A e \in since : /\ sets # None => e.version <= sets
                      /\ file # None => e.version <= file

(* An answer that is about to be sent has a version of its own. *)
AnswersDiffer ==
  \A p \in Publishers : job[p].pc = "answer" =>
    /\ \A e \in since : e.version # job[p].version
    /\ \A q \in Publishers \ {p} :
         job[q].pc = "answer" => job[q].version # job[p].version

SignerInv ==
  OneNumbering /\ DownIsEmpty /\ VersionsBehind /\ AnswersDiffer /\ SignedOnce

(* A publisher past PUBLISH_LOCK holds it, and what it compared and        *)
(* checked is still so.                                                    *)
PublisherAlone ==
  \A p \in Publishers :
    /\ pub[p].pc \in {"trust", "insert"} =>
         plock = p /\ \A b \in bundles : b.version < pub[p].env.version
    /\ pub[p].pc = "insert" => trust[pub[p].env.key] = "trusted"

(* A request past the signer has an envelope. *)
RequestsTyped ==
  \A p \in Publishers :
    pub[p].pc \in {"verify", "lock", "trust", "insert"}
      => pub[p].env \in Envelope

(* The set cannot be retired while a key is being added. *)
AddingIsLive == adding # None => ~retired

StoreInv == PublisherAlone /\ RequestsTyped /\ AddingIsLive

RulesInv == TypeOK /\ SignerInv /\ StoreInv

-----------------------------------------------------------------------------
(* Types.                                                                  *)

LEMMA EmptyTypes == NoJob \in Job /\ NoRequest \in Request
BY RulesAssumption DEF NoJob, Job, NoRequest, Request, Drafts

(* Signing changes nothing of the store, and publishing nothing of the     *)
(* signer.                                                                 *)
LEMMA SignerKept ==
  ASSUME SignerInv, UNCHANGED signer
  PROVE  SignerInv'
BY DEF signer, SignerInv, OneNumbering, DownIsEmpty, VersionsBehind,
       AnswersDiffer, SignedOnce

LEMMA StoreKept ==
  ASSUME StoreInv, UNCHANGED <<store, pub>>
  PROVE  StoreInv'
BY DEF store, StoreInv, PublisherAlone, RequestsTyped, AddingIsLive

(* A request that ends, or waits for the signer, is bound by nothing. *)
LEMMA StoreReleased ==
  ASSUME TypeOK, StoreInv, UNCHANGED store,
         \A p \in Publishers :
           pub'[p] = pub[p] \/ pub'[p].pc \in {"idle", "asked"}
  PROVE  StoreInv'
BY DEF store, StoreInv, PublisherAlone, RequestsTyped, AddingIsLive

-----------------------------------------------------------------------------
LEMMA InitInv == Init => RulesInv
<1> SUFFICES ASSUME Init PROVE RulesInv
  OBVIOUS
<1>1. TypeOK
  <2>1. job \in [Publishers -> Job] /\ pub \in [Publishers -> Request]
    BY EmptyTypes DEF Init
  <2>2. trust \in [Keys -> {"unknown", "trusted", "removed"}]
    BY DEF Init
  <2>3. /\ 0 \in Drafts /\ 0 \in 0 .. MaxVersion
        /\ held \in [Agents -> 0 .. MaxVersion]
        /\ dropped \in [Agents -> SUBSET Keys] /\ 0 \in 0 .. MaxAsks
    BY RulesAssumption DEF Init, Drafts
  <2> QED
    BY <2>1, <2>2, <2>3 DEF Init, TypeOK
<1>2. SignerInv
  BY RulesAssumption DEF Init, NoJob, SignerInv, OneNumbering, DownIsEmpty,
     VersionsBehind, AnswersDiffer, SignedOnce
<1>3. StoreInv
  BY DEF Init, NoRequest, StoreInv, PublisherAlone, RequestsTyped, AddingIsLive
<1> QED
  BY <1>1, <1>2, <1>3 DEF RulesInv

-----------------------------------------------------------------------------
(* The console.                                                            *)

LEMMA AskInv ==
  ASSUME RulesInv, NEW p \in Publishers, Ask(p)
  PROVE  RulesInv'
<1> DEFINE asked == [NoJob EXCEPT !.pc = "check", !.rules = asks + 1]
<1>1. /\ pub' = [pub EXCEPT ![p].pc = "asked"]
      /\ job' = [job EXCEPT ![p] = asked]
      /\ up /\ asks < MaxAsks /\ asks' = asks + 1
      /\ UNCHANGED <<up, file, sets, lock, out, since, agents>>
      /\ UNCHANGED store
  BY DEF Ask
<1>2. asked \in Job /\ asked.pc = "check" /\ asks' \in 0 .. MaxAsks
  <2>1. asks + 1 \in 0 .. MaxAsks
    BY <1>1, RulesAssumption DEF RulesInv, TypeOK
  <2> QED
    BY <1>1, <2>1, EmptyTypes DEF Job, Drafts
<1>3. TypeOK'
  <2>1. job' \in [Publishers -> Job] /\ pub' \in [Publishers -> Request]
    BY <1>1, <1>2 DEF RulesInv, TypeOK, Request
  <2> QED
    BY <1>1, <1>2, <2>1 DEF RulesInv, TypeOK, store, agents
<1>4. SignerInv'
  <2>1. /\ job'[p].pc = "check"
        /\ \A q \in Publishers \ {p} : job'[q] = job[q]
    BY <1>1, <1>2 DEF RulesInv, TypeOK
  <2> QED
    BY <1>1, <2>1 DEF RulesInv, SignerInv, OneNumbering, DownIsEmpty,
       VersionsBehind, AnswersDiffer, SignedOnce
<1>5. StoreInv'
  BY <1>1, StoreReleased DEF RulesInv, TypeOK, Request
<1> QED
  BY <1>3, <1>4, <1>5 DEF RulesInv

LEMMA GiveUpInv ==
  ASSUME RulesInv, NEW p \in Publishers, GiveUp(p)
  PROVE  RulesInv'
<1>1. /\ pub' = [pub EXCEPT ![p] = NoRequest]
      /\ UNCHANGED <<asks, agents>>
      /\ UNCHANGED signer /\ UNCHANGED store
  BY DEF GiveUp
<1>2. TypeOK'
  BY <1>1, EmptyTypes DEF RulesInv, TypeOK, signer, store, agents
<1>3. StoreInv'
  BY <1>1, StoreReleased DEF RulesInv, TypeOK, NoRequest
<1> QED
  BY <1>1, <1>2, <1>3, SignerKept DEF RulesInv

LEMMA UploadInv ==
  ASSUME RulesInv, NEW p \in Publishers, Upload(p)
  PROVE  RulesInv'
<1>1. PICK e \in out \cup Offline :
        pub' = [pub EXCEPT ![p] = [pc |-> "lock", env |-> e]]
  BY DEF Upload
<1>2. /\ UNCHANGED <<asks, agents>>
      /\ UNCHANGED signer /\ UNCHANGED store
  BY DEF Upload
<1>3. e \in Envelope
  BY RulesAssumption DEF RulesInv, TypeOK, Envelope
<1>4. TypeOK'
  <2>1. pub' \in [Publishers -> Request]
    BY <1>1, <1>3 DEF RulesInv, TypeOK, Request
  <2> QED
    BY <1>2, <2>1 DEF RulesInv, TypeOK, signer, store, agents
<1>5. StoreInv'
  <2>1. /\ pub'[p] = [pc |-> "lock", env |-> e]
        /\ \A q \in Publishers \ {p} : pub'[q] = pub[q]
    BY <1>1 DEF RulesInv, TypeOK
  <2> QED
    BY <1>2, <1>3, <2>1 DEF RulesInv, store, StoreInv, PublisherAlone,
       RequestsTyped, AddingIsLive
<1> QED
  BY <1>2, <1>4, <1>5, SignerKept DEF RulesInv

-----------------------------------------------------------------------------
(* The signer.                                                             *)

LEMMA RefusedRequests ==
  ASSUME RulesInv, NEW p \in Publishers, pub' = Refused(p), UNCHANGED store
  PROVE  pub' \in [Publishers -> Request] /\ StoreInv'
<1>1. pub' \in [Publishers -> Request]
  BY EmptyTypes DEF RulesInv, TypeOK, Refused
<1>2. \A q \in Publishers :
        pub'[q] = pub[q] \/ pub'[q].pc \in {"idle", "asked"}
  BY DEF RulesInv, TypeOK, Refused, NoRequest
<1> QED
  BY <1>1, <1>2, StoreReleased DEF RulesInv

LEMMA RefuseInv ==
  ASSUME RulesInv, NEW p \in Publishers, Refuse(p)
  PROVE  RulesInv'
<1>1. /\ job[p].pc = "check"
      /\ job' = [job EXCEPT ![p] = NoJob]
      /\ pub' = Refused(p)
      /\ UNCHANGED <<asks, up, file, sets, lock, out, since, agents>>
      /\ UNCHANGED store
  BY DEF Refuse
<1>2. pub' \in [Publishers -> Request] /\ StoreInv'
  BY <1>1, RefusedRequests
<1>3. TypeOK'
  BY <1>1, <1>2, EmptyTypes DEF RulesInv, TypeOK, store, agents
<1>4. SignerInv'
  <2>1. /\ job'[p].pc = "none"
        /\ \A q \in Publishers \ {p} : job'[q] = job[q]
    BY <1>1 DEF RulesInv, TypeOK, NoJob
  <2> QED
    BY <1>1, <2>1 DEF RulesInv, SignerInv, OneNumbering, DownIsEmpty,
       VersionsBehind, AnswersDiffer, SignedOnce
<1> QED
  BY <1>2, <1>3, <1>4 DEF RulesInv

LEMMA TakeVersionInv ==
  ASSUME RulesInv, NEW p \in Publishers, TakeVersion(p)
  PROVE  RulesInv'
<1>1. /\ job[p].pc = "check" /\ lock = None
      /\ sets # None /\ sets < MaxVersion
      /\ lock' = p
      /\ job' = [job EXCEPT ![p].pc = "write", ![p].version = sets + 1]
      /\ UNCHANGED <<asks, up, file, sets, out, since, agents>>
      /\ UNCHANGED <<store, pub>>
  BY DEF TakeVersion
<1>2. sets \in 0 .. MaxVersion /\ sets + 1 \in 0 .. MaxVersion
  BY <1>1, RulesAssumption DEF RulesInv, TypeOK
<1>3. /\ job' \in [Publishers -> Job]
      /\ job'[p].pc = "write" /\ job'[p].version = sets + 1
      /\ \A q \in Publishers \ {p} : job'[q] = job[q]
  BY <1>1, <1>2 DEF RulesInv, TypeOK, Job
<1>4. TypeOK'
  BY <1>1, <1>3 DEF RulesInv, TypeOK, store, agents
<1>5. SignerInv'
  <2>1. \A q \in Publishers : job[q].pc \notin {"write", "remember"}
    BY <1>1, RulesAssumption DEF RulesInv, SignerInv, OneNumbering
  <2> QED
    BY <1>1, <1>3, <2>1 DEF RulesInv, SignerInv, OneNumbering, DownIsEmpty,
       VersionsBehind, AnswersDiffer, SignedOnce
<1>6. StoreInv'
  BY <1>1, StoreKept DEF RulesInv
<1> QED
  BY <1>4, <1>5, <1>6 DEF RulesInv

LEMMA WriteInv ==
  ASSUME RulesInv, NEW p \in Publishers, Write(p)
  PROVE  RulesInv'
<1>1. /\ job[p].pc = "write"
      /\ file' = job[p].version
      /\ job' = [job EXCEPT ![p].pc = "remember"]
      /\ UNCHANGED <<asks, up, sets, lock, out, since, agents>>
      /\ UNCHANGED <<store, pub>>
  BY DEF Write
<1>2. /\ sets \in 0 .. MaxVersion /\ lock = p /\ job[p].version = sets + 1
      /\ job[p].version \in 0 .. MaxVersion
  BY <1>1 DEF RulesInv, TypeOK, SignerInv, OneNumbering, Job
<1>3. /\ job' \in [Publishers -> Job]
      /\ job'[p].pc = "remember" /\ job'[p].version = job[p].version
      /\ \A q \in Publishers \ {p} : job'[q] = job[q]
  BY <1>1 DEF RulesInv, TypeOK, Job
<1>4. TypeOK'
  BY <1>1, <1>2, <1>3 DEF RulesInv, TypeOK, store, agents
<1>5. SignerInv'
  <2>1. \A e \in since : e.version \in Nat /\ e.version <= sets
    BY <1>2, RulesAssumption DEF RulesInv, TypeOK, SignerInv,
       VersionsBehind, Envelope, Versions
  <2>2. \A q \in Publishers \ {p} : job[q].pc \notin {"write", "remember"}
    BY <1>2 DEF RulesInv, SignerInv, OneNumbering
  <2>3. file' # None /\ file' = sets + 1
    BY <1>1, <1>2, RulesAssumption
  <2>4. OneNumbering'
    BY <1>1, <1>2, <1>3, <2>2, <2>3 DEF RulesInv, SignerInv, OneNumbering
  <2>5. DownIsEmpty' /\ AnswersDiffer' /\ SignedOnce'
    BY <1>1, <1>3 DEF RulesInv, SignerInv, DownIsEmpty, AnswersDiffer,
       SignedOnce
  <2>6. VersionsBehind'
    BY <1>1, <1>2, <1>3, <2>1, <2>3 DEF RulesInv, SignerInv, VersionsBehind
  <2> QED
    BY <2>4, <2>5, <2>6 DEF SignerInv
<1>6. StoreInv'
  BY <1>1, StoreKept DEF RulesInv
<1> QED
  BY <1>4, <1>5, <1>6 DEF RulesInv

LEMMA WriteFailsInv ==
  ASSUME RulesInv, NEW p \in Publishers, WriteFails(p)
  PROVE  RulesInv'
<1>1. /\ job[p].pc = "write"
      /\ file' \in {file, job[p].version}
      /\ lock' = None
      /\ job' = [job EXCEPT ![p] = NoJob]
      /\ pub' = Refused(p)
      /\ UNCHANGED <<asks, up, sets, out, since, agents>>
      /\ UNCHANGED store
  BY DEF WriteFails
<1>2. /\ sets \in 0 .. MaxVersion /\ lock = p /\ job[p].version = sets + 1
      /\ job[p].version \in 0 .. MaxVersion
      /\ file \in 0 .. MaxVersion /\ sets <= file
  BY <1>1 DEF RulesInv, TypeOK, SignerInv, OneNumbering, Job
<1>3. /\ job' \in [Publishers -> Job]
      /\ job'[p].pc = "none"
      /\ \A q \in Publishers \ {p} : job'[q] = job[q]
  BY <1>1, EmptyTypes DEF RulesInv, TypeOK, NoJob
<1>4. pub' \in [Publishers -> Request] /\ StoreInv'
  BY <1>1, RefusedRequests
<1>5. TypeOK'
  BY <1>1, <1>2, <1>3, <1>4 DEF RulesInv, TypeOK, store, agents
<1>6. SignerInv'
  <2>1. \A e \in since : e.version \in Nat /\ e.version <= sets
    BY <1>2, RulesAssumption DEF RulesInv, TypeOK, SignerInv,
       VersionsBehind, Envelope, Versions
  <2>2. \A q \in Publishers : job'[q].pc \notin {"write", "remember"}
    BY <1>2, <1>3 DEF RulesInv, SignerInv, OneNumbering
  <2>3. file' # None /\ file' \in Nat /\ sets <= file'
    BY <1>1, <1>2, RulesAssumption
  <2>4. OneNumbering'
    BY <1>1, <2>2, <2>3 DEF OneNumbering
  <2>5. DownIsEmpty' /\ AnswersDiffer' /\ SignedOnce'
    BY <1>1, <1>3 DEF RulesInv, SignerInv, DownIsEmpty, AnswersDiffer,
       SignedOnce
  <2>6. VersionsBehind'
    BY <1>1, <1>2, <1>3, <2>1, <2>3 DEF RulesInv, SignerInv, VersionsBehind
  <2> QED
    BY <2>4, <2>5, <2>6 DEF SignerInv
<1> QED
  BY <1>4, <1>5, <1>6 DEF RulesInv

LEMMA RememberInv ==
  ASSUME RulesInv, NEW p \in Publishers, Remember(p)
  PROVE  RulesInv'
<1>1. /\ job[p].pc = "remember"
      /\ sets' = job[p].version
      /\ lock' = None
      /\ job' = [job EXCEPT ![p].pc = "answer"]
      /\ UNCHANGED <<asks, up, file, out, since, agents>>
      /\ UNCHANGED <<store, pub>>
  BY DEF Remember
<1>2. /\ sets \in 0 .. MaxVersion /\ lock = p /\ job[p].version = sets + 1
      /\ job[p].version \in 0 .. MaxVersion
      /\ file = job[p].version
  BY <1>1 DEF RulesInv, TypeOK, SignerInv, OneNumbering, Job
<1>3. /\ job' \in [Publishers -> Job]
      /\ job'[p].pc = "answer" /\ job'[p].version = job[p].version
      /\ \A q \in Publishers \ {p} : job'[q] = job[q]
  BY <1>1 DEF RulesInv, TypeOK, Job
<1>4. TypeOK'
  BY <1>1, <1>2, <1>3 DEF RulesInv, TypeOK, store, agents
<1>5. SignerInv'
  <2>1. \A e \in since : e.version \in Nat /\ e.version <= sets
    BY <1>2, RulesAssumption DEF RulesInv, TypeOK, SignerInv,
       VersionsBehind, Envelope, Versions
  <2>2. \A q \in Publishers \ {p} :
          /\ job[q].pc \notin {"write", "remember"}
          /\ job[q].version \in Nat
          /\ job[q].pc = "answer" => job[q].version \in 1 .. sets
    BY <1>2 DEF RulesInv, TypeOK, SignerInv, OneNumbering, VersionsBehind, Job
  <2>3. sets' # None /\ sets' = sets + 1 /\ up
    BY <1>1, <1>2, RulesAssumption DEF RulesInv, SignerInv, DownIsEmpty
  <2>4. OneNumbering'
    BY <1>1, <1>2, <1>3, <2>2, <2>3 DEF OneNumbering
  <2>5. DownIsEmpty' /\ SignedOnce'
    BY <1>1, <2>3 DEF RulesInv, SignerInv, DownIsEmpty, SignedOnce
  <2>6. VersionsBehind'
    BY <1>1, <1>2, <1>3, <2>1, <2>2, <2>3 DEF VersionsBehind
  <2>7. AnswersDiffer'
    BY <1>1, <1>2, <1>3, <2>1, <2>2 DEF RulesInv, SignerInv, AnswersDiffer
  <2> QED
    BY <2>4, <2>5, <2>6, <2>7 DEF SignerInv
<1>6. StoreInv'
  BY <1>1, StoreKept DEF RulesInv
<1> QED
  BY <1>4, <1>5, <1>6 DEF RulesInv

LEMMA AnswerInv ==
  ASSUME RulesInv, NEW p \in Publishers, Answer(p)
  PROVE  RulesInv'
<1> DEFINE e == [version |-> job[p].version, rules |-> job[p].rules,
                 key |-> SiteKey]
<1>1. /\ job[p].pc = "answer"
      /\ out' = out \cup {e} /\ since' = since \cup {e}
      /\ job' = [job EXCEPT ![p] = NoJob]
      /\ pub' = IF pub[p].pc = "asked"
                THEN [pub EXCEPT ![p] = [pc |-> "verify", env |-> e]]
                ELSE pub
      /\ UNCHANGED <<asks, up, file, sets, lock, agents>>
      /\ UNCHANGED store
  BY DEF Answer
<1>2. /\ sets \in 0 .. MaxVersion /\ job[p].version <= sets
      /\ job[p].version \in 0 .. MaxVersion
      /\ file \in 0 .. MaxVersion /\ sets <= file
  BY <1>1 DEF RulesInv, TypeOK, SignerInv, VersionsBehind, OneNumbering, Job
<1>3. job[p].version > 0
  BY <1>1, <1>2 DEF RulesInv, SignerInv, VersionsBehind
<1>4. e \in Envelope /\ e.version = job[p].version
  BY <1>2, <1>3, RulesAssumption DEF RulesInv, TypeOK, Job, Envelope, Versions
<1> HIDE DEF e
<1>5. /\ job' \in [Publishers -> Job]
      /\ job'[p].pc = "none"
      /\ \A q \in Publishers \ {p} : job'[q] = job[q]
  BY <1>1, EmptyTypes DEF RulesInv, TypeOK, NoJob
<1>6. /\ pub' \in [Publishers -> Request]
      /\ \A q \in Publishers :
           pub'[q] = pub[q] \/ pub'[q] = [pc |-> "verify", env |-> e]
  BY <1>1, <1>4 DEF RulesInv, TypeOK, Request
<1>7. TypeOK'
  BY <1>1, <1>4, <1>5, <1>6 DEF RulesInv, TypeOK, store, agents
<1>8. SignerInv'
  <2>1. OneNumbering' /\ DownIsEmpty'
    BY <1>1, <1>5 DEF RulesInv, SignerInv, OneNumbering, DownIsEmpty
  <2>2. VersionsBehind'
    BY <1>1, <1>2, <1>4, <1>5 DEF RulesInv, SignerInv, VersionsBehind
  <2>3. AnswersDiffer' /\ SignedOnce'
    BY <1>1, <1>4, <1>5 DEF RulesInv, SignerInv, AnswersDiffer, SignedOnce
  <2> QED
    BY <2>1, <2>2, <2>3 DEF SignerInv
<1>9. StoreInv'
  BY <1>1, <1>4, <1>6 DEF RulesInv, store, StoreInv, PublisherAlone,
     RequestsTyped, AddingIsLive
<1> QED
  BY <1>7, <1>8, <1>9 DEF RulesInv

LEMMA CrashInv ==
  ASSUME RulesInv, Crash
  PROVE  RulesInv'
<1>1. /\ up' = FALSE /\ sets' = None /\ lock' = None
      /\ job' = [p \in Publishers |-> NoJob]
      /\ pub' = [p \in Publishers |->
                   IF pub[p].pc = "asked" /\ job[p].pc # "none"
                   THEN NoRequest ELSE pub[p]]
      /\ UNCHANGED <<asks, file, out, since, agents>>
      /\ UNCHANGED store
  BY DEF Crash
<1>2. /\ pub' \in [Publishers -> Request]
      /\ \A q \in Publishers : pub'[q] = pub[q] \/ pub'[q] = NoRequest
  BY <1>1, EmptyTypes DEF RulesInv, TypeOK
<1>3. job' \in [Publishers -> Job]
  BY <1>1, EmptyTypes
<1>4. TypeOK'
  BY <1>1, <1>2, <1>3 DEF RulesInv, TypeOK, store, agents
<1>5. SignerInv'
  BY <1>1 DEF RulesInv, SignerInv, OneNumbering, DownIsEmpty,
     VersionsBehind, AnswersDiffer, SignedOnce, NoJob
<1>6. StoreInv'
  BY <1>1, <1>2, StoreReleased DEF RulesInv, NoRequest
<1> QED
  BY <1>4, <1>5, <1>6 DEF RulesInv

LEMMA RestartInv ==
  ASSUME RulesInv, Restart
  PROVE  RulesInv'
<1>1. /\ ~up /\ up' = TRUE /\ sets' = file
      /\ UNCHANGED <<asks, file, lock, job, out, since, agents>>
      /\ UNCHANGED <<store, pub>>
  BY DEF Restart
<1>2. TypeOK'
  BY <1>1 DEF RulesInv, TypeOK, store, agents
<1>3. SignerInv'
  BY <1>1, RulesAssumption DEF RulesInv, TypeOK, SignerInv, OneNumbering,
     DownIsEmpty, VersionsBehind, AnswersDiffer, SignedOnce
<1>4. StoreInv'
  BY <1>1, StoreKept DEF RulesInv
<1> QED
  BY <1>2, <1>3, <1>4 DEF RulesInv

LEMMA DamageInv ==
  ASSUME RulesInv, Damage
  PROVE  RulesInv'
<1>1. /\ ~up /\ file' = None
      /\ UNCHANGED <<asks, up, sets, lock, job, out, since, agents>>
      /\ UNCHANGED <<store, pub>>
  BY DEF Damage
<1>2. TypeOK'
  BY <1>1 DEF RulesInv, TypeOK, store, agents
<1>3. SignerInv'
  BY <1>1 DEF RulesInv, SignerInv, OneNumbering, DownIsEmpty,
     VersionsBehind, AnswersDiffer, SignedOnce
<1>4. StoreInv'
  BY <1>1, StoreKept DEF RulesInv
<1> QED
  BY <1>2, <1>3, <1>4 DEF RulesInv

(* Without version state nothing is between its number and its answer, and *)
(* what left the signer before does not count.                             *)
LEMMA SeedInv ==
  ASSUME RulesInv, Seed
  PROVE  RulesInv'
<1>1. /\ file = None /\ since' = {}
      /\ UNCHANGED <<asks, up, sets, lock, job, out, agents>>
      /\ UNCHANGED <<store, pub>>
  BY DEF Seed
<1>2. PICK n \in Versions : file' = n - 1
  BY DEF Seed
<1>3. file' \in 0 .. MaxVersion
  BY <1>2, RulesAssumption DEF Versions
<1>4. TypeOK'
  BY <1>1, <1>3 DEF RulesInv, TypeOK, store, agents
<1>5. SignerInv'
  <2>1. sets = None
    BY <1>1 DEF RulesInv, SignerInv, OneNumbering
  <2> QED
    BY <1>1, <2>1 DEF RulesInv, SignerInv, OneNumbering, DownIsEmpty,
       VersionsBehind, AnswersDiffer, SignedOnce
<1>6. StoreInv'
  BY <1>1, StoreKept DEF RulesInv
<1> QED
  BY <1>4, <1>5, <1>6 DEF RulesInv

-----------------------------------------------------------------------------
(* publish_inner.                                                          *)

(* A request that moves on or ends changes no other, and none of the       *)
(* signer's state.                                                         *)
LEMMA VerifyInv ==
  ASSUME RulesInv, NEW p \in Publishers, Verify(p)
  PROVE  RulesInv'
<1>1. /\ pub[p].pc = "verify"
      /\ pub' = IF trust[pub[p].env.key] = "trusted"
                THEN [pub EXCEPT ![p].pc = "lock"]
                ELSE [pub EXCEPT ![p] = NoRequest]
      /\ UNCHANGED <<asks, agents>>
      /\ UNCHANGED signer /\ UNCHANGED store
  BY DEF Verify
<1>2. /\ pub' \in [Publishers -> Request]
      /\ \A q \in Publishers \ {p} : pub'[q] = pub[q]
      /\ \/ pub'[p] = NoRequest
         \/ pub'[p].pc = "lock" /\ pub'[p].env = pub[p].env
  BY <1>1, EmptyTypes DEF RulesInv, TypeOK, Request
<1>3. TypeOK'
  BY <1>1, <1>2 DEF RulesInv, TypeOK, signer, store, agents
<1>4. StoreInv'
  BY <1>1, <1>2 DEF RulesInv, store, StoreInv, PublisherAlone, RequestsTyped,
     AddingIsLive, NoRequest
<1> QED
  BY <1>1, <1>3, <1>4, SignerKept DEF RulesInv

LEMMA LockSetInv ==
  ASSUME RulesInv, NEW p \in Publishers, LockSet(p)
  PROVE  RulesInv'
<1>1. /\ pub[p].pc = "lock" /\ plock = None
      /\ UNCHANGED <<asks, retired, trust, bundles, adding, agents>>
      /\ UNCHANGED signer
  BY DEF LockSet
<1>2. \A q \in Publishers : pub[q].pc \notin {"trust", "insert"}
  BY <1>1, RulesAssumption DEF RulesInv, StoreInv, PublisherAlone
<1>3. CASE retired \/ \E b \in bundles : b.version >= pub[p].env.version
  <2>1. pub' = [pub EXCEPT ![p] = NoRequest] /\ UNCHANGED plock
    BY <1>3 DEF LockSet
  <2>2. /\ pub' \in [Publishers -> Request]
        /\ \A q \in Publishers : pub'[q] = pub[q] \/ pub'[q] = NoRequest
    BY <2>1, EmptyTypes DEF RulesInv, TypeOK
  <2>3. TypeOK'
    BY <1>1, <2>1, <2>2 DEF RulesInv, TypeOK, signer, agents
  <2>4. StoreInv'
    BY <1>1, <2>1, <2>2, StoreReleased DEF RulesInv, store, NoRequest
  <2> QED
    BY <1>1, <2>3, <2>4, SignerKept DEF RulesInv
<1>4. CASE ~(retired \/ \E b \in bundles : b.version >= pub[p].env.version)
  <2>1. pub' = [pub EXCEPT ![p].pc = "trust"] /\ plock' = p
    BY <1>4 DEF LockSet
  <2>2. /\ pub' \in [Publishers -> Request]
        /\ \A q \in Publishers \ {p} : pub'[q] = pub[q]
        /\ pub'[p].pc = "trust" /\ pub'[p].env = pub[p].env
    BY <2>1 DEF RulesInv, TypeOK, Request
  <2>3. TypeOK'
    BY <1>1, <2>1, <2>2 DEF RulesInv, TypeOK, signer, agents
  <2>4. /\ pub[p].env \in Envelope
        /\ \A b \in bundles : b.version < pub[p].env.version
    BY <1>1, <1>4, RulesAssumption DEF RulesInv, TypeOK, StoreInv,
       RequestsTyped, Envelope, Versions
  <2>5. StoreInv'
    BY <1>1, <1>2, <2>1, <2>2, <2>4 DEF RulesInv, StoreInv, PublisherAlone,
       RequestsTyped, AddingIsLive
  <2> QED
    BY <1>1, <2>3, <2>5, SignerKept DEF RulesInv
<1> QED
  BY <1>3, <1>4

LEMMA CheckTrustInv ==
  ASSUME RulesInv, NEW p \in Publishers, CheckTrust(p)
  PROVE  RulesInv'
<1>1. /\ pub[p].pc = "trust"
      /\ UNCHANGED <<asks, retired, trust, bundles, adding, agents>>
      /\ UNCHANGED signer
  BY DEF CheckTrust
<1>2. /\ plock = p
      /\ \A b \in bundles : b.version < pub[p].env.version
      /\ \A q \in Publishers \ {p} : pub[q].pc \notin {"trust", "insert"}
  BY <1>1 DEF RulesInv, StoreInv, PublisherAlone
<1>3. /\ pub' \in [Publishers -> Request]
      /\ plock' \in {plock, None}
      /\ \A q \in Publishers \ {p} : pub'[q] = pub[q]
      /\ \/ pub'[p] = NoRequest
         \/ /\ pub'[p].pc = "insert" /\ pub'[p].env = pub[p].env
            /\ trust[pub[p].env.key] = "trusted" /\ plock' = p
  BY <1>2, EmptyTypes DEF RulesInv, TypeOK, Request, CheckTrust
<1>4. TypeOK'
  BY <1>1, <1>3 DEF RulesInv, TypeOK, signer, agents
<1>5. StoreInv'
  BY <1>1, <1>2, <1>3 DEF RulesInv, StoreInv, PublisherAlone, RequestsTyped,
     AddingIsLive, NoRequest
<1> QED
  BY <1>1, <1>4, <1>5, SignerKept DEF RulesInv

LEMMA InsertInv ==
  ASSUME RulesInv, NEW p \in Publishers, Insert(p)
  PROVE  RulesInv'
<1>1. /\ pub[p].pc = "insert"
      /\ bundles' = bundles \cup {pub[p].env}
      /\ pub' = [pub EXCEPT ![p] = NoRequest]
      /\ plock' = None
      /\ UNCHANGED <<asks, retired, trust, adding, agents>>
      /\ UNCHANGED signer
  BY DEF Insert
<1>2. /\ pub[p].env \in Envelope
      /\ \A q \in Publishers \ {p} : pub[q].pc \notin {"trust", "insert"}
  BY <1>1 DEF RulesInv, StoreInv, PublisherAlone, RequestsTyped
<1>3. /\ pub' \in [Publishers -> Request]
      /\ pub'[p].pc = "idle"
      /\ \A q \in Publishers \ {p} : pub'[q] = pub[q]
  BY <1>1, EmptyTypes DEF RulesInv, TypeOK, NoRequest
<1>4. TypeOK'
  BY <1>1, <1>2, <1>3 DEF RulesInv, TypeOK, signer, agents
<1>5. StoreInv'
  BY <1>1, <1>2, <1>3 DEF RulesInv, StoreInv, PublisherAlone, RequestsTyped,
     AddingIsLive
<1> QED
  BY <1>1, <1>4, <1>5, SignerKept DEF RulesInv

LEMMA AbortInv ==
  ASSUME RulesInv, NEW p \in Publishers, Abort(p)
  PROVE  RulesInv'
<1>1. /\ pub' = [pub EXCEPT ![p] = NoRequest]
      /\ plock' = IF plock = p THEN None ELSE plock
      /\ UNCHANGED <<asks, retired, trust, bundles, adding, agents>>
      /\ UNCHANGED signer
  BY DEF Abort
<1>2. /\ pub' \in [Publishers -> Request]
      /\ pub'[p].pc = "idle"
      /\ \A q \in Publishers \ {p} : pub'[q] = pub[q]
  BY <1>1, EmptyTypes DEF RulesInv, TypeOK, NoRequest
<1>3. TypeOK'
  BY <1>1, <1>2 DEF RulesInv, TypeOK, signer, agents
<1>4. StoreInv'
  BY <1>1, <1>2 DEF RulesInv, StoreInv, PublisherAlone, RequestsTyped,
     AddingIsLive
<1> QED
  BY <1>1, <1>3, <1>4, SignerKept DEF RulesInv

-----------------------------------------------------------------------------
(* Operators and agents.                                                   *)

LEMMA AddCheckInv ==
  ASSUME RulesInv, NEW k \in Keys, AddCheck(k)
  PROVE  RulesInv'
<1>1. /\ ~retired /\ adding' = k
      /\ UNCHANGED <<asks, retired, trust, bundles, plock, pub, agents>>
      /\ UNCHANGED signer
  BY DEF AddCheck
<1>2. TypeOK'
  BY <1>1 DEF RulesInv, TypeOK, signer, agents
<1>3. StoreInv'
  BY <1>1 DEF RulesInv, StoreInv, PublisherAlone, RequestsTyped, AddingIsLive
<1> QED
  BY <1>1, <1>2, <1>3, SignerKept DEF RulesInv

LEMMA AddKeyInv ==
  ASSUME RulesInv, AddKey
  PROVE  RulesInv'
<1>1. /\ adding \in Keys /\ adding' = None
      /\ trust' = [trust EXCEPT ![adding] = "trusted"]
      /\ UNCHANGED <<asks, retired, bundles, plock, pub, agents>>
      /\ UNCHANGED signer
  BY DEF AddKey, RulesInv, TypeOK
<1>2. TypeOK'
  BY <1>1 DEF RulesInv, TypeOK, signer, agents
<1>3. \A k \in Keys : trust[k] = "trusted" => trust'[k] = "trusted"
  BY <1>1 DEF RulesInv, TypeOK
<1>4. \A p \in Publishers : pub[p].pc = "insert" => pub[p].env.key \in Keys
  BY DEF RulesInv, StoreInv, RequestsTyped, Envelope
<1>5. StoreInv'
  BY <1>1, <1>3, <1>4 DEF RulesInv, StoreInv, PublisherAlone, RequestsTyped,
     AddingIsLive
<1> QED
  BY <1>1, <1>2, <1>5, SignerKept DEF RulesInv

LEMMA RemoveKeyInv ==
  ASSUME RulesInv, NEW k \in Keys, RemoveKey(k)
  PROVE  RulesInv'
<1>1. /\ ~Shared(k)
      /\ trust' = [trust EXCEPT ![k] = "removed"]
      /\ UNCHANGED <<asks, retired, bundles, plock, adding, pub, agents>>
      /\ UNCHANGED signer
  BY DEF RemoveKey
<1>2. TypeOK'
  BY <1>1 DEF RulesInv, TypeOK, signer, agents
<1>3. \A p \in Publishers : pub[p].pc = "insert" =>
        pub[p].env.key \in Keys /\ pub[p].env.key # k
  BY <1>1 DEF Shared, RulesInv, StoreInv, RequestsTyped, Envelope
<1>4. StoreInv'
  BY <1>1, <1>3 DEF RulesInv, TypeOK, StoreInv, PublisherAlone,
     RequestsTyped, AddingIsLive
<1> QED
  BY <1>1, <1>2, <1>4, SignerKept DEF RulesInv

LEMMA RetireInv ==
  ASSUME RulesInv, Retire
  PROVE  RulesInv'
<1>1. /\ adding = None /\ retired' = TRUE
      /\ UNCHANGED <<asks, trust, bundles, plock, adding, pub, agents>>
      /\ UNCHANGED signer
  BY DEF Retire
<1>2. TypeOK'
  BY <1>1 DEF RulesInv, TypeOK, signer, agents
<1>3. StoreInv'
  BY <1>1 DEF RulesInv, StoreInv, PublisherAlone, RequestsTyped, AddingIsLive
<1> QED
  BY <1>1, <1>2, <1>3, SignerKept DEF RulesInv

LEMMA AgentInv ==
  ASSUME RulesInv, NEW a \in Agents, Poll(a) \/ \E k \in Keys : DropKey(a, k)
  PROVE  RulesInv'
<1>1. /\ UNCHANGED asks
      /\ UNCHANGED signer /\ UNCHANGED <<store, pub>>
  BY DEF Poll, DropKey
<1>2. held' \in [Agents -> 0 .. MaxVersion]
  <2>1. \A b \in bundles : b.version \in 0 .. MaxVersion
    BY RulesAssumption DEF RulesInv, TypeOK, Envelope, Versions
  <2> QED
    BY <2>1 DEF RulesInv, TypeOK, Poll, DropKey, Serve, Current
<1>3. dropped' \in [Agents -> SUBSET Keys]
  BY DEF RulesInv, TypeOK, Poll, DropKey
<1>4. TypeOK'
  BY <1>1, <1>2, <1>3 DEF RulesInv, TypeOK, signer, store, agents
<1> QED
  BY <1>1, <1>4, SignerKept, StoreKept DEF RulesInv

-----------------------------------------------------------------------------
LEMMA NextInv == RulesInv /\ [Next]_vars => RulesInv'
<1> SUFFICES ASSUME RulesInv, [Next]_vars PROVE RulesInv'
  OBVIOUS
<1>1. CASE Crash \/ Restart \/ Damage \/ Seed \/ AddKey \/ Retire
  BY <1>1, CrashInv, RestartInv, DamageInv, SeedInv, AddKeyInv,
     RetireInv
<1>2. CASE \E p \in Publishers : Ask(p) \/ GiveUp(p) \/ Upload(p) \/ Abort(p)
  BY <1>2, AskInv, GiveUpInv, UploadInv, AbortInv
<1>3. CASE \E p \in Publishers : Signing(p)
  BY <1>3, RefuseInv, TakeVersionInv, WriteInv, WriteFailsInv, RememberInv,
     AnswerInv DEF Signing
<1>4. CASE \E p \in Publishers : Publishing(p)
  BY <1>4, VerifyInv, LockSetInv, CheckTrustInv, InsertInv DEF Publishing
<1>5. CASE \E k \in Keys : AddCheck(k) \/ RemoveKey(k)
  BY <1>5, AddCheckInv, RemoveKeyInv
<1>6. CASE \E a \in Agents : Poll(a) \/ \E k \in Keys : DropKey(a, k)
  BY <1>6, AgentInv
<1>7. CASE UNCHANGED vars
  <2>1. UNCHANGED signer /\ UNCHANGED <<store, pub>>
    BY <1>7 DEF vars
  <2>2. TypeOK'
    BY <1>7 DEF RulesInv, TypeOK, vars, signer, store, agents
  <2> QED
    BY <2>1, <2>2, SignerKept, StoreKept DEF RulesInv
<1> QED
  BY <1>1, <1>2, <1>3, <1>4, <1>5, <1>6, <1>7 DEF Next

LEMMA Invariance == Spec => []RulesInv
<1>1. Init => RulesInv
  BY InitInv
<1>2. RulesInv /\ [Next]_vars => RulesInv'
  BY NextInv
<1> QED
  BY <1>1, <1>2, PTL DEF Spec

-----------------------------------------------------------------------------
(* Results *)

(* The signer's, the store's and the agents' state keep their types; in    *)
(* particular a version is never above what the signer may give out.       *)
THEOREM TypeCorrect == Spec => []TypeOK
<1>1. RulesInv => TypeOK
  BY DEF RulesInv
<1> QED
  BY <1>1, Invariance, PTL

(* From one seeding of its version state to the next, the signer never     *)
(* hands out two envelopes with one version, wherever it crashes between   *)
(* numbering, record_signed and its answer, and however often its write    *)
(* fails.                                                                  *)
THEOREM NeverSignedTwice == Spec => []SignedOnce
<1>1. RulesInv => SignedOnce
  BY DEF RulesInv, SignerInv
<1> QED
  BY <1>1, Invariance, PTL

(* A step that stores a bundle is publish_inner's insert. *)
LEMMA StoredByInsert ==
  ASSUME RulesInv, Next, ~(bundles' \subseteq bundles)
  PROVE  \E p \in Publishers : Insert(p)
BY DEF Next, Crash, Restart, Damage, Seed, AddKey, Retire, Ask, GiveUp,
   Upload, Signing, Refuse, TakeVersion, Write, WriteFails, Remember, Answer,
   Publishing, Verify, LockSet, CheckTrust, Abort, AddCheck, RemoveKey, Poll,
   DropKey, store

(* publish_inner stores only versions above every stored one, however many *)
(* publishers race and whatever versions a seeded signer hands out again.  *)
THEOREM PublishingRises == Spec => VersionsRise
<1> DEFINE Rises ==
      \A e \in bundles' \ bundles : \A b \in bundles : b.version < e.version
<1>1. ASSUME RulesInv, [Next]_vars
      PROVE  [Rises]_vars
  <2>1. SUFFICES ASSUME Next, NEW e \in bundles' \ bundles, NEW b \in bundles
                 PROVE  b.version < e.version
    BY <1>1
  <2>2. PICK p \in Publishers : Insert(p)
    BY <1>1, <2>1, StoredByInsert
  <2>3. pub[p].pc = "insert" /\ e = pub[p].env
    BY <2>1, <2>2 DEF Insert
  <2> QED
    BY <1>1, <2>3 DEF RulesInv, StoreInv, PublisherAlone
<1> QED
  BY <1>1, Invariance, PTL DEF Spec, VersionsRise

(* publish_inner stores a bundle only while its key is trusted, although   *)
(* the signature was verified before and remove_trust_key may come between.*)
THEOREM PublishingTrusts == Spec => StoredWhileTrusted
<1> DEFINE Trusted == \A e \in bundles' \ bundles : trust'[e.key] = "trusted"
<1>1. ASSUME RulesInv, [Next]_vars
      PROVE  [Trusted]_vars
  <2>1. SUFFICES ASSUME Next, NEW e \in bundles' \ bundles
                 PROVE  trust'[e.key] = "trusted"
    BY <1>1
  <2>2. PICK p \in Publishers : Insert(p)
    BY <1>1, <2>1, StoredByInsert
  <2>3. pub[p].pc = "insert" /\ e = pub[p].env /\ trust' = trust
    BY <2>1, <2>2 DEF Insert
  <2> QED
    BY <1>1, <2>3 DEF RulesInv, StoreInv, PublisherAlone
<1> QED
  BY <1>1, Invariance, PTL DEF Spec, StoredWhileTrusted

(* add_trust_key never adds a key to a set that retire has ended since it  *)
(* looked.                                                                 *)
THEOREM KeysOnLiveSets == Spec => NoKeyOnRetired
<1> DEFINE Live == \A k \in Keys :
                     trust'[k] = "trusted" /\ trust[k] # "trusted" => ~retired'
<1>1. ASSUME RulesInv, [Next]_vars
      PROVE  [Live]_vars
  <2>1. SUFFICES ASSUME Next, NEW k \in Keys, trust'[k] = "trusted",
                        trust[k] # "trusted"
                 PROVE  ~retired'
    BY <1>1
  <2>2. AddKey \/ \E j \in Keys : RemoveKey(j)
    BY <2>1 DEF Next, Crash, Restart, Damage, Seed, Retire, Ask,
       GiveUp, Upload, Signing, Refuse, TakeVersion, Write, WriteFails,
       Remember, Answer, Publishing, Verify, LockSet, CheckTrust, Insert,
       Abort, AddCheck, Poll, DropKey, store
  <2>3. ASSUME NEW j \in Keys, RemoveKey(j) PROVE FALSE
    BY <1>1, <2>1, <2>3 DEF RemoveKey, RulesInv, TypeOK
  <2>4. CASE AddKey
    BY <1>1, <2>4 DEF AddKey, RulesInv, StoreInv, AddingIsLive
  <2> QED
    BY <2>2, <2>3, <2>4
<1> QED
  BY <1>1, Invariance, PTL DEF Spec, NoKeyOnRetired
=============================================================================
