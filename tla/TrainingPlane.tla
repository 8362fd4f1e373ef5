---------------------------- MODULE TrainingPlane ----------------------------
(***************************************************************************)
(* The training of one job: the workers' trainers pull weights from the    *)
(* parameter server and push gradients to it, with retries over a network  *)
(* that loses requests and replies, while the server's persistence loop    *)
(* uploads checkpoints and the final model to the model registry.          *)
(*                                                                         *)
(* A trainer is synchronous: it has one call open at a time.               *)
(***************************************************************************)
EXTENDS ParameterServer, FiniteSets, SequencesExt

CONSTANTS
  MaxAttempts,    \* the literal 3 of retry_on_failure
  MaxPushes,      \* bound: how many calls of push_gradients a worker makes
  MaxRestarts,    \* bound: how often the server restarts
  Interval,       \* CHECKPOINT_INTERVAL
  FinalVersion,   \* FINAL_MODEL_VERSION
  Faults          \* which faults may happen, a subset of FaultKinds

FaultKinds == {"request",   \* a request does not reach the server
               "reply",     \* the server has handled it, and the reply is lost
               "redis",     \* Redis raises in the middle of a push
               "crash",     \* the server restarts, possibly in the middle of a push
               "registry"}  \* an upload to the model registry raises

ASSUME PlaneAssumption ==
  /\ MaxAttempts \in Nat \ {0} /\ MaxPushes \in Nat /\ MaxRestarts \in Nat
  /\ Interval \in Nat \ {0} /\ FinalVersion \in Nat \ {0}
  /\ Faults \subseteq FaultKinds

VARIABLES
  trainer,     \* per worker: locals of Trainer and of its client
  sent,        \* sent[w]: how many pushes w has finished
  acked,       \* history: the pushes whose acceptance w was told of
  restarts,    \* how often the server restarted
  saver,       \* locals of PersistenceLoop._process_job
  lastSaved,   \* Redis: checkpoint:{job}:last_saved
  finalSaved,  \* Redis: checkpoint:{job}:final_saved
  uploaded,    \* model registry, storage: the checkpoint called v{n}
  registered,  \* model registry, database: checkpoint_version of the model
  finalModel   \* model registry, storage: the final model

clients  == <<trainer, sent, acked>>
registry == <<lastSaved, finalSaved, uploaded, registered, finalModel>>
vars     == <<redis, memVersion, clients, restarts, saver, registry>>

\* seen is the client's current_version, base the version of the weights in the
\* worker's model (0: its own initial weights), want the version it was told of.
NewTrainer == [pc |-> "version", want |-> 0, seen |-> 0, base |-> 0, attempt |-> 1]
IdleSaver  == [pc |-> "idle", version |-> 0, weights |-> None]

TrainerPcs == {"version", "fetch", "seed", "push", "sync"}
SaverPcs   == {"idle", "load", "upload", "loadFinal", "uploadFinal"}

TypeOK ==
  /\ ServerTypeOK
  /\ trainer \in [Workers -> [pc : TrainerPcs, want : 0..MaxVersion, seen : 0..MaxVersion,
                              base : 0..MaxVersion, attempt : 1..MaxAttempts]]
  /\ sent \in [Workers -> 0..MaxPushes]
  /\ acked \subseteq Pushes
  /\ restarts \in 0..MaxRestarts
  /\ saver \in [pc : SaverPcs, version : 0..MaxVersion, weights : Seq(Pushes)]
  /\ lastSaved \in 0..MaxVersion
  /\ finalSaved \in BOOLEAN
  /\ uploaded \in [Versions -> Seq(Pushes)]
  /\ registered \in 0..MaxVersion
  /\ finalModel \in Seq(Pushes)

Init ==
  /\ ServerInit
  /\ trainer = [w \in Workers |-> NewTrainer]
  /\ sent = [w \in Workers |-> 0]
  /\ acked = {}
  /\ restarts = 0
  /\ saver = IdleSaver
  /\ lastSaved = 0
  /\ finalSaved = FALSE
  /\ uploaded = [v \in Versions |-> None]
  /\ registered = 0
  /\ finalModel = None

-----------------------------------------------------------------------------
(* Trainer._fetch_weights, at the start of an assignment.                  *)

At(w, pc)   == trainer[w].pc = pc
Go(w, next) == trainer' = [trainer EXCEPT ![w] = next]
\* The trainer goes on to another call.
Then(w, pc) == [trainer[w] EXCEPT !.pc = pc, !.attempt = 1]

GetVersion(w) ==
  /\ At(w, "version")
  /\ Go(w, [Then(w, "fetch") EXCEPT !.want = GetModelVersion])
  /\ UNCHANGED <<redis, memVersion, sent, acked, restarts, saver, registry>>

\* Weights older than the version the server named are refused; a server
\* without weights and without a version is seeded.
FetchWeights(w) ==
  LET got == Latest # None /\ current >= trainer[w].want
      next == Then(w, IF Latest = None /\ trainer[w].want = 0 THEN "seed" ELSE "push")
  IN
  /\ At(w, "fetch")
  /\ PullWeights
  /\ Go(w, [next EXCEPT !.seen = IF Latest # None THEN current ELSE 0,
                        !.base = IF got THEN current ELSE @])
  /\ UNCHANGED <<redis, sent, acked, restarts, saver, registry>>

-----------------------------------------------------------------------------
(* Pushes: the seed (_seed_initial_weights) and gradients (_push_gradients).*)

Pushing(w)  == At(w, "seed") \/ At(w, "push")
PushOf(w)   == [worker |-> w, n |-> sent[w] + 1,
                kind |-> IF At(w, "seed") THEN "seed" ELSE "gradient"]
MayPush(w)  == Pushing(w) /\ sent[w] < MaxPushes /\ current < MaxVersion

\* After a push that was not accepted a seeder goes on with its own weights, and
\* a trainer takes a local step.
Rejected(w) == Then(w, "push")

\* Mutant: the client believes the version in the acknowledgement.
Acknowledged_NewVersion(w) ==
  IF At(w, "push") THEN [Then(w, "sync") EXCEPT !.seen = current'] ELSE Then(w, "push")

\* A seeder holds version 1 only if its weights are what the server now has; the
\* version its client reports is still that of its last pull.
Acknowledged(w) ==
  IF At(w, "push") THEN Then(w, "sync")
  ELSE [Then(w, "push") EXCEPT !.base = IF Seeding(PushOf(w)) THEN 1 ELSE @]

\* The push is served and answered.
Push(w) ==
  LET p == PushOf(w) IN
  /\ MayPush(w)
  /\ sent' = [sent EXCEPT ![w] = @ + 1]
  /\ \/ /\ Accepted(p)
        /\ PushGradients(p, AllWrites(p))
        /\ RememberVersion(p, AllWrites(p))
        /\ acked' = acked \cup {p}
        /\ Go(w, Acknowledged(w))
     \/ /\ ~ Accepted(p)
        /\ Go(w, Rejected(w))
        /\ UNCHANGED <<redis, memVersion, acked>>
  /\ UNCHANGED <<restarts, saver, registry>>

\* _sync_weights: the aggregated weights replace the worker's own.
Sync(w) ==
  /\ At(w, "sync")
  /\ PullWeights
  /\ Go(w, [Then(w, "push") EXCEPT !.seen = IF Latest # None THEN current ELSE 0,
                                   !.base = IF Latest # None THEN current ELSE @])
  /\ UNCHANGED <<redis, sent, acked, restarts, saver, registry>>

\* The worker is given another assignment, at the end of this one or when it has
\* restarted: a trainer and a client are made for each.
NewAssignment(w) ==
  /\ Go(w, NewTrainer)
  /\ sent' = IF trainer[w].attempt > 1 /\ Pushing(w) THEN [sent EXCEPT ![w] = @ + 1] ELSE sent
  /\ UNCHANGED <<redis, memVersion, acked, restarts, saver, registry>>

-----------------------------------------------------------------------------
(* Calls that fail: retry_on_failure repeats a pull or a push as it is, and *)
(* gives up after MaxAttempts.  GetModelVersion is not retried, and without *)
(* it the worker trains on its own weights.                                *)

Calling(w) == Pushing(w) => sent[w] < MaxPushes

\* Mutant: a call is repeated for as long as it fails.
CallFails_NoLimit(w) ==
  /\ Calling(w)
  /\ Go(w, IF At(w, "version") THEN Then(w, "push") ELSE [trainer[w] EXCEPT !.attempt = @ + 1])
  /\ UNCHANGED <<sent, acked>>

CallFails(w) ==
  LET again == trainer[w].attempt < MaxAttempts /\ ~ At(w, "version") IN
  /\ Calling(w)
  /\ Go(w, IF again THEN [trainer[w] EXCEPT !.attempt = @ + 1] ELSE Then(w, "push"))
  /\ sent' = IF Pushing(w) /\ ~ again THEN [sent EXCEPT ![w] = @ + 1] ELSE sent
  /\ UNCHANGED acked

RequestLost(w) ==
  /\ "request" \in Faults
  /\ CallFails(w)
  /\ UNCHANGED <<redis, memVersion, restarts, saver, registry>>

ReplyLost(w) ==
  /\ "reply" \in Faults
  /\ CallFails(w)
  /\ \/ At(w, "version") /\ UNCHANGED <<redis, memVersion>>
     \/ (At(w, "fetch") \/ At(w, "sync")) /\ PullWeights /\ UNCHANGED redis
     \/ LET p == PushOf(w) IN
          /\ MayPush(w) /\ Accepted(p)
          /\ PushGradients(p, AllWrites(p)) /\ RememberVersion(p, AllWrites(p))
  /\ UNCHANGED <<restarts, saver, registry>>

\* Redis raises after the k-th write: the handler aborts the call.
RedisError(w) ==
  LET p == PushOf(w) IN
  /\ "redis" \in Faults
  /\ MayPush(w) /\ Accepted(p)
  /\ CallFails(w)
  /\ \E k \in ErrorCuts(p) : PushGradients(p, k) /\ RememberVersion(p, k)
  /\ UNCHANGED <<restarts, saver, registry>>

Restart ==
  /\ "crash" \in Faults /\ restarts < MaxRestarts
  /\ restarts' = restarts + 1
  /\ memVersion' = 0
  /\ saver' = IdleSaver

\* The server restarts between two calls, or in the middle of a push.
Crash ==
  /\ Restart
  /\ UNCHANGED <<redis, clients, registry>>

CrashInPush(w) ==
  LET p == PushOf(w) IN
  /\ Restart
  /\ MayPush(w) /\ Accepted(p)
  /\ CallFails(w)
  /\ \E k \in 0..AllWrites(p) : PushGradients(p, k)
  /\ UNCHANGED registry

-----------------------------------------------------------------------------
(* PersistenceLoop.run: every poll processes the job once; an exception ends *)
(* the processing until the next poll.  Loading and uploading are awaited,  *)
(* so the workers go on pushing meanwhile.  The job's model id is written   *)
(* before its training starts and is always found.                          *)

Saver(pc)     == saver.pc = pc
SaverGoes(st) == saver' = st

\* Mutant: only the final version itself is the final model.
FinalDue_Exactly(v) == v = FinalVersion /\ ~ finalSaved

FinalDue(v) == v >= FinalVersion /\ ~ finalSaved

\* What is left to do for version v once its checkpoint has been seen to.
FinalCheck(v) == IF FinalDue(v) THEN [pc |-> "loadFinal", version |-> v, weights |-> None]
                 ELSE IdleSaver

Poll ==
  /\ Saver("idle") /\ current > 0
  /\ SaverGoes(IF current >= lastSaved + Interval
               THEN [pc |-> "load", version |-> current, weights |-> None]
               ELSE FinalCheck(current))
  /\ UNCHANGED <<redis, memVersion, clients, restarts, registry>>

\* Mutant: whatever is current is loaded, and not the version that was polled.
LoadWeights_Current(v) == Latest

LoadWeights(v) == snapshots[v]

\* The snapshot may have left the window since the poll.
LoadCheckpoint ==
  LET loaded == LoadWeights(saver.version) IN
  /\ Saver("load")
  /\ SaverGoes(IF loaded = None THEN FinalCheck(saver.version)
               ELSE [saver EXCEPT !.pc = "upload", !.weights = loaded])
  /\ UNCHANGED <<redis, memVersion, clients, restarts, registry>>

LoadFinal ==
  LET loaded == LoadWeights(saver.version) IN
  /\ Saver("loadFinal")
  /\ SaverGoes(IF loaded = None THEN IdleSaver
               ELSE [saver EXCEPT !.pc = "uploadFinal", !.weights = loaded])
  /\ UNCHANGED <<redis, memVersion, clients, restarts, registry>>

\* An upload fails before the object is stored, between the object and the
\* database row, or on the way back.
Outcomes == {"ok"} \cup IF "registry" \in Faults THEN {"refused", "unrecorded", "unanswered"}
                        ELSE {}
Object(o, was) == IF o = "refused" THEN was ELSE saver.weights

\* Mutant: the checkpoint is noted as saved without waiting for the answer.
MarkSaved_Early(o) == lastSaved' = saver.version

MarkSaved(o) == lastSaved' = IF o = "ok" THEN saver.version ELSE lastSaved

UploadCheckpoint(o) ==
  LET v == saver.version IN
  /\ Saver("upload")
  /\ uploaded' = [uploaded EXCEPT ![v] = Object(o, @)]
  /\ registered' = IF o \in {"ok", "unanswered"} /\ v > registered THEN v ELSE registered
  /\ MarkSaved(o)
  /\ SaverGoes(IF o = "ok" THEN FinalCheck(v) ELSE IdleSaver)
  /\ UNCHANGED <<redis, memVersion, clients, restarts, finalSaved, finalModel>>

UploadFinalModel(o) ==
  /\ Saver("uploadFinal")
  /\ finalModel' = Object(o, finalModel)
  /\ finalSaved' = (finalSaved \/ o = "ok")
  /\ SaverGoes(IdleSaver)
  /\ UNCHANGED <<redis, memVersion, clients, restarts, lastSaved, uploaded, registered>>

\* GetFinalModelDownloadUrl: what a user downloads, None when not found.
Download == IF finalModel # None THEN finalModel
            ELSE IF registered > 0 THEN uploaded[registered] ELSE None

-----------------------------------------------------------------------------
Trainer(w) == GetVersion(w) \/ FetchWeights(w) \/ Push(w) \/ Sync(w) \/ NewAssignment(w)
Fault(w)   == RequestLost(w) \/ ReplyLost(w) \/ RedisError(w) \/ CrashInPush(w)
Saving     == \/ Poll \/ LoadCheckpoint \/ LoadFinal
              \/ \E o \in Outcomes : UploadCheckpoint(o) \/ UploadFinalModel(o)

Next == (\E w \in Workers : Trainer(w) \/ Fault(w)) \/ Crash \/ Saving

Spec == Init /\ [][Next]_vars

\* The loop runs for as long as its process does, and an upload that is tried
\* again and again is answered in the end.  Nothing is assumed of the workers.
Fairness == /\ WF_vars(Saving)
            /\ SF_vars(UploadCheckpoint("ok"))
            /\ SF_vars(UploadFinalModel("ok"))

FairSpec == Spec /\ Fairness

-----------------------------------------------------------------------------
(* Properties.                                                             *)

\* The version that Redis calls current has its weights, through every error and
\* crash in the middle of a push: without them the next pushes would be refused
\* for ever, or a seed would start the model over.
CurrentIsStored == current > 0 => Latest # None

\* Training is one line of versions: the snapshot of version n holds n pushes, and
\* every one up to the current version is a beginning of the current weights.  No
\* update is applied to anything but the newest weights.
LinearHistory ==
  \A v \in 1..current :
    snapshots[v] # None => Len(snapshots[v]) = v /\ IsPrefix(snapshots[v], Latest)

\* A push whose acceptance the worker was told of is part of the weights, whatever
\* errors, crashes and other workers' pushes follow.
AckedIsKept == acked \subseteq Range(Latest)

\* No push weighs more in the momentum buffer than in the weights: the buffer never
\* pulls later steps in the direction of an update that was not stored.
Times(p, s) == Cardinality({i \in DOMAIN s : s[i] = p})
MomentumNeverAhead == \A p \in Range(momentum) : Times(p, momentum) <= Times(p, Latest)

\* The version a worker sends with its gradients is never newer than the weights
\* they were computed against, so the server never damps them too little.
NeverUnderDamped == \A w \in Workers : trainer[w].seen <= trainer[w].base

\* What the registry stores under the name v{n} is version n of this training, and
\* the final model is one of its versions, however many pushes, failed uploads and
\* restarts happened between the poll and the upload.
CheckpointIsFaithful ==
  /\ \A v \in Versions : uploaded[v] # None => /\ Len(uploaded[v]) = v
                                               /\ IsPrefix(uploaded[v], Latest)
  /\ IsPrefix(finalModel, Latest)

\* What a user can download is at least as far trained as the last checkpoint the
\* server has noted as saved, and as FINAL_MODEL_VERSION once the final model is.
DownloadKeepsUp ==
  /\ finalModel = None => Len(Download) >= lastSaved
  /\ finalSaved => Len(Download) >= FinalVersion

\* Once FINAL_MODEL_VERSION is reached, the final model is saved in the end.
FinalModelSaved == current >= FinalVersion ~> finalSaved

\* trainer.py:673-674 says of the seed: "Uses learning_rate=0.0 as a sentinel so the
\* PS stores the data as weights rather than applying them as gradients."
SeedNeverGradient ==
  \A s \in {Latest, momentum} : \A i \in DOMAIN s : IsSeed(s[i]) => s = Latest /\ i = 1

\* README.md:106 says of staleness damping: "Fresh gradients (s = 0) get full weight",
\* s being how many updates the weights it was computed against are behind.
ClaimedVersionIsBase ==
  \A w \in Workers : At(w, "push") => trainer[w].seen = trainer[w].base
=============================================================================
