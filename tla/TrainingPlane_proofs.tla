------------------------ MODULE TrainingPlane_proofs ------------------------
(* Theorems about TrainingPlane, for every value of its constants.         *)
EXTENDS TrainingPlane, SequenceTheorems, FiniteSetTheorems, TLAPS

(***************************************************************************)
(* Types.  A worker that repeats a push has not used up its pushes, which  *)
(* is what makes the count it keeps of them typed.                         *)
(***************************************************************************)
Repeating == \A w \in Workers : Pushing(w) /\ trainer[w].attempt > 1 => sent[w] < MaxPushes

TypeInv == TypeOK /\ Repeating

Trainers == [pc : TrainerPcs, want : 0..MaxVersion, seen : 0..MaxVersion,
             base : 0..MaxVersion, attempt : 1..MaxAttempts]

\* A push that the server applies, up to its k-th write.
Applied(p, k) ==
  /\ p \in Pushes /\ k \in 0..4
  /\ current < MaxVersion /\ Accepted(p)
  /\ PushGradients(p, k)

LEMMA Bounds ==
  /\ MaxVersion \in Nat \ {0} /\ History \in Nat \ {0}
  /\ MaxAttempts \in Nat \ {0} /\ MaxPushes \in Nat /\ MaxRestarts \in Nat
  /\ Interval \in Nat \ {0} /\ FinalVersion \in Nat \ {0}
  BY HistoryAssumption, BoundAssumption, PlaneAssumption

LEMMA PushIsPush ==
  ASSUME TypeOK, NEW w \in Workers
  PROVE  PushOf(w) \in Pushes
<1>1. sent[w] \in Nat
  BY Bounds DEF TypeOK
<1> QED
  BY <1>1 DEF PushOf, Pushes

LEMMA LatestTyped ==
  ASSUME ServerTypeOK
  PROVE  Latest \in Seq(Pushes)
<1>1. CASE current = 0
  BY <1>1 DEF Latest, Stored, None
<1>2. CASE current # 0
  <2>1. current \in Versions
    BY <1>2, Bounds DEF ServerTypeOK, Versions
  <2> QED
    BY <1>2, <2>1 DEF Latest, Stored, ServerTypeOK
<1> QED
  BY <1>1, <1>2

\* A push writes weights and a buffer again, and a version within the bound.
LEMMA AppliedTyped ==
  ASSUME ServerTypeOK, NEW p, NEW k, Applied(p, k)
  PROVE  /\ current' \in 0..MaxVersion
         /\ snapshots' \in [Versions -> Seq(Pushes)]
         /\ momentum' \in Seq(Pushes)
         /\ NewVersion(p) \in 0..MaxVersion
<1> USE DEF Applied
<1>1. NewVersion(p) \in 0..MaxVersion
  BY Bounds DEF NewVersion, BaseVersion, ServerTypeOK
<1>2. NewWeights(p) \in Seq(Pushes)
  <2>1. <<p>> \in Seq(Pushes)
    OBVIOUS
  <2>2. Append(Latest, p) \in Seq(Pushes)
    BY LatestTyped
  <2> QED
    BY <2>1, <2>2 DEF NewWeights, BaseVersion, Latest
<1>3. current' \in 0..MaxVersion
  BY <1>1 DEF PushGradients, Persist, ServerTypeOK
<1>4. snapshots' \in [Versions -> Seq(Pushes)]
  <2>1. None \in Seq(Pushes)
    BY DEF None
  <2> QED
    BY <1>2, <2>1 DEF PushGradients, Persist, ServerTypeOK
<1>5. momentum' \in Seq(Pushes)
  BY DEF PushGradients, FoldMomentum, ServerTypeOK
<1> QED
  BY <1>1, <1>3, <1>4, <1>5

\* What the trainer becomes is a trainer.
LEMMA TrainerStays ==
  ASSUME TypeOK, NEW w \in Workers, NEW next \in Trainers, Go(w, next)
  PROVE  trainer' \in [Workers -> Trainers]
  BY DEF TypeOK, Go, Trainers

LEMMA TrainerMoves ==
  ASSUME TypeOK, NEW w \in Workers
  PROVE  /\ trainer[w] \in Trainers
         /\ \A pc \in TrainerPcs : Then(w, pc) \in Trainers /\ Then(w, pc).pc = pc
                                   /\ Then(w, pc).attempt = 1
         /\ NewTrainer \in Trainers
<1>1. 1 \in 1..MaxAttempts /\ 0 \in 0..MaxVersion
  BY Bounds
<1>2. trainer[w] \in Trainers
  BY DEF TypeOK, Trainers
<1>3. NewTrainer \in Trainers
  BY <1>1 DEF NewTrainer, Trainers, TrainerPcs
<1> QED
  BY <1>1, <1>2, <1>3 DEF Then, Trainers

(***************************************************************************)
(* What a step does to the server: nothing, or one push, up to some write. *)
(* A push that is answered made all its writes.                            *)
(***************************************************************************)
Answered(p, k) == k = AllWrites(p) /\ acked' = acked \cup {p}
OnePush(p, k)  == Applied(p, k) /\ (Answered(p, k) \/ UNCHANGED acked)
NoPush         == UNCHANGED <<redis, acked>>

LEMMA WritesOfPush ==
  ASSUME NEW p
  PROVE  /\ AllWrites(p) \in 3..4
         /\ ErrorCuts(p) \subseteq 0..4
         /\ 0..AllWrites(p) \subseteq 0..4
<1>1. AllWrites(p) \in 3..4
  BY DEF AllWrites
<1> QED
  BY <1>1 DEF ErrorCuts

LEMMA PushCases ==
  ASSUME TypeOK, NEW w \in Workers, Trainer(w) \/ Fault(w)
  PROVE  NoPush \/ \E p \in Pushes, k \in 0..4 : OnePush(p, k)
<1> DEFINE p == PushOf(w)
<1>0. p \in Pushes /\ AllWrites(p) \in 0..4
  BY PushIsPush, WritesOfPush
<1>1. CASE GetVersion(w) \/ FetchWeights(w) \/ Sync(w) \/ NewAssignment(w) \/ RequestLost(w)
  BY <1>1 DEF GetVersion, FetchWeights, Sync, NewAssignment, RequestLost, CallFails, NoPush, redis
<1>2. CASE Push(w)
  <2>1. CASE Accepted(p) /\ PushGradients(p, AllWrites(p)) /\ acked' = acked \cup {p}
    BY <1>0, <1>2, <2>1 DEF Push, OnePush, Applied, Answered, MayPush
  <2>2. CASE UNCHANGED <<redis, memVersion, acked>>
    BY <2>2 DEF NoPush
  <2> QED
    BY <1>2, <2>1, <2>2 DEF Push
<1>3. CASE ReplyLost(w)
  <2>1. CASE UNCHANGED redis
    BY <1>3, <2>1 DEF ReplyLost, CallFails, NoPush
  <2>2. CASE MayPush(w) /\ Accepted(p) /\ PushGradients(p, AllWrites(p))
    BY <1>0, <1>3, <2>2 DEF ReplyLost, CallFails, OnePush, Applied, MayPush
  <2> QED
    BY <1>3, <2>1, <2>2 DEF ReplyLost, redis
<1>4. CASE RedisError(w)
  <2>1. PICK k \in ErrorCuts(p) : PushGradients(p, k)
    BY <1>4 DEF RedisError
  <2>2. k \in 0..4
    BY WritesOfPush
  <2> QED
    BY <1>0, <1>4, <2>1, <2>2 DEF RedisError, CallFails, OnePush, Applied, MayPush
<1>5. CASE CrashInPush(w)
  <2>1. PICK k \in 0..AllWrites(p) : PushGradients(p, k)
    BY <1>5 DEF CrashInPush
  <2>2. k \in 0..4
    BY WritesOfPush
  <2> QED
    BY <1>0, <1>5, <2>1, <2>2 DEF CrashInPush, CallFails, OnePush, Applied, MayPush
<1> QED
  BY <1>1, <1>2, <1>3, <1>4, <1>5 DEF Trainer, Fault

LEMMA ServerStep ==
  ASSUME TypeOK, [Next]_vars
  PROVE  NoPush \/ \E p \in Pushes, k \in 0..4 : OnePush(p, k)
<1>1. CASE \E w \in Workers : Trainer(w) \/ Fault(w)
  BY <1>1, PushCases
<1>2. CASE Crash
  BY <1>2 DEF Crash, NoPush, clients
<1>3. CASE Saving
  BY <1>3 DEF Saving, Poll, LoadCheckpoint, LoadFinal, UploadCheckpoint, UploadFinalModel,
              NoPush, clients
<1>4. CASE UNCHANGED vars
  BY <1>4 DEF vars, NoPush, clients
<1> QED
  BY <1>1, <1>2, <1>3, <1>4 DEF Next

\* The version in memory is that of Redis, or that of the push that was served.
LEMMA MemoryStep ==
  ASSUME TypeOK, [Next]_vars
  PROVE  memVersion' \in {memVersion, 0, current}
         \/ \E p \in Pushes, k \in 0..4 : OnePush(p, k) /\ (k >= 3 /\ memVersion' = NewVersion(p))
<1>1. CASE \E w \in Workers : Trainer(w) \/ Fault(w)
  <2>1. PICK w \in Workers : Trainer(w) \/ Fault(w)
    BY <1>1
  <2> DEFINE p == PushOf(w)
  <2>2. p \in Pushes /\ AllWrites(p) \in 0..4 /\ ErrorCuts(p) \subseteq 0..4
    BY PushIsPush, WritesOfPush
  <2>3. CASE GetVersion(w) \/ FetchWeights(w) \/ Sync(w) \/ NewAssignment(w) \/ RequestLost(w)
    BY <2>3 DEF GetVersion, FetchWeights, Sync, NewAssignment, RequestLost, PullWeights
  <2>4. CASE Push(w)
    <3>1. CASE Accepted(p) /\ PushGradients(p, AllWrites(p)) /\ RememberVersion(p, AllWrites(p))
               /\ acked' = acked \cup {p}
      BY <2>2, <2>4, <3>1 DEF Push, OnePush, Applied, Answered, MayPush, RememberVersion
    <3>2. CASE UNCHANGED memVersion
      BY <3>2
    <3> QED
      BY <2>4, <3>1, <3>2 DEF Push
  <2>5. CASE ReplyLost(w)
    <3>1. CASE UNCHANGED memVersion \/ PullWeights
      BY <3>1 DEF PullWeights
    <3>2. CASE MayPush(w) /\ Accepted(p) /\ PushGradients(p, AllWrites(p))
               /\ RememberVersion(p, AllWrites(p))
      BY <2>2, <2>5, <3>2 DEF ReplyLost, CallFails, OnePush, Applied, MayPush, RememberVersion
    <3> QED
      BY <2>5, <3>1, <3>2 DEF ReplyLost
  <2>6. CASE RedisError(w)
    <3>1. PICK k \in ErrorCuts(p) : PushGradients(p, k) /\ RememberVersion(p, k)
      BY <2>6 DEF RedisError
    <3>2. OnePush(p, k)
      BY <2>2, <2>6, <3>1 DEF RedisError, CallFails, OnePush, Applied, MayPush
    <3> QED
      BY <2>2, <3>1, <3>2 DEF RememberVersion
  <2>7. CASE CrashInPush(w)
    BY <2>7 DEF CrashInPush, Restart
  <2> QED
    BY <2>1, <2>3, <2>4, <2>5, <2>6, <2>7 DEF Trainer, Fault
<1>2. CASE Crash
  BY <1>2 DEF Crash, Restart
<1>3. CASE Saving
  BY <1>3 DEF Saving, Poll, LoadCheckpoint, LoadFinal, UploadCheckpoint, UploadFinalModel
<1>4. CASE UNCHANGED vars
  BY <1>4 DEF vars
<1> QED
  BY <1>1, <1>2, <1>3, <1>4 DEF Next

LEMMA ServerTyped ==
  ASSUME TypeOK, [Next]_vars
  PROVE  ServerTypeOK' /\ acked' \subseteq Pushes
<1>1. current' \in 0..MaxVersion /\ snapshots' \in [Versions -> Seq(Pushes)]
      /\ momentum' \in Seq(Pushes) /\ acked' \subseteq Pushes
  <2>1. CASE NoPush
    BY <2>1 DEF NoPush, redis, TypeOK, ServerTypeOK
  <2>2. CASE \E p \in Pushes, k \in 0..4 : OnePush(p, k)
    BY <2>2, AppliedTyped DEF OnePush, Answered, TypeOK
  <2> QED
    BY <2>1, <2>2, ServerStep
<1>2. memVersion' \in 0..MaxVersion
  <2>1. CASE memVersion' \in {memVersion, 0, current}
    BY <2>1, Bounds DEF TypeOK, ServerTypeOK
  <2>2. CASE \E p \in Pushes, k \in 0..4 : OnePush(p, k) /\ memVersion' = NewVersion(p)
    BY <2>2, AppliedTyped DEF OnePush, TypeOK
  <2> QED
    BY <2>1, <2>2, MemoryStep
<1> QED
  BY <1>1, <1>2 DEF ServerTypeOK

(***************************************************************************)
(* What a step does to a worker: its trainer goes on to another call, or   *)
(* repeats the one it is at.                                               *)
(***************************************************************************)
Counted(w) == sent' = [sent EXCEPT ![w] = @ + 1] /\ sent[w] < MaxPushes

Moves(w, next) ==
  /\ next \in Trainers /\ Go(w, next)
  /\ \/ next.attempt = 1 /\ (UNCHANGED sent \/ Counted(w))
     \/ next.pc = trainer[w].pc /\ Calling(w) /\ UNCHANGED sent

LEMMA CallFailsMoves ==
  ASSUME TypeOK, NEW w \in Workers, CallFails(w)
  PROVE  \E next \in Trainers : Moves(w, next)
<1> DEFINE again == trainer[w].attempt < MaxAttempts /\ ~ At(w, "version")
           repeated == [trainer[w] EXCEPT !.attempt = @ + 1]
<1>1. CASE again
  <2>1. repeated \in Trainers /\ repeated.pc = trainer[w].pc
    BY <1>1, Bounds, TrainerMoves DEF Trainers
  <2>2. Go(w, repeated) /\ UNCHANGED sent /\ Calling(w)
    BY <1>1 DEF CallFails
  <2> QED
    BY <2>1, <2>2 DEF Moves
<1>2. CASE ~ again
  <2>1. Go(w, Then(w, "push")) /\ Calling(w)
    BY <1>2 DEF CallFails
  <2>2. UNCHANGED sent \/ Counted(w)
    BY <1>2, <2>1 DEF CallFails, Counted, Calling
  <2>3. Then(w, "push") \in Trainers /\ Then(w, "push").attempt = 1
    BY TrainerMoves DEF TrainerPcs
  <2> QED
    BY <2>1, <2>2, <2>3 DEF Moves
<1> QED
  BY <1>1, <1>2

LEMMA PushMoves ==
  ASSUME TypeInv, NEW w \in Workers, Push(w)
  PROVE  \E next \in Trainers : Moves(w, next)
<1> DEFINE to(pc) == Then(w, pc)
<1>1. Counted(w)
  BY DEF Push, MayPush, Counted
<1>2. /\ to("push") \in Trainers /\ to("push").attempt = 1
      /\ to("sync") \in Trainers /\ to("sync").attempt = 1
  BY TrainerMoves DEF TypeInv, TrainerPcs
<1>3. \A b \in 0..MaxVersion : [to("push") EXCEPT !.base = b] \in Trainers
                               /\ [to("push") EXCEPT !.base = b].attempt = 1
  BY <1>2 DEF Trainers
<1>4. CASE Go(w, Rejected(w))
  BY <1>1, <1>2, <1>4 DEF Rejected, Moves
<1>5. CASE Go(w, Acknowledged(w))
  <2>1. CASE At(w, "push")
    BY <1>1, <1>2, <1>5, <2>1 DEF Acknowledged, Moves
  <2>2. CASE ~ At(w, "push")
    <3> DEFINE b == IF Seeding(PushOf(w)) THEN 1 ELSE to("push").base
    <3>1. b \in 0..MaxVersion
      BY <1>2, Bounds DEF Trainers
    <3>2. Acknowledged(w) = [to("push") EXCEPT !.base = b]
      BY <2>2 DEF Acknowledged
    <3> HIDE DEF b
    <3> QED
      BY <1>1, <1>3, <1>5, <3>1, <3>2 DEF Moves
  <2> QED
    BY <2>1, <2>2
<1> QED
  BY <1>4, <1>5 DEF Push

LEMMA WorkerMoves ==
  ASSUME TypeInv, NEW w \in Workers, Trainer(w) \/ Fault(w)
  PROVE  \E next \in Trainers : Moves(w, next)
<1> USE DEF TypeInv
<1>0. \A pc \in TrainerPcs : Then(w, pc) \in Trainers /\ Then(w, pc).attempt = 1
  BY TrainerMoves
<1>1. CASE GetVersion(w)
  <2> DEFINE next == [Then(w, "fetch") EXCEPT !.want = memVersion]
  <2>1. next \in Trainers /\ next.attempt = 1
    BY <1>0 DEF TrainerPcs, Trainers, TypeOK, ServerTypeOK
  <2>2. Go(w, next) /\ UNCHANGED sent
    BY <1>1 DEF GetVersion, GetModelVersion
  <2> QED
    BY <2>1, <2>2 DEF Moves
<1>2. CASE FetchWeights(w)
  <2> DEFINE pc == IF Latest = None /\ trainer[w].want = 0 THEN "seed" ELSE "push"
             t == Then(w, pc)
             v == IF Latest # None THEN current ELSE 0
             b == IF Latest # None /\ current >= trainer[w].want THEN current ELSE t.base
  <2>1. t \in Trainers /\ t.attempt = 1
    BY <1>0 DEF TrainerPcs
  <2>2. v \in 0..MaxVersion /\ b \in 0..MaxVersion
    BY <2>1, Bounds DEF TypeOK, ServerTypeOK, Trainers
  <2>3. Go(w, [t EXCEPT !.seen = v, !.base = b]) /\ UNCHANGED sent
    BY <1>2 DEF FetchWeights
  <2> HIDE DEF t, v, b
  <2>4. [t EXCEPT !.seen = v, !.base = b] \in Trainers /\ [t EXCEPT !.seen = v, !.base = b].attempt = 1
    BY <2>1, <2>2 DEF Trainers
  <2> QED
    BY <2>3, <2>4 DEF Moves
<1>3. CASE Sync(w)
  <2> DEFINE t == Then(w, "push")
             v == IF Latest # None THEN current ELSE 0
             b == IF Latest # None THEN current ELSE t.base
  <2>1. t \in Trainers /\ t.attempt = 1
    BY <1>0 DEF TrainerPcs
  <2>2. v \in 0..MaxVersion /\ b \in 0..MaxVersion
    BY <2>1, Bounds DEF TypeOK, ServerTypeOK, Trainers
  <2>3. Go(w, [t EXCEPT !.seen = v, !.base = b]) /\ UNCHANGED sent
    BY <1>3 DEF Sync
  <2> HIDE DEF t, v, b
  <2>4. [t EXCEPT !.seen = v, !.base = b] \in Trainers /\ [t EXCEPT !.seen = v, !.base = b].attempt = 1
    BY <2>1, <2>2 DEF Trainers
  <2> QED
    BY <2>3, <2>4 DEF Moves
<1>4. CASE NewAssignment(w)
  <2>1. NewTrainer \in Trainers /\ NewTrainer.attempt = 1
    BY TrainerMoves DEF NewTrainer
  <2>2. UNCHANGED sent \/ Counted(w)
    BY <1>4 DEF NewAssignment, Counted, Repeating
  <2> QED
    BY <1>4, <2>1, <2>2 DEF NewAssignment, Moves
<1>5. CASE Push(w)
  BY <1>5, PushMoves
<1>6. CASE RequestLost(w) \/ ReplyLost(w) \/ RedisError(w) \/ CrashInPush(w)
  BY <1>6, CallFailsMoves DEF RequestLost, ReplyLost, RedisError, CrashInPush
<1> QED
  BY <1>1, <1>2, <1>3, <1>4, <1>5, <1>6 DEF Trainer, Fault

LEMMA ClientsTyped ==
  ASSUME TypeInv, [Next]_vars
  PROVE  /\ trainer' \in [Workers -> Trainers]
         /\ sent' \in [Workers -> 0..MaxPushes]
         /\ Repeating'
<1> USE DEF TypeInv
<1>0. trainer \in [Workers -> Trainers] /\ sent \in [Workers -> 0..MaxPushes]
  BY DEF TypeOK, Trainers
<1>1. CASE \E w \in Workers : Trainer(w) \/ Fault(w)
  <2>1. PICK w \in Workers, next \in Trainers : Moves(w, next)
    BY <1>1, WorkerMoves
  <2>2. trainer' = [trainer EXCEPT ![w] = next] /\ trainer' \in [Workers -> Trainers]
    BY <1>0, <2>1 DEF Moves, Go
  <2>3. sent' \in [Workers -> 0..MaxPushes] /\ \A x \in Workers : x # w => sent'[x] = sent[x]
    BY <1>0, <2>1, Bounds DEF Moves, Counted
  <2>4. ASSUME NEW x \in Workers, Pushing(x)', trainer'[x].attempt > 1
        PROVE  sent'[x] < MaxPushes
    <3>1. CASE x = w
      <4>1. trainer'[w] = next
        BY <1>0, <2>2
      <4>2. next.pc = trainer[w].pc /\ Calling(w) /\ UNCHANGED sent
        BY <2>1, <2>4, <3>1, <4>1 DEF Moves
      <4> QED
        BY <2>4, <3>1, <4>1, <4>2 DEF Calling, Pushing, At
    <3>2. CASE x # w
      BY <1>0, <2>2, <2>3, <2>4, <3>2 DEF Repeating, Pushing, At
    <3> QED
      BY <3>1, <3>2
  <2> QED
    BY <2>2, <2>3, <2>4 DEF Repeating
<1>2. CASE UNCHANGED clients
  BY <1>0, <1>2 DEF clients, Repeating, Pushing, At
<1>3. Crash \/ Saving \/ UNCHANGED vars => UNCHANGED clients
  BY DEF Crash, Saving, Poll, LoadCheckpoint, LoadFinal, UploadCheckpoint, UploadFinalModel, vars
<1> QED
  BY <1>1, <1>2, <1>3 DEF Next

(***************************************************************************)
(* What a step does to the persistence loop and the registry.              *)
(***************************************************************************)
Savers == [pc : SaverPcs, version : 0..MaxVersion, weights : Seq(Pushes)]

RegistryTyped ==
  /\ saver \in Savers
  /\ lastSaved \in 0..MaxVersion /\ registered \in 0..MaxVersion /\ finalSaved \in BOOLEAN
  /\ uploaded \in [Versions -> Seq(Pushes)] /\ finalModel \in Seq(Pushes)

\* While it loads or uploads, the loop holds a version that exists.
Holding == saver.pc # "idle" => saver.version > 0

LEMMA EmptyWeights == None \in Seq(Pushes)
  BY DEF None

LEMMA IdleSaverTyped == IdleSaver \in Savers /\ IdleSaver.pc = "idle"
  BY Bounds, EmptyWeights DEF IdleSaver, Savers, SaverPcs

LEMMA FinalCheckTyped ==
  ASSUME NEW v \in 1..MaxVersion
  PROVE  /\ FinalCheck(v) \in Savers
         /\ FinalCheck(v).pc # "idle" => FinalCheck(v).version = v /\ FinalCheck(v).pc = "loadFinal"
<1>1. [pc |-> "loadFinal", version |-> v, weights |-> None] \in Savers
  BY Bounds, EmptyWeights DEF Savers, SaverPcs
<1> QED
  BY <1>1, IdleSaverTyped DEF FinalCheck

LEMMA SavingTyped ==
  ASSUME TypeOK, Holding, Saving
  PROVE  RegistryTyped' /\ Holding'
<1>0. RegistryTyped
  BY DEF TypeOK, RegistryTyped, Savers
<1>1. CASE Poll
  <2>1. current \in 1..MaxVersion
    BY <1>1, Bounds DEF Poll, TypeOK, ServerTypeOK
  <2>2. [pc |-> "load", version |-> current, weights |-> None] \in Savers
    BY <2>1, EmptyWeights DEF Savers, SaverPcs
  <2>3. saver' \in Savers /\ Holding'
    BY <1>1, <2>1, <2>2, FinalCheckTyped DEF Poll, SaverGoes, Holding
  <2> QED
    BY <1>0, <1>1, <2>3 DEF Poll, registry, RegistryTyped
<1>2. CASE LoadCheckpoint \/ LoadFinal
  <2>1. saver \in Savers /\ saver.version \in Versions
    BY <1>0, <1>2, Bounds DEF RegistryTyped, Holding, Saver, LoadCheckpoint, LoadFinal,
                              Savers, Versions
  <2>2. snapshots[saver.version] \in Seq(Pushes)
    BY <2>1 DEF TypeOK, ServerTypeOK
  <2>3. \A pc \in SaverPcs, s \in Seq(Pushes) :
          /\ [saver EXCEPT !.pc = pc, !.weights = s] \in Savers
          /\ [saver EXCEPT !.pc = pc, !.weights = s].version = saver.version
    BY <2>1 DEF Savers
  <2>4. saver' \in Savers /\ Holding'
    <3>1. CASE saver' = FinalCheck(saver.version)
      BY <2>1, <3>1, FinalCheckTyped DEF Versions, Holding
    <3>2. CASE saver' = IdleSaver
      BY <3>2, IdleSaverTyped DEF Holding
    <3>3. CASE \E pc \in SaverPcs : saver' = [saver EXCEPT !.pc = pc,
                                                          !.weights = snapshots[saver.version]]
      <4>1. PICK pc \in SaverPcs : saver' = [saver EXCEPT !.pc = pc,
                                                          !.weights = snapshots[saver.version]]
        BY <3>3
      <4>2. saver' \in Savers /\ saver'.version = saver.version
        BY <2>2, <2>3, <4>1
      <4> QED
        BY <2>1, <4>2 DEF Holding, Versions
    <3>4. CASE LoadCheckpoint
      <4>1. saver' = IF snapshots[saver.version] = None THEN FinalCheck(saver.version)
                     ELSE [saver EXCEPT !.pc = "upload", !.weights = snapshots[saver.version]]
        BY <3>4 DEF LoadCheckpoint, LoadWeights, SaverGoes
      <4> QED
        BY <3>1, <3>3, <4>1 DEF SaverPcs
    <3>5. CASE LoadFinal
      <4>1. saver' = IF snapshots[saver.version] = None THEN IdleSaver
                     ELSE [saver EXCEPT !.pc = "uploadFinal", !.weights = snapshots[saver.version]]
        BY <3>5 DEF LoadFinal, LoadWeights, SaverGoes
      <4> QED
        BY <3>2, <3>3, <4>1 DEF SaverPcs
    <3> QED
      BY <1>2, <3>4, <3>5
  <2> QED
    BY <1>0, <1>2, <2>4 DEF LoadCheckpoint, LoadFinal, registry, RegistryTyped
<1>3. CASE \E o \in Outcomes : UploadCheckpoint(o)
  <2>1. PICK o \in Outcomes : UploadCheckpoint(o)
    BY <1>3
  <2>2. saver.version \in Versions /\ saver.weights \in Seq(Pushes)
    BY <1>0, <2>1, Bounds DEF RegistryTyped, Holding, Saver, UploadCheckpoint, Savers, Versions
  <2>3. saver' \in Savers /\ Holding'
    BY <2>1, <2>2, FinalCheckTyped, IdleSaverTyped
       DEF UploadCheckpoint, SaverGoes, Versions, Holding
  <2>4. uploaded' \in [Versions -> Seq(Pushes)]
    BY <1>0, <2>1, <2>2 DEF UploadCheckpoint, Object, RegistryTyped
  <2>5. lastSaved' \in 0..MaxVersion /\ registered' \in 0..MaxVersion
    BY <1>0, <2>1, <2>2 DEF UploadCheckpoint, MarkSaved, RegistryTyped, Versions
  <2> QED
    BY <1>0, <2>1, <2>3, <2>4, <2>5 DEF UploadCheckpoint, RegistryTyped
<1>4. CASE \E o \in Outcomes : UploadFinalModel(o)
  <2>1. PICK o \in Outcomes : UploadFinalModel(o)
    BY <1>4
  <2>2. saver' \in Savers /\ Holding'
    BY <2>1, IdleSaverTyped DEF UploadFinalModel, SaverGoes, Holding
  <2>3. finalModel' \in Seq(Pushes)
    BY <1>0, <2>1 DEF UploadFinalModel, Object, RegistryTyped, Savers
  <2> QED
    BY <1>0, <2>1, <2>2, <2>3 DEF UploadFinalModel, RegistryTyped
<1> QED
  BY <1>1, <1>2, <1>3, <1>4 DEF Saving

LEMMA SaverTyped ==
  ASSUME TypeOK, Holding, [Next]_vars
  PROVE  RegistryTyped' /\ Holding'
<1>0. RegistryTyped
  BY DEF TypeOK, RegistryTyped, Savers
<1>1. CASE UNCHANGED <<saver, registry>>
  BY <1>0, <1>1 DEF registry, RegistryTyped, Holding
<1>2. CASE saver' = IdleSaver /\ UNCHANGED registry
  BY <1>0, <1>2, IdleSaverTyped DEF registry, RegistryTyped, Holding
<1>3. ASSUME NEW w \in Workers, Trainer(w) \/ Fault(w)
      PROVE  UNCHANGED registry /\ (UNCHANGED saver \/ saver' = IdleSaver)
  BY <1>3 DEF Trainer, Fault, GetVersion, FetchWeights, Sync, NewAssignment, Push, RequestLost,
              ReplyLost, RedisError, CrashInPush, Restart
<1>4. Crash => UNCHANGED registry /\ saver' = IdleSaver
  BY DEF Crash, Restart
<1>5. UNCHANGED vars => UNCHANGED <<saver, registry>>
  BY DEF vars
<1> QED
  BY <1>1, <1>2, <1>3, <1>4, <1>5, SavingTyped DEF Next

LEMMA RestartsTyped ==
  ASSUME TypeOK, [Next]_vars
  PROVE  restarts' \in 0..MaxRestarts
<1>1. UNCHANGED restarts \/ Restart
  BY DEF Next, Trainer, Fault, GetVersion, FetchWeights, Sync, NewAssignment, Push, RequestLost,
         ReplyLost, RedisError, CrashInPush, Crash, Saving, Poll, LoadCheckpoint, LoadFinal,
         UploadCheckpoint, UploadFinalModel, vars
<1> QED
  BY <1>1, Bounds DEF Restart, TypeOK

PlaneTypes == TypeInv /\ Holding

LEMMA InitTyped == Init => PlaneTypes
<1> SUFFICES ASSUME Init PROVE PlaneTypes
  OBVIOUS
<1> USE Bounds, EmptyWeights DEF Init
<1>1. ServerTypeOK
  BY DEF ServerInit, ServerTypeOK, None
<1>2. NewTrainer \in Trainers
  BY DEF NewTrainer, Trainers, TrainerPcs
<1>3. trainer \in [Workers -> Trainers]
  BY <1>2
<1>4. saver \in Savers /\ Holding
  BY IdleSaverTyped DEF Holding
<1>7. sent \in [Workers -> 0..MaxPushes] /\ acked \subseteq Pushes /\ restarts \in 0..MaxRestarts
  OBVIOUS
<1>8. /\ lastSaved \in 0..MaxVersion /\ finalSaved \in BOOLEAN /\ registered \in 0..MaxVersion
      /\ uploaded \in [Versions -> Seq(Pushes)] /\ finalModel \in Seq(Pushes)
  <2>1. uploaded \in [Versions -> Seq(Pushes)]
    BY ONLY Init, EmptyWeights DEF Init
  <2>2. finalSaved \in BOOLEAN
    BY ONLY Init, Zenon DEF Init
  <2>3. lastSaved \in 0..MaxVersion /\ registered \in 0..MaxVersion
    BY ONLY Init, Bounds DEF Init
  <2>4. finalModel \in Seq(Pushes)
    BY ONLY Init, EmptyWeights DEF Init
  <2> QED
    BY ONLY <2>1, <2>2, <2>3, <2>4
<1>5. TypeOK
  BY ONLY <1>1, <1>3, <1>4, <1>7, <1>8 DEF TypeOK, Trainers, Savers
<1>6. Repeating
  BY DEF Repeating, NewTrainer
<1> QED
  BY <1>4, <1>5, <1>6 DEF PlaneTypes, TypeInv

LEMMA TypesKept == PlaneTypes /\ [Next]_vars => PlaneTypes'
<1> SUFFICES ASSUME PlaneTypes, [Next]_vars PROVE PlaneTypes'
  OBVIOUS
<1> USE DEF PlaneTypes, TypeInv
<1>1. ServerTypeOK' /\ acked' \subseteq Pushes
  BY ServerTyped
<1>2. trainer' \in [Workers -> Trainers] /\ sent' \in [Workers -> 0..MaxPushes] /\ Repeating'
  BY ClientsTyped
<1>3. RegistryTyped' /\ Holding'
  BY SaverTyped
<1>4. restarts' \in 0..MaxRestarts
  BY RestartsTyped
<1> QED
  BY <1>1, <1>2, <1>3, <1>4 DEF TypeOK, RegistryTyped, Trainers, Savers

\* In every reachable state of the training plane each variable holds what its
\* declaration says: versions within the bound, weights and buffer made of pushes.
THEOREM PlaneTypeCorrect == Spec => []TypeOK
<1>1. PlaneTypes => TypeOK
  BY DEF PlaneTypes, TypeInv
<1> QED
  BY <1>1, InitTyped, TypesKept, PTL DEF Spec

(***************************************************************************)
(* One line of versions.  The four server invariants hold together: the    *)
(* version a push is given is the length of the weights it is added to.    *)
(***************************************************************************)
LEMMA PrefixPoints ==
  ASSUME NEW S, NEW s \in Seq(S), NEW t \in Seq(S)
  PROVE  IsPrefix(s, t) <=> Len(s) <= Len(t) /\ \A i \in 1..Len(s) : s[i] = t[i]
<1>1. SubSeq(s, 1, Len(s)) = s
  BY SubSeqFull
<1>2. ASSUME Len(s) <= Len(t)
      PROVE  (SubSeq(t, 1, Len(s)) = s) <=> \A i \in 1..Len(s) : s[i] = t[i]
  <2> DEFINE u == SubSeq(t, 1, Len(s))
  <2>1. /\ u \in Seq(S) /\ Len(u) = Len(s)
        /\ \A i \in 1..Len(s) : u[i] = t[i]
    BY <1>2
  <2> HIDE DEF u
  <2>2. (\A i \in 1..Len(s) : s[i] = t[i]) => u = s
    BY <2>1
  <2>3. u = s => \A i \in 1..Len(s) : s[i] = t[i]
    BY <2>1
  <2> QED
    BY <2>2, <2>3 DEF u
<1> QED
  BY <1>1, <1>2 DEF IsPrefix

LEMMA PrefixOfAppend ==
  ASSUME NEW S, NEW s \in Seq(S), NEW t \in Seq(S), NEW e \in S, IsPrefix(s, t)
  PROVE  IsPrefix(s, Append(t, e))
<1>1. Append(t, e) \in Seq(S) /\ Len(Append(t, e)) = Len(t) + 1
      /\ \A i \in 1..Len(t) : Append(t, e)[i] = t[i]
  BY AppendProperties
<1>2. Len(s) <= Len(t) /\ \A i \in 1..Len(s) : s[i] = t[i]
  BY PrefixPoints
<1>3. Len(s) \in Nat /\ Len(t) \in Nat
  OBVIOUS
<1> HIDE DEF IsPrefix
<1>4. Len(s) <= Len(t) + 1 /\ \A i \in 1..Len(s) : s[i] = Append(t, e)[i]
  BY <1>1, <1>2, <1>3
<1> QED
  BY <1>1, <1>4, PrefixPoints

LEMMA PrefixOfSelf ==
  ASSUME NEW S, NEW s \in Seq(S)
  PROVE  IsPrefix(s, s) /\ IsPrefix(<<>>, s)
<1>1. <<>> \in Seq(S) /\ Len(<<>>) = 0 /\ Len(s) \in Nat
  OBVIOUS
<1>2. IsPrefix(s, s)
  BY <1>1, PrefixPoints
<1>3. Len(<<>>) <= Len(s) /\ \A i \in 1..Len(<<>>) : <<>>[i] = s[i]
  BY <1>1
<1>4. IsPrefix(<<>>, s)
  BY <1>1, <1>3, PrefixPoints
<1> QED
  BY <1>2, <1>4

\* The weights have as many pushes as their version says.
Counts == Len(Latest) = current

VersionInv == CurrentIsStored /\ LinearHistory /\ Counts /\ AckedIsKept

\* Either a push leaves the current version and its weights alone, or it makes the
\* next version of it, with the push added to its weights.
LEMMA AppliedEffect ==
  ASSUME ServerTypeOK, CurrentIsStored, NEW p, NEW k, Applied(p, k)
  PROVE  /\ NewVersion(p) = current + 1
         /\ k < 2 => current' = current /\ Latest' = Latest
         /\ k >= 2 => current' = current + 1 /\ Latest' = Append(Latest, p)
         /\ \A v \in 1..current : snapshots'[v] \in {snapshots[v], None}
<1> USE DEF Applied, ServerTypeOK
<1>1. current \in Nat /\ current + 1 \in Versions /\ (current > 0 => current \in Versions)
  BY Bounds DEF Versions
<1>2. Seeding(p) => current = 0
  BY <1>1 DEF Seeding, CurrentIsStored
<1>3. NewVersion(p) = current + 1
  BY <1>1, <1>2 DEF NewVersion, BaseVersion
<1>4. NewWeights(p) = Append(Latest, p)
  <2>1. Seeding(p) => Append(Latest, p) = <<p>>
    BY DEF Seeding, None
  <2> QED
    BY <2>1 DEF NewWeights, BaseVersion, Latest
<1>5. current' = IF k >= 2 THEN current + 1 ELSE current
  BY <1>3 DEF PushGradients, Persist
<1>6. \A u \in Versions : snapshots'[u] = IF k >= 1 /\ u = current + 1 THEN Append(Latest, p)
                                          ELSE IF k >= 3 /\ u + History = current + 1 THEN None
                                          ELSE snapshots[u]
  BY <1>3, <1>4 DEF PushGradients, Persist
<1>7. \A v \in 1..current : v \in Versions /\ v # current + 1
  BY <1>1, Bounds DEF Versions
<1>8. k \in Int
  OBVIOUS
<1>9. CASE k < 2
  <2>1. current' = current
    BY <1>5, <1>8, <1>9
  <2>2. \A u \in Versions : u # current + 1 => snapshots'[u] = snapshots[u]
    BY <1>6, <1>8, <1>9
  <2>3. current > 0 => snapshots'[current] = snapshots[current]
    BY ONLY <1>1, <2>2
  <2>4. Latest' = Latest
    BY ONLY <1>1, <2>1, <2>3 DEF Latest, Stored
  <2>5. \A v \in 1..current : snapshots'[v] \in {snapshots[v], None}
    BY ONLY <1>7, <2>2
  <2> QED
    BY ONLY <1>3, <1>8, <1>9, <2>1, <2>4, <2>5
<1>10. CASE k >= 2
  <2>1. current' = current + 1
    BY <1>5, <1>8, <1>10
  <2>2. snapshots'[current + 1] = Append(Latest, p)
    <3>1. k >= 1
      BY ONLY <1>8, <1>10
    <3>2. current + 1 \in Versions
      BY <1>1
    <3> DEFINE v == current + 1
    <3> HIDE DEF v
    <3>3. \A u \in Versions : u = v => snapshots'[u] = Append(Latest, p)
      BY ONLY <1>6, <3>1 DEF v
    <3> QED
      BY ONLY <3>2, <3>3 DEF v
  <2>3. Latest' = Append(Latest, p)
    BY ONLY <1>1, <2>1, <2>2 DEF Latest, Stored
  <2>4. \A v \in 1..current : snapshots'[v] \in {snapshots[v], None}
    BY ONLY <1>6, <1>7
  <2> QED
    BY ONLY <1>3, <1>8, <1>10, <2>1, <2>3, <2>4
<1> QED
  BY <1>8, <1>9, <1>10

\* Appending a push keeps the pushes there are, and adds the new one.
LEMMA RangeOfAppend ==
  ASSUME NEW S, NEW s \in Seq(S), NEW e \in S
  PROVE  Range(Append(s, e)) = Range(s) \cup {e}
<1>1. DOMAIN s = 1..Len(s) /\ DOMAIN Append(s, e) = 1..(Len(s) + 1) /\ Len(s) \in Nat
  BY AppendProperties
<1>2. /\ \A i \in 1..Len(s) : Append(s, e)[i] = s[i]
      /\ Append(s, e)[Len(s) + 1] = e
  BY AppendProperties
<1>3. \A x \in Range(Append(s, e)) : x \in Range(s) \cup {e}
  BY <1>1, <1>2 DEF Range
<1>4. \A x \in Range(s) : x \in Range(Append(s, e))
  BY <1>1, <1>2 DEF Range
<1>5. e \in Range(Append(s, e))
  BY <1>1, <1>2 DEF Range
<1> QED
  BY <1>3, <1>4, <1>5

\* A push that makes a new version keeps the four.
LEMMA NextVersionKept ==
  ASSUME TypeOK, VersionInv, NEW p \in Pushes, current' = current + 1, Latest' = Append(Latest, p),
         \A v \in 1..current : snapshots'[v] \in {snapshots[v], None},
         acked' \in {acked, acked \cup {p}}
  PROVE  VersionInv'
<1>1. Latest \in Seq(Pushes) /\ current \in Nat
  BY LatestTyped, Bounds DEF TypeOK, ServerTypeOK
<1>2. Latest' # None /\ Len(Latest') = current + 1 /\ Latest' \in Seq(Pushes)
  BY <1>1, AppendProperties DEF VersionInv, Counts, None
<1>3. CurrentIsStored' /\ Counts'
  BY <1>2 DEF CurrentIsStored, Counts
<1>4. Latest' = snapshots'[current + 1]
  BY <1>1 DEF Latest, Stored
<1>5. ASSUME NEW v \in 1..(current + 1), snapshots'[v] # None
      PROVE  Len(snapshots'[v]) = v /\ IsPrefix(snapshots'[v], Latest')
  <2>1. CASE v = current + 1
    BY <1>2, <1>4, <2>1, PrefixOfSelf
  <2>2. CASE v # current + 1
    <3>1. v \in 1..current /\ snapshots'[v] = snapshots[v]
      BY <1>1, <1>5, <2>2
    <3>2. Len(snapshots[v]) = v /\ IsPrefix(snapshots[v], Latest)
      BY <1>5, <3>1 DEF VersionInv, LinearHistory
    <3>3. snapshots[v] \in Seq(Pushes)
      BY <3>1, Bounds DEF TypeOK, ServerTypeOK, Versions
    <3> QED
      BY <1>1, <3>1, <3>2, <3>3, PrefixOfAppend
  <2> QED
    BY <2>1, <2>2
<1>6. LinearHistory'
  BY <1>5 DEF LinearHistory
<1>7. AckedIsKept'
  BY <1>1, RangeOfAppend DEF VersionInv, AckedIsKept
<1> QED
  BY <1>3, <1>6, <1>7 DEF VersionInv

LEMMA VersionsKept ==
  ASSUME TypeOK, VersionInv, [Next]_vars
  PROVE  VersionInv'
<1>0. ServerTypeOK /\ CurrentIsStored
  BY DEF TypeOK, VersionInv
<1>1. CASE NoPush
  BY <1>1 DEF NoPush, redis, VersionInv, CurrentIsStored, LinearHistory, Counts, AckedIsKept,
              Latest, Stored
<1>2. CASE \E p \in Pushes, k \in 0..4 : OnePush(p, k)
  <2>1. PICK p \in Pushes, k \in 0..4 : OnePush(p, k)
    BY <1>2
  <2>2. /\ k < 2 => current' = current /\ Latest' = Latest
        /\ k >= 2 => current' = current + 1 /\ Latest' = Append(Latest, p)
        /\ \A v \in 1..current : snapshots'[v] \in {snapshots[v], None}
    BY <1>0, <2>1, AppliedEffect DEF OnePush
  <2>3. CASE k < 2
    <3>1. UNCHANGED acked
      BY <2>1, <2>3, WritesOfPush DEF OnePush, Answered
    <3> QED
      BY <2>2, <2>3, <3>1 DEF VersionInv, CurrentIsStored, LinearHistory, Counts, AckedIsKept
  <2>4. CASE k >= 2
    <3>1. acked' \in {acked, acked \cup {p}}
      BY <2>1 DEF OnePush, Answered
    <3> QED
      BY <2>2, <2>4, <3>1, NextVersionKept
  <2> QED
    BY <2>3, <2>4
<1> QED
  BY <1>1, <1>2, ServerStep

LEMMA InitVersions == Init => VersionInv
  BY DEF Init, ServerInit, VersionInv, CurrentIsStored, LinearHistory, Counts, AckedIsKept,
         Latest, Stored, None

PlaneInv == PlaneTypes /\ VersionInv

LEMMA InitPlane == Init => PlaneInv
  BY InitTyped, InitVersions DEF PlaneInv

LEMMA PlaneKept == PlaneInv /\ [Next]_vars => PlaneInv'
  BY TypesKept, VersionsKept DEF PlaneInv, PlaneTypes, TypeInv

\* The version that Redis calls current always has its weights, with any number of
\* workers and errors or crashes between any two writes of a push.
THEOREM WeightsStored == Spec => []CurrentIsStored
<1>1. PlaneInv => CurrentIsStored
  BY DEF PlaneInv, VersionInv
<1> QED
  BY <1>1, InitPlane, PlaneKept, PTL DEF Spec

\* The snapshots that are kept are beginnings of the current weights, as long as
\* their version says: no update was ever applied to anything but the newest weights.
THEOREM OneLineOfVersions == Spec => []LinearHistory
<1>1. PlaneInv => LinearHistory
  BY DEF PlaneInv, VersionInv
<1> QED
  BY <1>1, InitPlane, PlaneKept, PTL DEF Spec

\* A push whose acceptance was told to the worker is never lost from the weights.
THEOREM AckedPushesKept == Spec => []AckedIsKept
<1>1. PlaneInv => AckedIsKept
  BY DEF PlaneInv, VersionInv
<1> QED
  BY <1>1, InitPlane, PlaneKept, PTL DEF Spec

(***************************************************************************)
(* Checkpoints.  What the persistence loop holds between a poll and an     *)
(* upload stays a beginning of the weights, since they only grow.          *)
(***************************************************************************)
Faithful(s, v) == Len(s) = v /\ IsPrefix(s, Latest)

HeldVersion == /\ saver.pc # "idle" => saver.version <= current
               /\ saver.pc \in {"loadFinal", "uploadFinal"} => saver.version >= FinalVersion
HeldWeights == saver.pc \in {"upload", "uploadFinal"} => Faithful(saver.weights, saver.version)
Noted       == lastSaved <= registered /\ (registered > 0 => uploaded[registered] # None)
FinalLong   == /\ finalModel # None => Len(finalModel) >= FinalVersion
               /\ finalSaved => finalModel # None

SaverInv == HeldVersion /\ HeldWeights /\ CheckpointIsFaithful /\ Noted /\ FinalLong

\* The current version never decreases, and its weights only grow.
LEMMA WeightsGrow ==
  ASSUME TypeOK, VersionInv, [Next]_vars
  PROVE  /\ current' >= current
         /\ \A s \in Seq(Pushes) : IsPrefix(s, Latest) => IsPrefix(s, Latest')
<1>0. ServerTypeOK /\ CurrentIsStored /\ Latest \in Seq(Pushes) /\ current \in Int
  BY LatestTyped, Bounds DEF TypeOK, VersionInv, ServerTypeOK
<1>1. CASE NoPush
  BY <1>0, <1>1 DEF NoPush, redis, Latest, Stored
<1>2. CASE \E p \in Pushes, k \in 0..4 : OnePush(p, k)
  <2>1. PICK p \in Pushes, k \in 0..4 : OnePush(p, k)
    BY <1>2
  <2>2. \/ current' = current /\ Latest' = Latest
        \/ current' = current + 1 /\ Latest' = Append(Latest, p)
    <3>1. k \in Int /\ Applied(p, k)
      BY <2>1 DEF OnePush
    <3>2. /\ k < 2 => current' = current /\ Latest' = Latest
          /\ k >= 2 => current' = current + 1 /\ Latest' = Append(Latest, p)
      BY <1>0, <3>1, AppliedEffect
    <3> QED
      BY ONLY <3>1, <3>2
  <2>3. \A s \in Seq(Pushes) : IsPrefix(s, Latest) => IsPrefix(s, Append(Latest, p))
    BY <1>0, PrefixOfAppend
  <2>4. current' >= current
    BY ONLY <1>0, <2>2
  <2>5. \A s \in Seq(Pushes) : IsPrefix(s, Latest) => IsPrefix(s, Latest')
    BY ONLY <2>2, <2>3
  <2> QED
    BY <2>4, <2>5
<1> QED
  BY <1>1, <1>2, ServerStep

\* Whatever leaves the registry alone, and at most makes the loop idle, keeps SaverInv.
LEMMA SaverUntouched ==
  ASSUME PlaneInv, SaverInv, [Next]_vars, UNCHANGED registry, UNCHANGED saver \/ saver' = IdleSaver
  PROVE  SaverInv'
<1> USE DEF PlaneInv, PlaneTypes, TypeInv
<1>1. current' >= current /\ current \in Int /\ current' \in Int
  <2>1. ServerTypeOK /\ ServerTypeOK'
    BY ServerTyped DEF TypeOK
  <2> QED
    BY <2>1, WeightsGrow DEF ServerTypeOK
<1>2. \A s \in Seq(Pushes) : IsPrefix(s, Latest) => IsPrefix(s, Latest')
  BY WeightsGrow
<1>3. HeldVersion'
  BY <1>1, Bounds DEF SaverInv, HeldVersion, IdleSaver, TypeOK
<1>4. HeldWeights'
  BY <1>2 DEF SaverInv, HeldWeights, Faithful, IdleSaver, TypeOK
<1>5. CheckpointIsFaithful'
  BY <1>2 DEF SaverInv, CheckpointIsFaithful, registry, TypeOK
<1>6. Noted' /\ FinalLong'
  BY DEF SaverInv, Noted, FinalLong, registry
<1> QED
  BY <1>3, <1>4, <1>5, <1>6 DEF SaverInv

LEMMA SavingKept ==
  ASSUME PlaneInv, SaverInv, Saving
  PROVE  SaverInv'
<1> USE DEF PlaneInv, PlaneTypes, TypeInv
<1>0. /\ saver \in Savers /\ current \in Int /\ FinalVersion \in Nat \ {0}
      /\ uploaded \in [Versions -> Seq(Pushes)] /\ snapshots \in [Versions -> Seq(Pushes)]
  BY Bounds DEF TypeOK, ServerTypeOK, Savers
<1>1. UNCHANGED <<current, snapshots>> /\ Latest' = Latest
  BY DEF Saving, Poll, LoadCheckpoint, LoadFinal, UploadCheckpoint, UploadFinalModel, redis,
         Latest, Stored
<1>2. ASSUME NEW v \in 1..MaxVersion, v <= current, saver' = FinalCheck(v)
      PROVE  HeldVersion' /\ HeldWeights'
  BY <1>1, <1>2 DEF FinalCheck, FinalDue, IdleSaver, HeldVersion, HeldWeights
<1>3. saver' = IdleSaver => HeldVersion' /\ HeldWeights'
  BY DEF IdleSaver, HeldVersion, HeldWeights
<1>4. ASSUME UNCHANGED registry
      PROVE  CheckpointIsFaithful' /\ Noted' /\ FinalLong'
  BY <1>1, <1>4 DEF SaverInv, CheckpointIsFaithful, Noted, FinalLong, registry
<1>5. CASE Poll
  <2>1. current \in 1..MaxVersion
    BY <1>5, Bounds DEF Poll, TypeOK, ServerTypeOK
  <2>2. CASE saver' = FinalCheck(current)
    BY <1>2, <1>4, <1>5, <2>1, <2>2 DEF Poll, SaverInv
  <2>3. CASE saver' = [pc |-> "load", version |-> current, weights |-> None]
    <3>1. HeldVersion' /\ HeldWeights'
      BY <1>0, <1>1, <2>3 DEF HeldVersion, HeldWeights
    <3> QED
      BY <1>4, <1>5, <3>1 DEF Poll, SaverInv
  <2> QED
    BY <1>5, <2>2, <2>3 DEF Poll, SaverGoes
<1>6. ASSUME saver.pc # "idle"
      PROVE  saver.version \in 1..MaxVersion /\ saver.version <= current /\ saver.version \in Versions
  BY <1>0, <1>6, Bounds DEF Holding, SaverInv, HeldVersion, Savers, Versions
<1>7. ASSUME saver.pc # "idle", snapshots[saver.version] # None
      PROVE  Faithful(snapshots[saver.version], saver.version)
  <2>1. saver.version \in 1..current
    BY <1>0, <1>6, <1>7
  <2> QED
    BY <1>7, <2>1 DEF Faithful, VersionInv, LinearHistory
<1>8. CASE LoadCheckpoint
  <2>1. CASE snapshots[saver.version] = None
    BY <1>2, <1>4, <1>6, <1>8, <2>1 DEF LoadCheckpoint, LoadWeights, Saver, SaverGoes, SaverInv
  <2>2. CASE snapshots[saver.version] # None
    <3>1. saver' = [saver EXCEPT !.pc = "upload", !.weights = snapshots[saver.version]]
      BY <1>8, <2>2 DEF LoadCheckpoint, LoadWeights, SaverGoes
    <3>2. saver.version <= current /\ Faithful(snapshots[saver.version], saver.version)
      BY <1>6, <1>7, <1>8, <2>2 DEF LoadCheckpoint, Saver
    <3>3. saver'.pc = "upload" /\ saver'.version = saver.version
          /\ saver'.weights = snapshots[saver.version]
      BY <1>0, <3>1 DEF Savers
    <3>4. HeldVersion' /\ HeldWeights'
      BY <1>1, <3>2, <3>3 DEF HeldVersion, HeldWeights, Faithful
    <3> QED
      BY <1>4, <1>8, <3>4 DEF LoadCheckpoint, SaverInv
  <2> QED
    BY <2>1, <2>2
<1>9. CASE LoadFinal
  <2>1. CASE snapshots[saver.version] = None
    BY <1>3, <1>4, <1>9, <2>1 DEF LoadFinal, LoadWeights, SaverGoes, SaverInv
  <2>2. CASE snapshots[saver.version] # None
    <3>1. saver' = [saver EXCEPT !.pc = "uploadFinal", !.weights = snapshots[saver.version]]
      BY <1>9, <2>2 DEF LoadFinal, LoadWeights, SaverGoes
    <3>2. saver.version <= current /\ Faithful(snapshots[saver.version], saver.version)
      BY <1>6, <1>7, <1>9, <2>2 DEF LoadFinal, Saver
    <3>3. saver'.pc = "uploadFinal" /\ saver'.version = saver.version
          /\ saver'.weights = snapshots[saver.version]
      BY <1>0, <3>1 DEF Savers
    <3>4. saver.version >= FinalVersion
      BY <1>9 DEF LoadFinal, Saver, SaverInv, HeldVersion
    <3>5. HeldVersion' /\ HeldWeights'
      BY <1>1, <3>2, <3>3, <3>4 DEF HeldVersion, HeldWeights, Faithful
    <3> QED
      BY <1>4, <1>9, <3>5 DEF LoadFinal, SaverInv
  <2> QED
    BY <2>1, <2>2
<1>10. CASE \E o \in Outcomes : UploadCheckpoint(o)
  <2>1. PICK o \in Outcomes : UploadCheckpoint(o)
    BY <1>10
  <2> DEFINE v == saver.version
  <2>2. v \in 1..MaxVersion /\ v <= current /\ v \in Versions /\ v \in Int
    BY <1>6, <2>1 DEF UploadCheckpoint, Saver
  <2>3. Faithful(saver.weights, v)
    BY <2>1 DEF UploadCheckpoint, Saver, SaverInv, HeldWeights
  <2>4. saver.weights # None
    BY <1>0, <2>2, <2>3 DEF Faithful, None, Savers
  <2>5. HeldVersion' /\ HeldWeights'
    BY <1>2, <1>3, <2>1, <2>2 DEF UploadCheckpoint, SaverGoes
  <2>6. \A u \in Versions : uploaded'[u] = IF u = v /\ o # "refused" THEN saver.weights ELSE uploaded[u]
    BY <1>0, <2>1 DEF UploadCheckpoint, Object
  <2>7. CheckpointIsFaithful'
    BY <1>1, <2>1, <2>3, <2>6 DEF SaverInv, CheckpointIsFaithful, Faithful, UploadCheckpoint
  <2>8. Noted'
    <3>1. lastSaved \in Int /\ registered \in 0..MaxVersion
      BY DEF TypeOK
    <3>2. registered > 0 => registered \in Versions
      BY <3>1, Bounds DEF Versions
    <3>3. registered' = IF o \in {"ok", "unanswered"} /\ v > registered THEN v ELSE registered
      BY <2>1 DEF UploadCheckpoint
    <3>4. lastSaved' = IF o = "ok" THEN v ELSE lastSaved
      BY <2>1 DEF UploadCheckpoint, MarkSaved
    <3>5. lastSaved' <= registered'
      BY <2>2, <3>1, <3>3, <3>4 DEF SaverInv, Noted
    <3>6. registered' > 0 => uploaded'[registered'] # None
      BY <2>2, <2>4, <2>6, <3>1, <3>2, <3>3 DEF SaverInv, Noted
    <3> QED
      BY <3>5, <3>6 DEF Noted
  <2>9. FinalLong'
    BY <2>1 DEF UploadCheckpoint, SaverInv, FinalLong
  <2> QED
    BY <2>5, <2>7, <2>8, <2>9 DEF SaverInv
<1>11. CASE \E o \in Outcomes : UploadFinalModel(o)
  <2>1. PICK o \in Outcomes : UploadFinalModel(o)
    BY <1>11
  <2> DEFINE v == saver.version
  <2>2. v \in 1..MaxVersion /\ v \in Int
    BY <1>6, <2>1 DEF UploadFinalModel, Saver
  <2>3. Faithful(saver.weights, v) /\ v >= FinalVersion
    BY <2>1 DEF UploadFinalModel, Saver, SaverInv, HeldWeights, HeldVersion
  <2>4. saver.weights # None
    BY <1>0, <2>2, <2>3 DEF Faithful, None, Savers
  <2>5. HeldVersion' /\ HeldWeights'
    BY <1>3, <2>1 DEF UploadFinalModel, SaverGoes
  <2>6. finalModel' = IF o = "refused" THEN finalModel ELSE saver.weights
    BY <2>1 DEF UploadFinalModel, Object
  <2>7. CheckpointIsFaithful'
    BY <1>1, <2>1, <2>3, <2>6 DEF SaverInv, CheckpointIsFaithful, Faithful, UploadFinalModel
  <2>8. FinalLong'
    <3>1. finalSaved' => finalSaved \/ o = "ok"
      BY <2>1 DEF UploadFinalModel
    <3> QED
      BY <2>3, <2>4, <2>6, <3>1 DEF SaverInv, FinalLong, Faithful
  <2>9. Noted'
    BY <2>1 DEF UploadFinalModel, SaverInv, Noted
  <2> QED
    BY <2>5, <2>7, <2>8, <2>9 DEF SaverInv
<1> QED
  BY <1>5, <1>8, <1>9, <1>10, <1>11 DEF Saving

LEMMA SaverKept == PlaneInv /\ SaverInv /\ [Next]_vars => SaverInv'
<1>1. ASSUME NEW w \in Workers, Trainer(w) \/ Fault(w)
      PROVE  UNCHANGED registry /\ (UNCHANGED saver \/ saver' = IdleSaver)
  BY <1>1 DEF Trainer, Fault, GetVersion, FetchWeights, Sync, NewAssignment, Push, RequestLost,
              ReplyLost, RedisError, CrashInPush, Restart
<1>2. Crash => UNCHANGED registry /\ saver' = IdleSaver
  BY DEF Crash, Restart
<1>3. UNCHANGED vars => UNCHANGED <<saver, registry>>
  BY DEF vars
<1> QED
  BY <1>1, <1>2, <1>3, SaverUntouched, SavingKept DEF Next

LEMMA InitSaver == Init => SaverInv
<1> SUFFICES ASSUME Init PROVE SaverInv
  OBVIOUS
<1>1. Latest = None /\ None \in Seq(Pushes)
  BY EmptyWeights DEF Init, ServerInit, Latest, Stored
<1>2. IsPrefix(None, Latest)
  BY <1>1, PrefixOfSelf
<1>3. saver.pc = "idle"
  BY DEF Init, IdleSaver
<1>4. HeldVersion /\ HeldWeights
  BY <1>3 DEF HeldVersion, HeldWeights
<1>5. CheckpointIsFaithful
  BY <1>2 DEF Init, CheckpointIsFaithful
<1>6. Noted /\ FinalLong
  BY DEF Init, Noted, FinalLong
<1> QED
  BY <1>4, <1>5, <1>6 DEF SaverInv

\* Every checkpoint in the registry is the version of this training its name says,
\* and the final model is one of its versions, through failed uploads, restarts and
\* pushes during the upload.
THEOREM CheckpointsFaithful == Spec => []CheckpointIsFaithful
<1>1. PlaneInv /\ SaverInv => CheckpointIsFaithful
  BY DEF SaverInv
<1> QED
  BY <1>1, InitPlane, InitSaver, PlaneKept, SaverKept, PTL DEF Spec

\* The model a user can download is at least as far trained as what the server has
\* noted as saved.
THEOREM DownloadsKeepUp == Spec => []DownloadKeepsUp
<1>1. PlaneInv /\ SaverInv => DownloadKeepsUp
  <2> SUFFICES ASSUME PlaneInv, SaverInv PROVE DownloadKeepsUp
    OBVIOUS
  <2> USE DEF PlaneInv, PlaneTypes, TypeInv, SaverInv
  <2>1. lastSaved \in Nat /\ registered \in 0..MaxVersion /\ MaxVersion \in Nat
    BY Bounds DEF TypeOK
  <2>2. finalSaved => Len(Download) >= FinalVersion
    BY DEF FinalLong, Download
  <2>3. ASSUME finalModel = None, registered > 0
        PROVE  Len(Download) = registered
    <3>1. registered \in Versions /\ uploaded[registered] # None
      BY <2>1, <2>3 DEF Noted, Versions
    <3> QED
      BY <2>3, <3>1 DEF CheckpointIsFaithful, Download
  <2>4. ASSUME finalModel = None, ~ registered > 0
        PROVE  Len(Download) = 0 /\ registered = 0
    BY <2>1, <2>4 DEF Download, None
  <2> QED
    BY <2>1, <2>2, <2>3, <2>4 DEF Noted, DownloadKeepsUp
<1> QED
  BY <1>1, InitPlane, InitSaver, PlaneKept, SaverKept, PTL DEF Spec

(***************************************************************************)
(* Claimed versions.  A worker is never told of a version that the server  *)
(* has not reached, so when weights are served it takes them.              *)
(***************************************************************************)
Honest(t, v) == /\ t.seen <= t.base /\ t.base <= v
                /\ t.pc = "fetch" => t.want <= v

HonestInv == memVersion <= current /\ \A w \in Workers : Honest(trainer[w], current)

LEMMA MemoryKept ==
  ASSUME PlaneInv, HonestInv, [Next]_vars
  PROVE  memVersion' <= current' /\ current' >= current /\ current \in Nat /\ current' \in Nat
<1> USE DEF PlaneInv, PlaneTypes, TypeInv
<1>1. ServerTypeOK /\ ServerTypeOK' /\ CurrentIsStored
  BY ServerTyped DEF TypeOK, VersionInv
<1>2. current' >= current
  BY WeightsGrow
<1>3. CASE memVersion' \in {memVersion, 0, current}
  BY <1>1, <1>2, <1>3 DEF HonestInv, ServerTypeOK
<1>4. ASSUME NEW p \in Pushes, NEW k \in 0..4, OnePush(p, k), k >= 3, memVersion' = NewVersion(p)
      PROVE  memVersion' <= current'
  <2>1. NewVersion(p) = current + 1 /\ (k >= 2 => current' = current + 1)
    BY <1>1, <1>4, AppliedEffect DEF OnePush
  <2> QED
    BY <1>1, <1>4, <2>1 DEF ServerTypeOK
<1> QED
  BY <1>1, <1>2, <1>3, <1>4, MemoryStep DEF ServerTypeOK

LEMMA ThenFields ==
  ASSUME TypeOK, NEW w \in Workers, NEW pc \in TrainerPcs
  PROVE  /\ Then(w, pc) \in Trainers /\ Then(w, pc).pc = pc
         /\ Then(w, pc).want = trainer[w].want
         /\ Then(w, pc).seen = trainer[w].seen
         /\ Then(w, pc).base = trainer[w].base
<1>1. trainer[w] \in Trainers /\ Then(w, pc) \in Trainers
  BY TrainerMoves
<1> QED
  BY <1>1 DEF Then, Trainers

\* A trainer that takes the weights it is served, if any, claims their version.
LEMMA TakesWeights ==
  ASSUME NEW t \in Trainers, NEW v \in Nat, NEW b \in Nat, NEW c \in Nat,
         v <= b, b <= c, t.pc # "fetch"
  PROVE  Honest([t EXCEPT !.seen = v, !.base = b], c)
<1> DEFINE next == [t EXCEPT !.seen = v, !.base = b]
<1>1. next.seen = v /\ next.base = b /\ next.pc = t.pc
  BY DEF Trainers
<1> QED
  BY <1>1 DEF Honest

LEMMA PullHonest ==
  ASSUME PlaneInv, HonestInv, NEW w \in Workers, FetchWeights(w) \/ Sync(w),
         current' = current
  PROVE  \E next \in Trainers : Go(w, next) /\ Honest(next, current')
<1> USE DEF PlaneInv, PlaneTypes, TypeInv
<1> DEFINE t(pc) == Then(w, pc)
           served == Latest # None
           v == IF served THEN current ELSE 0
           next(pc) == [t(pc) EXCEPT !.seen = v, !.base = IF served THEN current ELSE t(pc).base]
<1>1. current \in 0..MaxVersion /\ current \in Nat /\ v \in 0..MaxVersion
  BY Bounds DEF TypeOK, ServerTypeOK
<1>2. ASSUME NEW pc \in {"seed", "push"}
      PROVE  next(pc) \in Trainers /\ Honest(next(pc), current)
  <2>1. /\ t(pc) \in Trainers /\ t(pc).pc = pc
        /\ t(pc).seen = trainer[w].seen /\ t(pc).base = trainer[w].base
    BY ThenFields DEF TrainerPcs
  <2>2. Honest(t(pc), current)
    BY <2>1 DEF HonestInv, Honest
  <2> HIDE DEF t
  <2>3. next(pc) \in Trainers
    BY <1>1, <2>1, Bounds DEF Trainers
  <2> DEFINE b == IF served THEN current ELSE t(pc).base
  <2>4. v \in Nat /\ b \in Nat /\ v <= b /\ b <= current
    BY <1>1, <2>1, <2>2, Bounds DEF Honest, Trainers
  <2> HIDE DEF v, b
  <2>5. Honest([t(pc) EXCEPT !.seen = v, !.base = b], current)
    BY <1>1, <2>1, <2>4, TakesWeights
  <2> QED
    BY <2>3, <2>5 DEF b
<1>3. CASE FetchWeights(w)
  <2> DEFINE pc == IF Latest = None /\ trainer[w].want = 0 THEN "seed" ELSE "push"
  <2>1. (served /\ current >= trainer[w].want) <=> served
    BY <1>1, <1>3 DEF FetchWeights, At, HonestInv, Honest
  <2>2. Go(w, next(pc))
    BY <1>3, <2>1 DEF FetchWeights
  <2> HIDE DEF next
  <2> QED
    BY <1>2, <2>2
<1>4. CASE Sync(w)
  <2>1. Go(w, next("push"))
    BY <1>4 DEF Sync
  <2> HIDE DEF next
  <2> QED
    BY <1>2, <2>1
<1> QED
  BY <1>3, <1>4

LEMMA PushHonest ==
  ASSUME PlaneInv, HonestInv, NEW w \in Workers, Push(w),
         current \in Nat, current' \in Nat, current' >= current
  PROVE  \E next \in Trainers : Go(w, next) /\ Honest(next, current')
<1> USE DEF PlaneInv, PlaneTypes, TypeInv
<1> DEFINE p == PushOf(w)
           t(pc) == Then(w, pc)
<1>1. ASSUME NEW pc \in {"push", "sync"}
      PROVE  /\ t(pc) \in Trainers /\ t(pc).pc = pc /\ Honest(t(pc), current')
             /\ t(pc).seen = trainer[w].seen
             /\ t(pc).base = trainer[w].base /\ t(pc).base <= current
  <2>1. /\ t(pc) \in Trainers /\ t(pc).pc = pc
        /\ t(pc).seen = trainer[w].seen /\ t(pc).base = trainer[w].base
    BY ThenFields DEF TrainerPcs
  <2>2. Honest(trainer[w], current)
    BY DEF HonestInv
  <2>3. Honest(t(pc), current') /\ t(pc).base <= current
    <3> HIDE DEF t
    <3> QED
      BY <2>1, <2>2, Bounds DEF Honest, Trainers
  <2> QED
    BY <2>1, <2>3
<1>2. CASE Go(w, Rejected(w))
  BY <1>1, <1>2 DEF Rejected
<1>3. CASE Go(w, Acknowledged(w)) /\ At(w, "push")
  BY <1>1, <1>3 DEF Acknowledged
<1>4. CASE Go(w, Acknowledged(w)) /\ ~ At(w, "push") /\ ~ Seeding(p)
  <2>1. t("push") = [t("push") EXCEPT !.base = t("push").base]
    BY <1>1 DEF Trainers
  <2>2. Acknowledged(w) = t("push")
    BY <1>4, <2>1 DEF Acknowledged
  <2> QED
    BY <1>1, <1>4, <2>2
<1>5. CASE Go(w, Acknowledged(w)) /\ ~ At(w, "push") /\ Seeding(p) /\ Accepted(p)
           /\ PushGradients(p, AllWrites(p))
  <2>1. Applied(p, AllWrites(p)) /\ AllWrites(p) >= 2
    BY <1>5, PushIsPush, WritesOfPush DEF Push, MayPush, Applied
  <2>2. current' = current + 1 /\ current = 0
    BY <1>5, <2>1, AppliedEffect DEF TypeOK, VersionInv, Seeding, CurrentIsStored
  <2> DEFINE next == [t("push") EXCEPT !.base = 1]
  <2>3. Go(w, next)
    BY <1>5 DEF Acknowledged
  <2>4. next \in Trainers /\ next.seen = trainer[w].seen /\ next.base = 1 /\ next.pc = "push"
    <3> HIDE DEF t
    <3> QED
      BY <1>1, Bounds DEF Trainers
  <2>5. trainer[w].seen <= 0
    BY <2>2, Bounds DEF HonestInv, Honest, TypeOK
  <2> HIDE DEF next
  <2>6. Honest(next, current')
    BY <2>2, <2>4, <2>5, Bounds DEF Honest, TypeOK
  <2> QED
    BY <2>3, <2>4, <2>6
<1>6. \/ Accepted(p) /\ PushGradients(p, AllWrites(p)) /\ Go(w, Acknowledged(w))
      \/ Go(w, Rejected(w))
  BY DEF Push
<1> QED
  BY <1>2, <1>3, <1>4, <1>5, <1>6

LEMMA CallFailsHonest ==
  ASSUME PlaneInv, HonestInv, NEW w \in Workers, CallFails(w),
         current \in Nat, current' \in Nat, current' >= current
  PROVE  \E next \in Trainers : Go(w, next) /\ Honest(next, current')
<1> USE DEF PlaneInv, PlaneTypes, TypeInv
<1>1. trainer[w] \in Trainers /\ Honest(trainer[w], current)
  BY TrainerMoves DEF HonestInv
<1>2. CASE Go(w, Then(w, "push"))
  <2>1. /\ Then(w, "push") \in Trainers /\ Then(w, "push").pc = "push"
        /\ Then(w, "push").seen = trainer[w].seen /\ Then(w, "push").base = trainer[w].base
    BY ThenFields DEF TrainerPcs
  <2> QED
    BY <1>1, <1>2, <2>1, Bounds DEF Honest, Trainers
<1>3. CASE trainer[w].attempt < MaxAttempts /\ Go(w, [trainer[w] EXCEPT !.attempt = @ + 1])
  <2> DEFINE next == [trainer[w] EXCEPT !.attempt = @ + 1]
  <2>1. /\ next \in Trainers /\ next.pc = trainer[w].pc /\ next.want = trainer[w].want
        /\ next.seen = trainer[w].seen /\ next.base = trainer[w].base
    BY <1>1, <1>3, Bounds DEF Trainers
  <2> HIDE DEF next
  <2>2. Honest(next, current')
    BY <1>1, <2>1, Bounds DEF Honest, Trainers
  <2> QED
    BY <1>3, <2>1, <2>2 DEF next
<1> QED
  BY <1>2, <1>3 DEF CallFails

LEMMA WorkerHonest ==
  ASSUME PlaneInv, HonestInv, NEW w \in Workers, Trainer(w) \/ Fault(w)
  PROVE  \E next \in Trainers : Go(w, next) /\ Honest(next, current')
<1> USE DEF PlaneInv, PlaneTypes, TypeInv
<1>1. current' >= current /\ current \in Nat /\ current' \in Nat
  <2>1. [Next]_vars
    BY DEF Next
  <2> QED
    BY <2>1, MemoryKept
<1>2. CASE GetVersion(w)
  <2> DEFINE t == Then(w, "fetch")
             next == [t EXCEPT !.want = memVersion]
  <2>1. Go(w, next)
    BY <1>2 DEF GetVersion, GetModelVersion
  <2>2. t \in Trainers /\ t.seen = trainer[w].seen /\ t.base = trainer[w].base
    BY ThenFields DEF TrainerPcs
  <2>3. Honest(trainer[w], current) /\ memVersion <= current /\ memVersion \in 0..MaxVersion
    BY DEF HonestInv, TypeOK, ServerTypeOK
  <2> HIDE DEF t
  <2>4. next \in Trainers /\ next.want = memVersion /\ next.seen = t.seen /\ next.base = t.base
    BY <2>2, <2>3 DEF Trainers
  <2> HIDE DEF next
  <2>5. Honest(next, current')
    BY <1>1, <2>2, <2>3, <2>4, Bounds DEF Honest, Trainers
  <2> QED
    BY <2>1, <2>4, <2>5
<1>3. CASE FetchWeights(w) \/ Sync(w)
  <2>1. current' = current
    BY <1>3 DEF FetchWeights, Sync, redis
  <2> QED
    BY <1>3, <2>1, PullHonest
<1>4. CASE NewAssignment(w)
  <2>1. NewTrainer \in Trainers /\ Honest(NewTrainer, current')
    BY <1>1, TrainerMoves DEF NewTrainer, Honest
  <2> QED
    BY <1>4, <2>1 DEF NewAssignment
<1>5. CASE Push(w)
  BY <1>1, <1>5, PushHonest
<1>6. CASE CallFails(w)
  BY <1>1, <1>6, CallFailsHonest
<1> QED
  BY <1>2, <1>3, <1>4, <1>5, <1>6
     DEF Trainer, Fault, RequestLost, ReplyLost, RedisError, CrashInPush

LEMMA HonestKept == PlaneInv /\ HonestInv /\ [Next]_vars => HonestInv'
<1> SUFFICES ASSUME PlaneInv, HonestInv, [Next]_vars PROVE HonestInv'
  OBVIOUS
<1> USE DEF PlaneInv, PlaneTypes, TypeInv
<1>1. memVersion' <= current' /\ current' >= current /\ current \in Nat /\ current' \in Nat
  BY MemoryKept
<1>2. trainer \in [Workers -> Trainers]
  BY DEF TypeOK, Trainers
<1>3. \A x \in Workers : Honest(trainer[x], current')
  BY <1>1, <1>2, Bounds DEF HonestInv, Honest, Trainers
<1>4. CASE \E w \in Workers : Trainer(w) \/ Fault(w)
  <2>1. PICK w \in Workers : Trainer(w) \/ Fault(w)
    BY <1>4
  <2>2. PICK next \in Trainers : Go(w, next) /\ Honest(next, current')
    BY <2>1, WorkerHonest
  <2>3. \A x \in Workers : trainer'[x] = IF x = w THEN next ELSE trainer[x]
    BY <1>2, <2>2 DEF Go
  <2> QED
    BY <1>1, <1>3, <2>2, <2>3 DEF HonestInv
<1>5. CASE UNCHANGED trainer
  BY <1>1, <1>3, <1>5 DEF HonestInv
<1>6. Crash \/ Saving \/ UNCHANGED vars => UNCHANGED trainer
  BY DEF Crash, Saving, Poll, LoadCheckpoint, LoadFinal, UploadCheckpoint, UploadFinalModel,
         clients, vars
<1> QED
  BY <1>4, <1>5, <1>6 DEF Next

\* No gradient is pushed under a version newer than the weights it was computed
\* against, with any number of workers, lost replies, retries and restarts.
THEOREM PushesNeverUnderDamped == Spec => []NeverUnderDamped
<1>1. Init => HonestInv
  BY DEF Init, ServerInit, HonestInv, Honest, NewTrainer
<1>2. HonestInv => NeverUnderDamped
  BY DEF HonestInv, Honest, NeverUnderDamped
<1> QED
  BY <1>1, <1>2, InitPlane, PlaneKept, HonestKept, PTL DEF Spec

(***************************************************************************)
(* The momentum buffer.  A push is counted in the weights before it is     *)
(* counted in the buffer, whatever cuts it.                                *)
(***************************************************************************)
LEMMA TimesAppend ==
  ASSUME NEW S, NEW s \in Seq(S), NEW q \in S, NEW p
  PROVE  /\ Times(p, s) \in Nat
         /\ Times(p, Append(s, q)) = Times(p, s) + (IF p = q THEN 1 ELSE 0)
<1> DEFINE at == {i \in DOMAIN s : s[i] = p}
           longer == Append(s, q)
<1>1. Len(s) \in Nat /\ DOMAIN s = 1..Len(s)
  OBVIOUS
<1>2. IsFiniteSet(at) /\ Cardinality(at) \in Nat
  <2>1. IsFiniteSet(1..Len(s))
    BY <1>1, FS_Interval
  <2>2. at \subseteq 1..Len(s)
    BY <1>1
  <2> QED
    BY <2>1, <2>2, FS_Subset, FS_CardinalityType
<1>3. DOMAIN longer = 1..(Len(s) + 1) /\ longer[Len(s) + 1] = q /\ \A i \in 1..Len(s) : longer[i] = s[i]
  OBVIOUS
<1>4. {i \in DOMAIN longer : longer[i] = p} = IF p = q THEN at \cup {Len(s) + 1} ELSE at
  BY <1>1, <1>3
<1>5. Len(s) + 1 \notin at
  BY <1>1
<1> HIDE DEF at, longer
<1>6. Cardinality(at \cup {Len(s) + 1}) = Cardinality(at) + 1
  BY <1>2, <1>5, FS_AddElement
<1>7. Times(p, s) = Cardinality(at)
  BY DEF Times, at
<1>8. Times(p, longer) = IF p = q THEN Cardinality(at \cup {Len(s) + 1}) ELSE Cardinality(at)
  BY <1>4 DEF Times
<1>9. Times(p, longer) = Cardinality(at) + (IF p = q THEN 1 ELSE 0)
  BY <1>2, <1>6, <1>8
<1> QED
  BY <1>2, <1>7, <1>9 DEF longer

\* Stated of every push, in the buffer or not.
NeverAhead == \A p \in Pushes : Times(p, momentum) <= Times(p, Latest)

LEMMA NeverAheadKept ==
  ASSUME PlaneInv, NeverAhead, [Next]_vars
  PROVE  NeverAhead'
<1> USE DEF PlaneInv, PlaneTypes, TypeInv
<1>0. TypeOK /\ ServerTypeOK /\ CurrentIsStored /\ Latest \in Seq(Pushes) /\ momentum \in Seq(Pushes)
  BY LatestTyped DEF TypeOK, ServerTypeOK, VersionInv
<1>1. CASE NoPush
  BY <1>1 DEF NoPush, redis, NeverAhead, Latest, Stored
<1>2. ASSUME NEW q \in Pushes, NEW k \in 0..4, OnePush(q, k) PROVE NeverAhead'
  <2>1. /\ k < 2 => Latest' = Latest
        /\ k >= 2 => Latest' = Append(Latest, q)
    BY <1>0, <1>2, AppliedEffect DEF OnePush
  <2>2. momentum' = IF k >= 4 THEN Append(momentum, q) ELSE momentum
    BY <1>2 DEF OnePush, Applied, PushGradients, FoldMomentum
  <2>3. ASSUME NEW p \in Pushes PROVE Times(p, momentum') <= Times(p, Latest')
    <3> DEFINE one == IF p = q THEN 1 ELSE 0
    <3>1. Times(p, momentum) <= Times(p, Latest)
      BY DEF NeverAhead
    <3>2. Times(p, momentum) \in Nat /\ Times(p, Append(momentum, q)) = Times(p, momentum) + one
      BY <1>0, TimesAppend
    <3>3. Times(p, Latest) \in Nat /\ Times(p, Append(Latest, q)) = Times(p, Latest) + one
      BY <1>0, TimesAppend
    <3>4. one \in {0, 1}
      OBVIOUS
    <3> HIDE DEF one
    <3>5. CASE k < 2
      BY <2>1, <2>2, <3>1, <3>5
    <3>6. CASE k >= 2
      <4>1. Times(p, Latest') = Times(p, Latest) + one
        BY <2>1, <3>3, <3>6
      <4>2. Times(p, momentum') \in {Times(p, momentum), Times(p, momentum) + one}
        BY <2>2, <3>2
      <4> HIDE DEF one
      <4> QED
        BY <3>1, <3>2, <3>3, <3>4, <4>1, <4>2
    <3> QED
      BY <3>5, <3>6
  <2> QED
    BY <2>3 DEF NeverAhead
<1> QED
  BY <1>0, <1>1, <1>2, ServerStep

\* No push weighs more in the momentum buffer than in the weights, with errors and
\* crashes between any two writes of a push and pushes that are sent again.
THEOREM MomentumKeepsBehind == Spec => []MomentumNeverAhead
<1>1. Init => NeverAhead
  <2>1. Init => momentum = <<>> /\ Latest = <<>>
    BY DEF Init, ServerInit, Latest, Stored, None
  <2>2. \A p : Times(p, <<>>) = 0
    BY FS_EmptySet DEF Times
  <2> QED
    BY <2>1, <2>2 DEF NeverAhead
<1>2. PlaneInv /\ NeverAhead => MomentumNeverAhead
  <2> SUFFICES ASSUME PlaneInv, NeverAhead, NEW p \in Range(momentum)
      PROVE Times(p, momentum) <= Times(p, Latest)
    BY DEF MomentumNeverAhead
  <2>1. momentum \in Seq(Pushes)
    BY DEF PlaneInv, PlaneTypes, TypeInv, TypeOK, ServerTypeOK
  <2>2. p \in Pushes
    BY <2>1 DEF Range
  <2> QED
    BY <2>2 DEF NeverAhead
<1> QED
  BY <1>1, <1>2, InitPlane, PlaneKept, NeverAheadKept, PTL DEF Spec
=============================================================================
