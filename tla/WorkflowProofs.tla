---------------------------- MODULE WorkflowProofs ----------------------------
(***************************************************************************)
(* Proofs about Workflow, for any addresses, runners, branches and         *)
(* invocations.  The inductive invariant says that one job is active, and  *)
(* how what it holds relates to the data branch at each of its stages.     *)
(***************************************************************************)
EXTENDS Workflow, FiniteSetTheorems, TLAPS

OneJob == \A one, other \in Jobs : IsActive(one) /\ IsActive(other) => one = other

\* Nothing was stored yet, and the checkout is the head of the data branch if there is one.
Untouched(job) ==
    /\ jobs[job].out = jobs[job].checkout.tree
    /\ IF IsAt(job, {"checkout", "checkout data"})
       THEN jobs[job].checkout = NoCheckout
       ELSE jobs[job].checkout = data

\* The aggregator ran: records were changed on top of the branch's head.
Ran(job) ==
    /\ jobs[job].checkout = data
    /\ StartUp(jobs[job].invocation) = Continues
    /\ \A address \in Addresses :
          data.tree.records[address] <= jobs[job].out.records[address]

\* A step before it failed, or the aggregator refused to start.
NothingStored(job) ==
    /\ jobs[job].out = jobs[job].checkout.tree
    /\ jobs[job].checkout = data \/ jobs[job].checkout = NoCheckout

\* The data was pushed, and nobody has pushed any since.
Pushed(job) ==
    /\ jobs[job].out = data.tree
    /\ data.version = jobs[job].checkout.version + 1
    /\ StartUp(jobs[job].invocation) = Continues
    /\ IsAt(job, {"push stats"}) => jobs[job].servers = Cardinality(RecordFiles(data.tree))

JobInv(job) ==
    /\ IsAt(job, {"checkout", "checkout data", "build", "start"}) => Untouched(job)
    /\ IsAt(job, {"run"}) => Ran(job)
    /\ IsAt(job, {"publish"}) => Ran(job) \/ NothingStored(job)
    /\ IsAt(job, {"stats", "push stats"}) => Pushed(job)

IInv ==
    /\ TypeOK
    /\ OneJob
    /\ \A job \in Jobs : JobInv(job)
    /\ StatsCountServers
    /\ main.counted <= data.version
    /\ StoredIsPublished

-----------------------------------------------------------------------------
(* Facts about states *)

LEMMA EmptyTreeType == EmptyTree \in Tree /\ NoCheckout \in Checkout
  BY DEF EmptyTree, Tree, NoCheckout, Checkout

LEMMA JobType ==
  ASSUME TypeOK, NEW job \in Jobs, IsActive(job)
  PROVE  jobs[job] \in Job
  BY DEF TypeOK, IsActive

\* A job at any stage is active.
LEMMA AtAnyStage ==
  ASSUME NEW job, NEW stages \in SUBSET Stages, IsAt(job, stages)
  PROVE  IsActive(job)
<1> SUFFICES ASSUME jobs[job] = Idle
             PROVE  FALSE
  BY DEF IsActive
<1>1. jobs[job].stage = "idle"
  BY DEF Idle
<1> QED
  BY <1>1 DEF IsAt, Stages

\* A runner without a job satisfies every condition on jobs.
LEMMA IdleInv ==
  ASSUME NEW job \in Jobs, jobs[job] = Idle
  PROVE  JobInv(job)
  BY DEF JobInv, IsAt, Idle

\* The number is a natural one since the addresses are finite.
LEMMA CountType ==
  ASSUME NEW tree \in Tree
  PROVE  Cardinality(RecordFiles(tree)) \in Nat
  BY WorkflowAssumption, FS_CardinalityType, FS_Subset DEF RecordFiles

-----------------------------------------------------------------------------
(* Facts about steps *)

\* When one job moves, the other runners have none.
LEMMA OthersStayIdle ==
  ASSUME TypeOK, OneJob, NEW job \in Jobs, IsActive(job),
         \A other \in Jobs \ {job} : jobs'[other] = jobs[other], JobInv(job)'
  PROVE  OneJob' /\ \A other \in Jobs : JobInv(other)'
<1>1. \A other \in Jobs \ {job} : jobs'[other] = Idle
  BY DEF TypeOK, OneJob, IsActive
<1>2. OneJob'
  BY <1>1 DEF OneJob, IsActive
<1>3. ASSUME NEW other \in Jobs \ {job}
      PROVE  JobInv(other)'
  <2>1. jobs'[other].stage = "idle"
    BY <1>1 DEF Idle
  <2> QED
    BY <2>1 DEF JobInv, IsAt
<1> QED
  BY <1>2, <1>3

\* A job without anything to tell apart from the branch keeps the debts paid.
LEMMA CompletesPaid ==
  ASSUME TypeOK, StoredIsPublished, NEW job \in Jobs, IsActive(job), Completes(job),
         data'.tree.records \in [Addresses -> Nat],
         \A address \in Addresses :
            /\ data.tree.records[address] <= data'.tree.records[address]
            /\ jobs[job].out.records[address] <= data'.tree.records[address]
  PROVE  /\ StoredIsPublished'
         /\ owed' \in [Addresses -> Nat]
         /\ jobs' \in [Jobs -> Job \cup {Idle}]
         /\ JobInv(job)'
         /\ \A other \in Jobs \ {job} : jobs'[other] = jobs[other]
<1>1. jobs[job].out.records \in [Addresses -> Nat] /\ data.tree.records \in [Addresses -> Nat]
  BY JobType DEF TypeOK, Job, Tree, Checkout
<1>2. owed' \in [Addresses -> Nat]
  BY <1>1 DEF Completes, TypeOK
<1>3. StoredIsPublished'
  BY <1>1 DEF Completes, TypeOK, StoredIsPublished
<1>4. jobs' \in [Jobs -> Job \cup {Idle}] /\ jobs'[job] = Idle
      /\ \A other \in Jobs \ {job} : jobs'[other] = jobs[other]
  BY DEF Completes, TypeOK
<1>5. JobInv(job)'
  BY <1>4 DEF JobInv, IsAt, Idle
<1> QED
  BY <1>2, <1>3, <1>4, <1>5

\* A job that gives up leaves everything else as it is.
LEMMA GivesUpSafely ==
  ASSUME IInv, NEW job \in Jobs, IsActive(job), GivesUp(job), UNCHANGED <<waiting, data, main>>
  PROVE  IInv'
<1>1. /\ jobs' \in [Jobs -> Job \cup {Idle}] /\ jobs'[job] = Idle
      /\ \A other \in Jobs \ {job} : jobs'[other] = jobs[other]
  BY DEF GivesUp, IInv, TypeOK
<1>2. TypeOK'
  BY <1>1 DEF GivesUp, IInv, TypeOK
<1>3. JobInv(job)'
  BY <1>1 DEF JobInv, IsAt, Idle
<1>4. OneJob' /\ \A other \in Jobs : JobInv(other)'
  BY <1>1, <1>3, OthersStayIdle DEF IInv
<1> QED
  BY <1>2, <1>4 DEF IInv, GivesUp, StatsCountServers, StoredIsPublished, RecordFiles

\* A job that completes without moving a branch, with nothing it has not pushed.
LEMMA CompletesSafely ==
  ASSUME IInv, NEW job \in Jobs, IsActive(job), Completes(job), UNCHANGED <<waiting, data, main>>,
         \A address \in Addresses :
            jobs[job].out.records[address] <= data.tree.records[address]
  PROVE  IInv'
<1>1. data.tree.records \in [Addresses -> Nat]
  BY DEF IInv, TypeOK, Checkout, Tree
<1>2. /\ StoredIsPublished' /\ owed' \in [Addresses -> Nat]
      /\ jobs' \in [Jobs -> Job \cup {Idle}] /\ JobInv(job)'
      /\ \A other \in Jobs \ {job} : jobs'[other] = jobs[other]
  BY <1>1, CompletesPaid DEF IInv
<1>3. OneJob' /\ \A other \in Jobs : JobInv(other)'
  BY <1>2, OthersStayIdle DEF IInv
<1>4. TypeOK'
  BY <1>2 DEF IInv, TypeOK
<1> QED
  BY <1>2, <1>3, <1>4 DEF IInv, StatsCountServers, RecordFiles

\* A job that goes on by itself, with no branch moved.
LEMMA GoesOnSafely ==
  ASSUME IInv, NEW job \in Jobs, IsActive(job),
         jobs' \in [Jobs -> Job \cup {Idle}], JobInv(job)',
         \A other \in Jobs \ {job} : jobs'[other] = jobs[other],
         UNCHANGED <<waiting, data, main, owed>>
  PROVE  IInv'
<1>1. OneJob' /\ \A other \in Jobs : JobInv(other)'
  BY OthersStayIdle DEF IInv
<1>2. TypeOK'
  BY DEF IInv, TypeOK
<1> QED
  BY <1>1, <1>2 DEF IInv, StatsCountServers, StoredIsPublished, RecordFiles

-----------------------------------------------------------------------------
(* Every step preserves the invariant *)

LEMMA StartPreserves ==
  ASSUME IInv, NEW job \in Jobs, Start(job)
  PROVE  IInv'
<1>1. PICK branch \in waiting, invocation \in Invocations :
         jobs' = [jobs EXCEPT ![job] = NewJob(branch, invocation)]
  BY DEF Start
<1>2. NewJob(branch, invocation) \in Job
  BY EmptyTreeType DEF IInv, TypeOK, NewJob, Job, Stages
<1>3. /\ jobs' \in [Jobs -> Job \cup {Idle}] /\ jobs'[job] = NewJob(branch, invocation)
      /\ \A other \in Jobs \ {job} : jobs'[other] = Idle
  BY <1>1, <1>2 DEF IInv, TypeOK, Start, IsActive
<1>4. TypeOK'
  BY <1>3 DEF IInv, TypeOK, Start
<1>5. OneJob'
  BY <1>3 DEF OneJob, IsActive
<1>6. JobInv(job)'
  BY <1>3 DEF JobInv, IsAt, NewJob, Untouched, NoCheckout
<1>7. ASSUME NEW other \in Jobs \ {job}
      PROVE  JobInv(other)'
  <2>1. jobs'[other].stage = "idle"
    BY <1>3 DEF Idle
  <2> QED
    BY <2>1 DEF JobInv, IsAt
<1> QED
  BY <1>4, <1>5, <1>6, <1>7
     DEF IInv, Start, StatsCountServers, StoredIsPublished, RecordFiles

LEMMA EarlyStepsPreserve ==
  ASSUME IInv, NEW job \in Jobs,
         \/ CheckoutSource(job) \/ CheckoutData(job) \/ Build(job) \/ FailStep(job)
         \/ StartAggregator(job)
  PROVE  IInv'
<1>1. IsActive(job)
  <2>1. IsAt(job, {"checkout", "checkout data", "build", "start"})
    BY DEF CheckoutSource, CheckoutData, Build, FailStep, StartAggregator, IsAt
  <2> QED
    BY <2>1, AtAnyStage DEF Stages
<1>2. jobs[job] \in Job /\ data \in Checkout /\ jobs \in [Jobs -> Job \cup {Idle}]
  BY <1>1, JobType DEF IInv, TypeOK
<1>3. JobInv(job)
  BY DEF IInv
<1>4. CASE CheckoutSource(job)
  <2>1. jobs' \in [Jobs -> Job \cup {Idle}] /\ JobInv(job)'
    BY <1>2, <1>3, <1>4 DEF CheckoutSource, GoesTo, Job, Stages, JobInv, IsAt, Untouched
  <2> QED
    BY <1>1, <1>2, <1>4, <2>1, GoesOnSafely DEF CheckoutSource, GoesTo
<1>5. CASE CheckoutData(job)
  <2>1. jobs' \in [Jobs -> Job \cup {Idle}]
    BY <1>2, <1>5 DEF CheckoutData, Job, Stages, Checkout
  <2>2. JobInv(job)'
    BY <1>2, <1>5 DEF CheckoutData, JobInv, IsAt, Untouched, Job
  <2> QED
    BY <1>1, <1>2, <1>5, <2>1, <2>2, GoesOnSafely DEF CheckoutData
<1>6. CASE Build(job)
  <2>1. jobs' \in [Jobs -> Job \cup {Idle}] /\ JobInv(job)'
    BY <1>2, <1>3, <1>6 DEF Build, GoesTo, Job, Stages, JobInv, IsAt, Untouched
  <2> QED
    BY <1>1, <1>2, <1>6, <2>1, GoesOnSafely DEF Build, GoesTo
<1>7. CASE FailStep(job)
  <2>1. jobs' \in [Jobs -> Job \cup {Idle}]
    BY <1>2, <1>7 DEF FailStep, GoesTo, Job, Stages
  <2>2. Untouched(job)
    BY <1>3, <1>7 DEF FailStep, JobInv, IsAt
  <2>3. JobInv(job)'
    BY <1>2, <1>7, <2>2
       DEF FailStep, GoesTo, JobInv, IsAt, Untouched, NothingStored, NoCheckout, Job
  <2> QED
    BY <1>1, <1>2, <1>7, <2>1, <2>3, GoesOnSafely DEF FailStep, GoesTo
<1>8. CASE StartAggregator(job)
  <2>1. jobs' \in [Jobs -> Job \cup {Idle}]
    BY <1>2, <1>8 DEF StartAggregator, GoesTo, Job, Stages
  <2>2. jobs[job].checkout = data /\ jobs[job].out = data.tree
    BY <1>3, <1>8 DEF StartAggregator, JobInv, IsAt, Untouched
  <2>3. data.tree.records \in [Addresses -> Nat]
    BY <1>2 DEF Checkout, Tree
  <2>4. JobInv(job)'
    <3>1. CASE StartUp(jobs[job].invocation) = Continues
      BY <1>2, <1>8, <2>2, <2>3, <3>1
         DEF StartAggregator, GoesTo, JobInv, IsAt, Ran, Job
    <3>2. CASE StartUp(jobs[job].invocation) # Continues
      BY <1>2, <1>8, <2>2, <3>2
         DEF StartAggregator, GoesTo, JobInv, IsAt, NothingStored, Job
    <3> QED
      BY <3>1, <3>2
  <2> QED
    BY <1>1, <1>2, <1>8, <2>1, <2>4, GoesOnSafely DEF StartAggregator, GoesTo
<1> QED
  BY <1>4, <1>5, <1>6, <1>7, <1>8

\* The aggregator changes the output directory to new, in which no record is older.
PreservedBy(job, new) ==
    /\ new \in Tree
    /\ \A address \in Addresses : jobs[job].out.records[address] <= new.records[address]
    /\ jobs' = [jobs EXCEPT ![job] = [jobs[job] EXCEPT !.out = new]]
    /\ UNCHANGED <<waiting, data, main, owed>>

LEMMA OutChangePreserves ==
  ASSUME IInv, NEW job \in Jobs, IsAt(job, {"run"}), NEW new, PreservedBy(job, new)
  PROVE  IInv'
<1>1. IsActive(job) /\ Ran(job)
  BY AtAnyStage DEF Stages, IInv, JobInv
<1>2. jobs[job] \in Job /\ data \in Checkout /\ jobs \in [Jobs -> Job \cup {Idle}]
  BY <1>1, JobType DEF IInv, TypeOK
<1>3. /\ jobs[job].out.records \in [Addresses -> Nat] /\ new.records \in [Addresses -> Nat]
      /\ data.tree.records \in [Addresses -> Nat]
  BY <1>2 DEF Job, Tree, Checkout, PreservedBy
<1>4. jobs' \in [Jobs -> Job \cup {Idle}]
  BY <1>2 DEF PreservedBy, Job
<1>5. /\ jobs'[job].stage = "run" /\ jobs'[job].out = new
      /\ jobs'[job].checkout = data /\ jobs'[job].invocation = jobs[job].invocation
  BY <1>1, <1>2 DEF PreservedBy, Job, IsAt, Ran
<1>6. Ran(job)'
  BY <1>1, <1>3, <1>5 DEF Ran, PreservedBy
<1>7. JobInv(job)'
  BY <1>5, <1>6 DEF JobInv, IsAt
<1> QED
  BY <1>1, <1>2, <1>4, <1>7, GoesOnSafely DEF PreservedBy

LEMMA RunPreserves ==
  ASSUME IInv, NEW job \in Jobs,
         \/ \E address \in Addresses : StoreRecord(job, address) \/ LeaveTemporary(job, address)
         \/ EndRun(job)
  PROVE  IInv'
<1>1. IsAt(job, {"run"})
  BY DEF StoreRecord, LeaveTemporary, EndRun
<1>2. IsActive(job) /\ Ran(job)
  BY <1>1, AtAnyStage DEF Stages, IInv, JobInv
<1>3. jobs[job] \in Job /\ data \in Checkout /\ jobs \in [Jobs -> Job \cup {Idle}]
  BY <1>2, JobType DEF IInv, TypeOK
<1>4. /\ jobs[job].out \in Tree /\ jobs[job].out.records \in [Addresses -> Nat]
      /\ data.tree.records \in [Addresses -> Nat]
  BY <1>3 DEF Job, Tree, Checkout
<1>5. ASSUME NEW address \in Addresses, StoreRecord(job, address)
      PROVE  IInv'
  <2> DEFINE new == Changed(jobs[job].out, address)
  <2>1. new \in Tree /\ \A other \in Addresses : jobs[job].out.records[other] <= new.records[other]
    BY <1>4 DEF Tree, Changed
  <2>2. jobs' = [jobs EXCEPT ![job] = [jobs[job] EXCEPT !.out = new]]
    BY <1>3, <1>5 DEF StoreRecord, Job
  <2>3. PreservedBy(job, new)
    BY <2>1, <2>2, <1>5 DEF PreservedBy, StoreRecord
  <2> QED
    BY <1>1, <1>2, <2>3, OutChangePreserves
<1>6. ASSUME NEW address \in Addresses, LeaveTemporary(job, address)
      PROVE  IInv'
  <2> DEFINE new == [jobs[job].out EXCEPT !.temporary = @ \cup {address}]
  <2>1. new \in Tree /\ \A other \in Addresses : jobs[job].out.records[other] <= new.records[other]
    BY <1>4 DEF Tree
  <2>2. jobs' = [jobs EXCEPT ![job] = [jobs[job] EXCEPT !.out = new]]
    BY <1>3, <1>6 DEF LeaveTemporary, Job
  <2>3. PreservedBy(job, new)
    BY <2>1, <2>2, <1>6 DEF PreservedBy, LeaveTemporary
  <2> QED
    BY <1>1, <1>2, <2>3, OutChangePreserves
<1>7. CASE EndRun(job)
  <2>1. jobs' \in [Jobs -> Job \cup {Idle}]
    BY <1>3, <1>7 DEF EndRun, GoesTo, Job, Stages
  <2>2. JobInv(job)'
    BY <1>2, <1>3, <1>7 DEF EndRun, GoesTo, JobInv, IsAt, Ran, Job
  <2> QED
    BY <1>2, <1>3, <1>7, <2>1, <2>2, GoesOnSafely DEF EndRun, GoesTo
<1> QED
  BY <1>5, <1>6, <1>7

LEMMA NotAhead ==
  ASSUME NEW tree \in Tree, NEW held \in {tree, EmptyTree}
  PROVE  \A address \in Addresses : held.records[address] <= tree.records[address]
<1>1. tree.records \in [Addresses -> Nat]
  BY DEF Tree
<1>2. \A address \in Addresses : EmptyTree.records[address] = 0
  BY DEF EmptyTree
<1> QED
  BY <1>1, <1>2

\* What a job that is about to publish, or has pushed, holds is not ahead of the branch.
LEMMA HeldIsPublished ==
  ASSUME IInv, NEW job \in Jobs,
         \/ IsAt(job, {"publish"}) /\ ~HasChanges(job)
         \/ IsAt(job, {"stats", "push stats"})
  PROVE  \A address \in Addresses :
            jobs[job].out.records[address] <= data.tree.records[address]
<1>1. data.tree \in Tree
  BY DEF IInv, TypeOK, Checkout
<1>2. jobs[job].out \in {data.tree, EmptyTree}
  <2>1. CASE IsAt(job, {"publish"}) /\ ~HasChanges(job)
    <3>1. Ran(job) \/ NothingStored(job)
      BY <2>1 DEF IInv, JobInv
    <3>2. jobs[job].checkout = data \/ jobs[job].checkout = NoCheckout
      BY <3>1 DEF Ran, NothingStored
    <3>3. jobs[job].out = jobs[job].checkout.tree
      BY <2>1 DEF HasChanges
    <3>4. NoCheckout.tree = EmptyTree
      BY DEF NoCheckout
    <3> QED
      BY <3>2, <3>3, <3>4
  <2>2. CASE IsAt(job, {"stats", "push stats"})
    BY <2>2 DEF IInv, JobInv, Pushed
  <2> QED
    BY <2>1, <2>2
<1> QED
  BY <1>1, <1>2, NotAhead, Zenon

LEMMA PublicationPreserves ==
  ASSUME IInv, NEW job \in Jobs,
         \/ HasNothingToPublish(job) \/ PushData(job) \/ FailPush(job)
         \/ CommitStats(job) \/ PushStats(job) \/ FailStats(job)
  PROVE  IInv'
<1>1. IsAt(job, {"publish", "stats", "push stats"})
  BY DEF HasNothingToPublish, PushData, FailPush, CommitStats, PushStats, FailStats, IsAt
<1>2. IsActive(job) /\ JobInv(job)
  BY <1>1, AtAnyStage DEF Stages, IInv
<1>3. /\ jobs[job] \in Job /\ data \in Checkout /\ jobs \in [Jobs -> Job \cup {Idle}]
      /\ main \in [version : Nat, servers : Nat, counted : Nat]
  BY <1>2, JobType DEF IInv, TypeOK
<1>4. /\ jobs[job].out \in Tree /\ jobs[job].out.records \in [Addresses -> Nat]
      /\ data.tree \in Tree /\ data.tree.records \in [Addresses -> Nat] /\ data.version \in Nat
  BY <1>3 DEF Job, Tree, Checkout
<1>5. CASE HasNothingToPublish(job)
  BY <1>2, <1>5, HeldIsPublished, CompletesSafely DEF HasNothingToPublish
<1>6. CASE PushData(job)
  <2>1. Ran(job)
    BY <1>2, <1>6 DEF PushData, JobInv, IsAt, HasChanges, NothingStored
  <2>2. data'.tree = jobs[job].out /\ data'.version = data.version + 1 /\ data' \in Checkout
    BY <1>4, <1>6 DEF PushData, Checkout
  <2>3. \A address \in Addresses : data.tree.records[address] <= data'.tree.records[address]
    BY <2>1, <2>2 DEF Ran
  <2>4. /\ jobs' \in [Jobs -> Job \cup {Idle}] /\ owed' \in [Addresses -> Nat]
        /\ StoredIsPublished' /\ JobInv(job)'
        /\ \A other \in Jobs \ {job} : jobs'[other] = jobs[other]
    <3>1. CASE jobs[job].branch = "main"
      <4>1. /\ jobs' = [jobs EXCEPT ![job].stage = "stats"] /\ owed' = owed
        BY <1>6, <3>1 DEF PushData, GoesTo
      <4>2. jobs' \in [Jobs -> Job \cup {Idle}]
        BY <1>3, <4>1 DEF Job, Stages
      <4>3. StoredIsPublished'
        BY <1>4, <2>2, <2>3, <4>1 DEF IInv, TypeOK, StoredIsPublished
      <4>4. /\ jobs'[job].stage = "stats" /\ jobs'[job].out = jobs[job].out
            /\ jobs'[job].checkout = data /\ jobs'[job].invocation = jobs[job].invocation
        BY <1>3, <2>1, <4>1 DEF Job, Ran
      <4>5. JobInv(job)'
        BY <2>1, <2>2, <4>4 DEF JobInv, IsAt, Pushed, Ran
      <4> QED
        BY <1>3, <4>1, <4>2, <4>3, <4>5 DEF IInv, TypeOK
    <3>2. CASE jobs[job].branch # "main"
      <4>1. Completes(job)
        BY <1>6, <3>2 DEF PushData
      <4> QED
        BY <1>2, <1>4, <2>2, <2>3, <4>1, CompletesPaid DEF IInv
    <3> QED
      BY <3>1, <3>2
  <2>5. OneJob' /\ \A other \in Jobs : JobInv(other)'
    BY <1>2, <2>4, OthersStayIdle DEF IInv
  <2>6. TypeOK'
    BY <1>6, <2>2, <2>4 DEF PushData, IInv, TypeOK
  <2>7. main.counted < data'.version /\ main' = main
    BY <1>3, <1>4, <1>6, <2>2 DEF IInv, PushData
  <2>8. StatsCountServers' /\ main'.counted <= data'.version
    BY <1>3, <1>4, <2>2, <2>7 DEF StatsCountServers
  <2> QED
    BY <2>4, <2>5, <2>6, <2>8 DEF IInv
<1>7. CASE FailPush(job)
  BY <1>2, <1>7, GivesUpSafely DEF FailPush
<1>8. CASE CommitStats(job)
  <2> DEFINE new == [jobs[job] EXCEPT !.stage = "push stats", !.base = main.version,
                                      !.servers = Servers(jobs[job].out)]
  <2>1. jobs' = [jobs EXCEPT ![job] = new]
    BY <1>3, <1>8 DEF CommitStats, Job
  <2>2. Servers(jobs[job].out) \in Nat
    BY <1>4, CountType DEF Servers
  <2>3. new \in Job
    BY <1>3, <2>2 DEF Job, Stages
  <2>4. /\ jobs' \in [Jobs -> Job \cup {Idle}] /\ jobs'[job] = new
        /\ \A other \in Jobs \ {job} : jobs'[other] = jobs[other]
    BY <1>3, <2>1, <2>3
  <2>5. Pushed(job) /\ data' = data
    BY <1>2, <1>8 DEF CommitStats, JobInv, IsAt
  <2>6. JobInv(job)'
    <3>1. /\ jobs'[job].stage = "push stats" /\ jobs'[job].out = jobs[job].out
          /\ jobs'[job].checkout = jobs[job].checkout
          /\ jobs'[job].invocation = jobs[job].invocation
          /\ jobs'[job].servers = Servers(jobs[job].out)
      BY <1>3, <2>4 DEF Job
    <3>2. Servers(jobs[job].out) = Cardinality(RecordFiles(data.tree))'
      BY <2>5 DEF Pushed, Servers, RecordFiles
    <3> QED
      BY <2>5, <3>1, <3>2 DEF JobInv, IsAt, Pushed
  <2> QED
    BY <1>2, <1>8, <2>4, <2>6, GoesOnSafely DEF CommitStats
<1>9. CASE PushStats(job)
  <2>1. Pushed(job) /\ jobs[job].servers = Cardinality(RecordFiles(data.tree))
    BY <1>2, <1>9 DEF PushStats, JobInv, IsAt, Pushed
  <2>2. /\ main' \in [version : Nat, servers : Nat, counted : Nat]
        /\ main'.servers = jobs[job].servers /\ main'.counted = data.version
    <3>1. main' = [version |-> main.version + 1, servers |-> jobs[job].servers,
                   counted |-> jobs[job].checkout.version + 1]
      BY <1>9 DEF PushStats
    <3>2. jobs[job].servers \in Nat /\ jobs[job].checkout.version + 1 = data.version
      BY <1>3, <2>1 DEF Pushed, Job
    <3> QED
      BY <1>3, <1>4, <3>1, <3>2
  <2>3. data' = data /\ waiting' = waiting /\ Completes(job)
    BY <1>9 DEF PushStats
  <2>4. \A address \in Addresses : jobs[job].out.records[address] <= data.tree.records[address]
    BY <1>9, HeldIsPublished DEF PushStats, IsAt
  <2>5. /\ StoredIsPublished' /\ owed' \in [Addresses -> Nat]
        /\ jobs' \in [Jobs -> Job \cup {Idle}] /\ JobInv(job)'
        /\ \A other \in Jobs \ {job} : jobs'[other] = jobs[other]
    BY <1>2, <1>4, <2>3, <2>4, CompletesPaid DEF IInv
  <2>6. OneJob' /\ \A other \in Jobs : JobInv(other)'
    BY <1>2, <2>5, OthersStayIdle DEF IInv
  <2>7. TypeOK'
    BY <2>2, <2>3, <2>5 DEF IInv, TypeOK
  <2>8. StatsCountServers' /\ main'.counted <= data'.version
    BY <1>4, <2>1, <2>2, <2>3 DEF StatsCountServers, RecordFiles
  <2> QED
    BY <2>5, <2>6, <2>7, <2>8 DEF IInv
<1>10. CASE FailStats(job)
  BY <1>2, <1>10, HeldIsPublished, CompletesSafely DEF FailStats
<1> QED
  BY <1>5, <1>6, <1>7, <1>8, <1>9, <1>10

LEMMA CancelPreserves ==
  ASSUME IInv, NEW job \in Jobs, Cancel(job)
  PROVE  IInv'
<1>1. CASE IsAt(job, {"stats", "push stats"})
  BY <1>1, HeldIsPublished, CompletesSafely DEF Cancel
<1>2. CASE ~IsAt(job, {"stats", "push stats"})
  BY <1>2, GivesUpSafely DEF Cancel
<1> QED
  BY <1>1, <1>2

-----------------------------------------------------------------------------
(* Theorems *)

LEMMA Inductive == IInv /\ [Next]_vars => IInv'
<1> SUFFICES ASSUME IInv, [Next]_vars
             PROVE  IInv'
  OBVIOUS
<1>1. ASSUME NEW branch \in Branches, Trigger(branch)
      PROVE  IInv'
  <2>1. waiting' \in SUBSET Branches /\ UNCHANGED <<jobs, data, main, owed>>
    BY <1>1 DEF Trigger
  <2>2. TypeOK' /\ OneJob'
    BY <2>1 DEF IInv, TypeOK, OneJob, IsActive
  <2>3. \A job \in Jobs : JobInv(job)'
    BY <2>1 DEF IInv, JobInv, IsAt, Untouched, Ran, NothingStored, Pushed, RecordFiles
  <2> QED
    BY <2>1, <2>2, <2>3 DEF IInv, StatsCountServers, StoredIsPublished, RecordFiles
<1>2. ASSUME NEW job \in Jobs, Step(job)
      PROVE  IInv'
  BY <1>2, StartPreserves, EarlyStepsPreserve, RunPreserves, PublicationPreserves, CancelPreserves
     DEF Step
<1>3. CASE MoveMain
  <2>1. /\ main' \in [version : Nat, servers : Nat, counted : Nat]
        /\ main'.counted = main.counted /\ main'.servers = main.servers
        /\ UNCHANGED <<waiting, jobs, data, owed>>
    BY <1>3 DEF MoveMain, IInv, TypeOK
  <2>2. TypeOK' /\ OneJob'
    BY <2>1 DEF IInv, TypeOK, OneJob, IsActive
  <2>3. \A job \in Jobs : JobInv(job)'
    BY <2>1 DEF IInv, JobInv, IsAt, Untouched, Ran, NothingStored, Pushed, RecordFiles
  <2> QED
    BY <2>1, <2>2, <2>3 DEF IInv, StatsCountServers, StoredIsPublished, RecordFiles
<1>4. CASE UNCHANGED vars
  <2>1. TypeOK' /\ OneJob'
    BY <1>4 DEF vars, IInv, TypeOK, OneJob, IsActive
  <2>2. \A job \in Jobs : JobInv(job)'
    BY <1>4 DEF vars, IInv, JobInv, IsAt, Untouched, Ran, NothingStored, Pushed, RecordFiles
  <2> QED
    BY <1>4, <2>1, <2>2 DEF vars, IInv, StatsCountServers, StoredIsPublished, RecordFiles
<1> QED
  BY <1>1, <1>2, <1>3, <1>4 DEF Next

LEMMA Initial == Init => IInv
<1> SUFFICES ASSUME Init
             PROVE  IInv
  OBVIOUS
<1>1. \A job \in Jobs : jobs[job] = Idle
  BY DEF Init
<1>2. TypeOK
  BY EmptyTreeType DEF Init, TypeOK, Checkout, Tree
<1>3. OneJob /\ \A job \in Jobs : JobInv(job)
  BY <1>1, IdleInv DEF OneJob, IsActive
<1>4. RecordFiles(EmptyTree) = {}
  BY DEF RecordFiles, EmptyTree
<1>5. StatsCountServers
  BY <1>4, FS_EmptySet DEF Init, StatsCountServers
<1>6. StoredIsPublished
  BY DEF Init, StoredIsPublished, EmptyTree
<1> QED
  BY <1>2, <1>3, <1>5, <1>6 DEF Init, IInv

\* What the job and the repository keep, whoever pushes in between.
LEMMA Invariant == Spec => []IInv
  BY Initial, Inductive, PTL DEF Spec

\* What a job that was neither cancelled nor refused its push stored is on the data
\* branch, for good (the step of aggregate.yml that commits and pushes it).
THEOREM NothingStoredIsLost == Spec => []StoredIsPublished
<1>1. IInv => StoredIsPublished
  BY DEF IInv
<1> QED
  BY <1>1, Invariant, PTL

\* The data branch is always where a job that is about to push to it found it (the
\* concurrency group of aggregate.yml).
THEOREM NoRefusedPush == Spec => []PushesNeverRace
<1>1. ASSUME IInv, NEW job \in Jobs, IsAt(job, {"publish"}), HasChanges(job)
      PROVE  jobs[job].checkout.version = data.version
  <2>1. Ran(job) \/ NothingStored(job)
    BY <1>1 DEF IInv, JobInv
  <2> QED
    BY <1>1, <2>1 DEF HasChanges, NothingStored, Ran
<1>2. IInv => PushesNeverRace
  BY <1>1 DEF PushesNeverRace
<1> QED
  BY <1>2, Invariant, PTL

\* stats.json has the number of records of the data it was counted on.
THEOREM StatsCorrect == Spec => []StatsCountServers
<1>1. IInv => StatsCountServers
  BY DEF IInv
<1> QED
  BY <1>1, Invariant, PTL

\* The command goes on only if all its checks succeeded.
LEMMA StartUpChecks ==
  ASSUME NEW invocation, StartUp(invocation) = Continues
  PROVE  /\ BuildsSources(invocation.sources, invocation.keys)
         /\ AggregatorAccepts(invocation.sources)
  BY DEF StartUp, Continues, EXIT_SUCCESS, EXIT_FAILURE, EXIT_USAGE

\* A job has stored something only if every source its command enabled is known,
\* configured and has its key (run and newSourceOptions in main.go, New in aggregator.go).
THEOREM ConfigurationChecked == Spec => []OnlyCheckedSourcesStore
<1>1. ASSUME IInv, NEW job \in Jobs, IsActive(job), HasChanges(job)
      PROVE  StartUp(jobs[job].invocation) = Continues
  <2>1. jobs[job].stage \in Stages
    BY <1>1, JobType DEF IInv, Job
  <2>2. JobInv(job)
    BY <1>1 DEF IInv
  <2>3. Untouched(job) \/ Ran(job) \/ NothingStored(job) \/ Pushed(job)
    BY <2>1, <2>2 DEF JobInv, IsAt, Stages
  <2> QED
    BY <1>1, <2>3 DEF HasChanges, Untouched, Ran, NothingStored, Pushed
<1>2. IInv => OnlyCheckedSourcesStore
  <2> SUFFICES ASSUME IInv, NEW job \in Jobs, IsActive(job), HasChanges(job),
                      NEW sources, sources = jobs[job].invocation.sources,
                      NEW keys, keys = jobs[job].invocation.keys
               PROVE  /\ \A index \in Enabled(sources.feeds) :
                            IsSound(sources.feeds[index], FeedNames, keys)
                      /\ \A index \in Enabled(sources.enrichers) :
                            /\ IsSound(sources.enrichers[index], EnricherNames, keys)
                            /\ HasSchedule(sources.enrichers[index])
                      /\ NamesDiffer(sources.feeds) /\ NamesDiffer(sources.enrichers)
    BY DEF OnlyCheckedSourcesStore
  <2>1. BuildsSources(sources, keys) /\ AggregatorAccepts(sources)
    BY <1>1, StartUpChecks
  <2>2. NamesDiffer(sources.feeds) /\ NamesDiffer(sources.enrichers)
    BY <2>1 DEF AggregatorAccepts
  <2>3. \A index \in Enabled(sources.feeds) : IsSound(sources.feeds[index], FeedNames, keys)
    BY <2>1 DEF BuildsSources, BuildsFeed, Prepares, HasKey, Constructs, IsSound
  <2>4. \A index \in Enabled(sources.enrichers) :
           /\ IsSound(sources.enrichers[index], EnricherNames, keys)
           /\ HasSchedule(sources.enrichers[index])
    BY <2>1 DEF BuildsSources, BuildsEnricher, Prepares, HasKey, Constructs, IsSound
  <2> QED
    BY <2>2, <2>3, <2>4
<1> QED
  BY <1>2, Invariant, PTL
=============================================================================
