------------------------------- MODULE Workflow -------------------------------
(***************************************************************************)
(* The publication workflow, .github/workflows/aggregate.yml: jobs that    *)
(* check out the source and the data branch, run the aggregator on the     *)
(* latter, and push what it stored and the statistics.  The aggregator is  *)
(* the command of Command and, from there on, record files that are        *)
(* written one after another as in Store.  Any step can fail, and a job    *)
(* can be cancelled, or run out of time, during any.                       *)
(***************************************************************************)
EXTENDS Command, FiniteSets

CONSTANTS
    Addresses,    \* the addresses records are kept about
    Jobs,         \* the runners that jobs can be on
    Branches,     \* the branches runs are triggered for, "main" among them
    Invocations,  \* what a job's aggregator can find
    MaxChanges,   \* how often one record changes at most
    MaxCommits    \* how many commits main has at most

ASSUME WorkflowAssumption ==
    /\ IsFiniteSet(Addresses)
    /\ "main" \in Branches
    /\ MaxChanges \in Nat /\ MaxCommits \in Nat

VARIABLES
    waiting,   \* the branch of the run that waits for its turn: {} or a singleton
    jobs,      \* per runner, its job
    data,      \* the head of the data branch
    main,      \* the head of main
    owed       \* how often each record changed in jobs that published, for the properties only

vars == <<waiting, jobs, data, main, owed>>

-----------------------------------------------------------------------------
(* A tree has record files, by how often they changed, and temporary files *)

Tree == [records : [Addresses -> Nat], temporary : SUBSET Addresses]

EmptyTree == [records |-> [address \in Addresses |-> 0], temporary |-> {}]

\* A checkout of the data branch, and the one of a job that has none.
Checkout == [version : Nat, tree : Tree]
NoCheckout == [version |-> 0, tree |-> EmptyTree]

RecordFiles(tree) == {address \in Addresses : tree.records[address] # 0}

ServersAndLeftovers(tree) ==   \* mutant: all files instead of '*.json'
    Cardinality(RecordFiles(tree)) + Cardinality(tree.temporary)

Servers(tree) == Cardinality(RecordFiles(tree))

-----------------------------------------------------------------------------
(* Jobs *)

Stages == {"checkout", "checkout data", "build", "start", "run", "publish",
           "stats", "push stats"}

\* checkout is the data branch as the job found it, out the output directory, base
\* the head of main that the statistics are committed on, servers what they say.
Job == [stage : Stages, branch : Branches, invocation : Invocations,
        checkout : Checkout, out : Tree, base : Nat, servers : Nat]

\* Of a runner without a job.
Idle == [stage |-> "idle"]

NewJob(branch, invocation) ==
    [stage |-> "checkout", branch |-> branch, invocation |-> invocation,
     checkout |-> NoCheckout, out |-> EmptyTree, base |-> 0, servers |-> 0]

IsActive(job) == jobs[job] # Idle

IsAt(job, stages) == jobs[job].stage \in stages

HasChanges(job) == jobs[job].out # jobs[job].checkout.tree

GoesTo(job, stage) ==
    /\ jobs' = [jobs EXCEPT ![job].stage = stage]
    /\ UNCHANGED owed

\* Whatever a job does not publish before its end is gone with its runner.
GivesUp(job) ==
    /\ jobs' = [jobs EXCEPT ![job] = Idle]
    /\ UNCHANGED owed

Completes(job) ==
    /\ jobs' = [jobs EXCEPT ![job] = Idle]
    /\ owed' = [address \in Addresses |->
                   IF owed[address] < jobs[job].out.records[address]
                   THEN jobs[job].out.records[address] ELSE owed[address]]

TypeOK ==
    /\ waiting \in SUBSET Branches
    /\ jobs \in [Jobs -> Job \cup {Idle}]
    /\ data \in Checkout
    /\ main \in [version : Nat, servers : Nat, counted : Nat]
    /\ owed \in [Addresses -> Nat]

Init ==
    /\ waiting = {}
    /\ jobs = [job \in Jobs |-> Idle]
    /\ data = [version |-> 1, tree |-> EmptyTree]
    /\ main = [version |-> 1, servers |-> 0, counted |-> 1]
    /\ owed = EmptyTree.records

\* The hourly schedule, for main, or somebody, for any branch.  The run replaces
\* one that waits.
Trigger(branch) ==
    /\ waiting' = {branch}
    /\ UNCHANGED <<jobs, data, main, owed>>

StartAlongside(job) ==   \* mutant: no concurrency group
    /\ ~IsActive(job)
    /\ \E branch \in waiting, invocation \in Invocations :
          jobs' = [jobs EXCEPT ![job] = NewJob(branch, invocation)]
    /\ waiting' = {}
    /\ UNCHANGED <<data, main, owed>>

\* One job of the concurrency group at a time.
Start(job) ==
    /\ \A other \in Jobs : ~IsActive(other)
    /\ \E branch \in waiting, invocation \in Invocations :
          jobs' = [jobs EXCEPT ![job] = NewJob(branch, invocation)]
    /\ waiting' = {}
    /\ UNCHANGED <<data, main, owed>>

-----------------------------------------------------------------------------
(* Up to the aggregator's end *)

CheckoutSource(job) ==
    /\ IsAt(job, {"checkout"})
    /\ GoesTo(job, "checkout data")
    /\ UNCHANGED <<waiting, data, main>>

CheckoutData(job) ==
    /\ IsAt(job, {"checkout data"})
    /\ jobs' = [jobs EXCEPT ![job].stage = "build", ![job].checkout = data,
                            ![job].out = data.tree]
    /\ UNCHANGED <<waiting, data, main, owed>>

Build(job) ==
    /\ IsAt(job, {"build"})
    /\ GoesTo(job, "start")
    /\ UNCHANGED <<waiting, data, main>>

\* The steps up to the next with a condition of its own are skipped.
FailStep(job) ==
    /\ IsAt(job, {"checkout", "checkout data", "build"})
    /\ GoesTo(job, "publish")
    /\ UNCHANGED <<waiting, data, main>>

StartAggregator(job) ==
    /\ IsAt(job, {"start"})
    /\ GoesTo(job, IF StartUp(jobs[job].invocation) = Continues THEN "run" ELSE "publish")
    /\ UNCHANGED <<waiting, data, main>>

\* The rename takes the temporary file away, one that was checked out included.
Changed(tree, address) ==
    [records   |-> [tree.records EXCEPT ![address] = @ + 1],
     temporary |-> tree.temporary \ {address}]

StoreRecord(job, address) ==
    /\ IsAt(job, {"run"})
    /\ jobs[job].out.records[address] < MaxChanges
    /\ jobs' = [jobs EXCEPT ![job].out = Changed(@, address)]
    /\ UNCHANGED <<waiting, data, main, owed>>

\* A write that failed, or was killed, and left its temporary file.
LeaveTemporary(job, address) ==
    /\ IsAt(job, {"run"})
    /\ jobs' = [jobs EXCEPT ![job].out.temporary = @ \cup {address}]
    /\ UNCHANGED <<waiting, data, main, owed>>

EndRunIfFailed(job) ==   \* mutant: the next step without its condition
    /\ IsAt(job, {"run"})
    /\ GoesTo(job, "publish") \/ Completes(job)
    /\ UNCHANGED <<waiting, data, main>>

\* With whatever exit code, or killed by the system.
EndRun(job) ==
    /\ IsAt(job, {"run"})
    /\ GoesTo(job, "publish")
    /\ UNCHANGED <<waiting, data, main>>

-----------------------------------------------------------------------------
(* Publication *)

HasNothingToPublish(job) ==
    /\ IsAt(job, {"publish"})
    /\ ~HasChanges(job)
    /\ Completes(job)
    /\ UNCHANGED <<waiting, data, main>>

\* All files are added.  The branch accepts only a commit on top of its head.
PushData(job) ==
    /\ IsAt(job, {"publish"})
    /\ HasChanges(job)
    /\ jobs[job].checkout.version = data.version
    /\ data' = [version |-> data.version + 1, tree |-> jobs[job].out]
    /\ IF jobs[job].branch = "main" THEN GoesTo(job, "stats") ELSE Completes(job)
    /\ UNCHANGED <<waiting, main>>

\* Refused, or the network is down.
FailPush(job) ==
    /\ IsAt(job, {"publish"})
    /\ HasChanges(job)
    /\ GivesUp(job)
    /\ UNCHANGED <<waiting, data, main>>

\* The commit with the statistics, rebased on what was pushed to main meanwhile.
CommitStats(job) ==
    /\ IsAt(job, {"stats"})
    /\ jobs' = [jobs EXCEPT ![job].stage = "push stats", ![job].base = main.version,
                            ![job].servers = Servers(jobs[job].out)]
    /\ UNCHANGED <<waiting, data, main, owed>>

\* counted is the version of the data they are about.
PushStats(job) ==
    /\ IsAt(job, {"push stats"})
    /\ main.version = jobs[job].base /\ main.version < MaxCommits
    /\ main' = [version |-> main.version + 1, servers |-> jobs[job].servers,
                counted |-> jobs[job].checkout.version + 1]
    /\ Completes(job)
    /\ UNCHANGED <<waiting, data>>

\* A conflict, main that moved since, or the network.
FailStats(job) ==
    /\ IsAt(job, {"stats", "push stats"})
    /\ Completes(job)
    /\ UNCHANGED <<waiting, data, main>>

-----------------------------------------------------------------------------
(* From outside *)

\* Cancelled by somebody or by timeout-minutes: the steps left are skipped.
Cancel(job) ==
    /\ IsActive(job)
    /\ IF IsAt(job, {"stats", "push stats"}) THEN Completes(job) ELSE GivesUp(job)
    /\ UNCHANGED <<waiting, data, main>>

\* Somebody else pushes to main.
MoveMain ==
    /\ main.version < MaxCommits
    /\ main' = [main EXCEPT !.version = @ + 1]
    /\ UNCHANGED <<waiting, jobs, data, owed>>

Step(job) ==
    \/ Start(job)
    \/ CheckoutSource(job) \/ CheckoutData(job) \/ Build(job) \/ FailStep(job)
    \/ StartAggregator(job)
    \/ \E address \in Addresses : StoreRecord(job, address) \/ LeaveTemporary(job, address)
    \/ EndRun(job)
    \/ HasNothingToPublish(job) \/ PushData(job) \/ FailPush(job)
    \/ CommitStats(job) \/ PushStats(job) \/ FailStats(job)
    \/ Cancel(job)

Next ==
    \/ \E branch \in Branches : Trigger(branch)
    \/ \E job \in Jobs : Step(job)
    \/ MoveMain

Spec == Init /\ [][Next]_vars

-----------------------------------------------------------------------------
(* Properties *)

\* "the steps below still publish what the other sources stored" (aggregate.yml:64):
\* what a job stored is on the data branch when it ends and from then on, although
\* the aggregator failed or was killed, unless the job was cancelled or its push failed.
StoredIsPublished ==
    \A address \in Addresses : owed[address] <= data.tree.records[address]

\* "Never let two runs push to the data branch at the same time" (aggregate.yml:12):
\* no push is refused because the branch moved since the checkout.
PushesNeverRace ==
    \A job \in Jobs :
        IsAt(job, {"publish"}) /\ HasChanges(job) => jobs[job].checkout.version = data.version

\* The published number is how many records the data it was counted on has,
\* temporary files that were published with them aside.
StatsCountServers ==
    main.counted = data.version => main.servers = Cardinality(RecordFiles(data.tree))

\* What is written in the documentation of Command, the environment and
\* SourceConfig, of every enabled source.
IsSound(config, names, keys) ==
    /\ config.name \in names
    /\ config.name \in DOMAIN CredentialVariables => CredentialVariables[config.name] \in keys
    /\ config.isHTTPS /\ config.requestsPerMinute >= 1

\* A run that stored anything was configured completely: each enabled source is
\* known, has its key and a positive rate, and none is listed twice.
OnlyCheckedSourcesStore ==
    \A job \in Jobs :
        IsActive(job) /\ HasChanges(job) =>
            LET sources == jobs[job].invocation.sources
                keys    == jobs[job].invocation.keys
            IN  /\ \A index \in Enabled(sources.feeds) :
                      IsSound(sources.feeds[index], FeedNames, keys)
                /\ \A index \in Enabled(sources.enrichers) :
                      /\ IsSound(sources.enrichers[index], EnricherNames, keys)
                      /\ HasSchedule(sources.enrichers[index])
                /\ NamesDiffer(sources.feeds) /\ NamesDiffer(sources.enrichers)
=============================================================================
