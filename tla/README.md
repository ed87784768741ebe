# A verification of Browbeat in TLA+

Browbeat drives performance and scale workloads against an OpenStack cloud: `browbeat.py` runs
Rally, Shaker and Workflow workloads, indexes what they measured in Elasticsearch and prints a
report card. Its Rally plugins include the *dynamic workloads*, in which many iterations of one
task create, change and delete shared servers and trunks at the same time, kept apart by nothing
but a lock table. This directory holds TLA+ models of the parts with state and concurrency, TLC
configurations that check them on small instances, and proofs that TLAPS checks for every
instance.

Line numbers are those of the repository's files; `vm.py`, `trunk.py`, `dynamic_utils.py`,
`provider_network.py`, `octavia.py`, `ocp_on_osp.py` and `rally_context.py` are under
`rally/rally-plugins/dynamic-workloads/`, `elastic.py` and `tools.py` under `browbeat/`,
`rally_cleanup.py` under `utils/`,
`rally.py`, `shaker.py`, `workflow.py` and `base.py` under `browbeat/workloads/`, `nova/`, `neutron/`,
`oc/`, `krkn/` and `common/` under `workflow/`.

## 1. The system

| Component | State it keeps | Operations | Interacts with |
|---|---|---|---|
| Lock table (`browbeat_rally/db/api.py`, `LockUtils` in `dynamic_utils.py`) | one row per locked uuid, primary key; the row has no owner | `acquire_lock`, `release_lock` | every dynamic workload |
| VM workloads (`vm.py`) | servers, tags, floating IPs in the cloud; locals of each iteration | create/delete, boot with FIP, migrate, swap FIPs, stop/start | nova, neutron, lock table |
| Trunk workloads (`trunk.py`) | trunks and ordered subports in neutron, VLAN interfaces in the VMs | `pod_fip_simulation`, add, delete, swap FIPs | neutron, nova, SSH, lock table |
| Provider networks (`provider_network.py`) | shared networks and their servers | create, boot and ping, delete | neutron, nova, lock table |
| Octavia (`octavia.py`) | load balancers, listeners, pools, members, their networks, clients and jump hosts | create with retries on 409, delete, delete members | Octavia, nova, neutron |
| OpenShift (`ocp_on_osp.py`) | one kube-burner script on the tester, which every iteration rewrites | run kube-burner, install clusters | files, `oc` |
| Network contexts (`rally_context.py`, and that of the provider networks) | networks, subnets, VLAN links of the host | `setup`, `cleanup` | neutron, `ip` |
| Cleanup script (`rally_cleanup.py`) | a process pool for each kind of resource | list, delete, wait, list again | nova, neutron, `ip` |
| Elasticsearch cache (`elastic.py`) | the cache of one `Elastic` object, time of the last upload | `index_result`, `flush_cache`, `__del__` | Elasticsearch, files |
| Results (`rally.py`, `shaker.py`) | what one turn of a loop leaves to the next | `json_parse`, `send_to_elastic` | files, the cache |
| Elasticsearch queries (`elastic.py`) | none | scroll, summarise, compare | Elasticsearch, which uploads still change |
| A Browbeat run (`browbeat.py`, `tools.py`, `base.py`, the workloads) | counters and report card in class attributes, filebeat and collectd on the cloud, the `terminate` flag | `run_iteration`, `run_complete`, `run_workload`, SIGINT handler, exit status | all of the above |
| Workflow engine and handlers (`workflow.py`, `workflow/*`) | registered results of the steps | run a step, wait for nova, run Krkn with a timeout | nova, neutron, podman, oc |
| Post-processing, configuration, metadata, Grafana, Prescribe | none | reading and formatting | files |
| pbench and the other Rally plugins | what one iteration creates | benchmarks | the cloud |
| Ansible, collectd, containers | configuration | playbooks | the hosts |

What is hard here:

* *Concurrency.* Rally runs each iteration in a process of its own. Iterations list servers or
  trunks, wait, lock one and work on it for minutes, through dozens of calls between which any
  other iteration may run. What was read before a lock is stale after it.
* *Failure.* Every call to OpenStack may raise, and nothing is in a `finally` clause: locks stay.
  Commands in VMs that fail 120 times are only logged.
* *Retry.* A bulk upload that failed may have stored part of its documents. Octavia answers 409 while a
  load balancer changes; the retries are bounded, and leave their loop on another error as on success.
* *What is left behind.* A rerun runs the same task on what the last one, its cleanup and the script made
  of the cloud and of the tester.
* *Protocol.* Counters and report card are updated on about a dozen paths in three classes; two
  loops share the duty of rerunning; SIGINT is a flag that is read in one place.

What makes each component correct is stated in its module, next to the model, and summarised in
sections 3 and 4.

## 2. The modules

| Module | Models | Uses |
|---|---|---|
| `LockService` | *abstract*: what the lock table promises | |
| `LockTable` | the table and `LockUtils`; `Service` is the refinement mapping | `LockService` |
| `VMWorkload` | `vm.py` and the order of `dynamic_workload.py` | `LockTable` |
| `TrunkWorkload` | `trunk.py` | `LockTable` |
| `DynamicIteration` | an iteration of `dynamic_workload.py` as the three below use it | `LockTable` |
| `ProviderNetwork` | `provider_network.py` | `DynamicIteration` |
| `Octavia` | `octavia.py` | `DynamicIteration` |
| `OcpOnOsp` | `ocp_on_osp.py` | `DynamicIteration` |
| `DynamicWorkload` | composes the last three: iterations of one task that run any of them side by side | `ProviderNetwork`, `Octavia`, `OcpOnOsp` |
| `NetworkContext` | the contexts that make and delete the networks of a task, over its reruns | |
| `RallyCleanup` | `rally_cleanup.py` between those reruns | `NetworkContext` |
| `ElasticCache` | `elastic.py:30-176` | |
| `ElasticComparison` | `browbeat.py --query` while an upload goes on | `ElasticCache` |
| `ResultDocuments` | which documents the results of Rally and Shaker become | `ElasticCache` |
| `BrowbeatRun` | `browbeat.py`, the running part of `tools.py`, `base.py`, `rally.py`, `shaker.py`, `workflow.py` | |
| `WorkflowScenario` | the engine of `workflow.py` on one scenario file, and the handlers of `nova`, `neutron`, `oc`, `krkn` and `common` | |
| `MC*` | instances of the above for TLC | |
| `LockTable_proofs`, `VMWorkload_proofs`, `TrunkWorkload_proofs`, `DynamicWorkload_proofs`, `RallyCleanup_proofs`, `ElasticCache_proofs`, `BrowbeatRun_proofs`, `WorkflowScenario_proofs` | theorems | TLAPS |

Definitions whose comment begins with *Mutant* are no part of a specification: each is a plausible
bug in the definition it stands beside, and shows that a property can fail.

### LockTable and LockService

`locked` is the set of rows. `get_lock` inserts and commits one (`Acquired`); the primary key makes
the second insertion raise `DBDuplicateEntry`, which `acquire_lock` turns into `False`
(`Refused`); `release_lock` deletes by uuid, whoever inserted (`Release`). `held[i]` is a history of
what iteration i inserted and did not delete: the code keeps no such thing, and the properties are
about its agreement with the table. The table is created empty when the plugin is installed. Other
SQL errors than the duplicate key are not modelled. `list_locks` and `cleanup_locks` are called by
nothing in the repository.

### VMWorkload

An action per OpenStack call, because another iteration may run between any two; `pc[i]` names the
call iteration i makes next. `todo[i]` is the list it took before locking, each entry with the
floating IP read then; `cur[i]` is what it works on. Nova is `status`, neutron `address`. Nova
accepts a call only in the status it needs and otherwise raises; a ping succeeds when the address
is attached to a running server, and a wait that times out raises. `Raise` lets any call fail on
its own (`MaxFaults` times). An exception ends the iteration with its locks held, but for one: whatever the
show of `delete_random_servers` raises, its handler releases the lock and passes the server over (`PassOver`).
A floating IP is named for the server it was made for; keypairs, jump hosts, security groups,
networks and the order in which servers are listed are left out (any order may occur).

### TrunkWorkload

`subports[t]` are the segments of the trunk's subports in neutron's order, `links[t]` the VLAN
interfaces in its VM. The code takes a subport's position for its segment: `Segment` for an
addition, `SubportNumber` for a deletion, which may pass below zero and then, as Python does,
index from the end (`Position`). Neutron's call and the VM's command are separate steps, either may
fail. `pod_fip_simulation` ignores what `acquire_lock` returns; `raced` remembers that this
mattered. Left out: addresses and routes, jump hosts, and the external network a trunk must share
(taken equal). Neutron is taken to list subports in the order they were added, as the code does.

### DynamicIteration, ProviderNetwork, Octavia, OcpOnOsp and DynamicWorkload

The scenario class of the dynamic workloads inherits from all of these and `run()` calls the workloads
of the task in one fixed order, which `DynamicIteration` has as a chain of `After...`. `DynamicWorkload`
lets iterations be anywhere in it at the same time; the modules share the lock table, `pc` and `faults`.

*ProviderNetwork.* `networks` and `subnets` are neutron's, `active` and `stuck` nova's VMs on a network.
A network is listed, shown and then locked, each a step; its creator locks it after neutron lists it and
does not look at the answer (`NetAcquire`). That this does no harm is not evident: the others pass a
network over until it has a subnet (`ShowNet`), and it gets one only after its creator's lock. A network
deleted between the show and the lock is met by the first call on it. Pings are only logged.

*Octavia.* No lock is taken: a load balancer is in everyone's list from its creation. `pending` are those
that answer 409, until `Settles`. A member is tried again `MaxAttempts` times on 409; any other error ends
the attempts as success does, for a deletion too (`MemDeleteError`), and `excused` remembers what was given up or deleted on purpose. One element of
`LoadBalancer` stands for the load balancer with its two networks. Addresses and ports are left out.

*OcpOnOsp.* Each iteration reads the script, truncates it, writes it with its own cluster in it and runs it:
one file for all processes. `overlapped` remembers that two were between reading and running.

### NetworkContext and RallyCleanup

`task` is what the task asks for: external networks on VLAN links or provider networks, how many, how many
tenants. `setup` counts its networks inside the loop over the tenants, so that it may make more than were
asked for; any error in it ends it without a word. `cleanup` goes through the networks asked for; `bound`
is whether the name its exception handler reads has a value, without which the handler raises as well.
An iteration that fails may leave `Litter` on its network.

Between two runs the operator may run the script: for each kind of resource it lists, gives each resource to
a process (`Worker`), waits, and lists again until nothing is found or, but for servers, all processes
returned in time; the networks at most `MAX_ATTEMPTS` times. Nova may delete later than the process
looks (`Vanish`). Of most kinds the script deletes what bears a name of Rally; of the floating IPs it deletes
every one of the cloud, whoever made it (`OthersFip`). What a process raises is only noticed as a missing return. The order of the kinds is
the script's, and `Blockers` is why it matters.

### ElasticCache

One object from construction to `__del__`. `index_result` appends and flushes when the cache is too
large or too old; that age is a nondeterministic choice. A bulk upload stores everything, or raises
after storing any part. After two failures the documents go to files one by one, any of which
may fail. `FileOf` is the file name: `test_name-identifier-elastic.json`. `EndTest` counts one failure
for a test any of whose documents returned `False`, as Rally does; Workflow counts each.

### ElasticComparison and ResultDocuments

*ElasticComparison* reads beside the steps of `ElasticCache`, so that a search may see any part of an upload.
`data` is what the searches for results brought, `errors` what those for errors brought; `late`
remembers documents uploaded in between. `Digests` is where the code raises: a run without a document, or
with the document of any error, which has no raw data. Percentiles and the printed table are left out.

*ResultDocuments* is operators: `JsonParse` goes through the iterations of a Rally task, `SendToElastic`
through the records of a Shaker output, each with the variables one turn leaves to the next. They are compared
with what the documents should tell for every short task and output (`ResultsBecomeDocuments`), and `MCElasticCache`
checks that the documents of the comparison's second run are those `RallyDocuments` makes.

### BrowbeatRun

Each command of `main`, and a run from metadata to the exit status, with the options of the configuration
chosen in `Init`. A test is one step between its beginning and its result; which of the result paths it
takes is a choice. `files` are the scenario files of Shaker, which each test rewrites for its workload and
leaves to the next; `environ` is where the credentials of Workflow were read, once. `executed` and `lost` are
histories. `lost` names the ways in which documents have missed Elasticsearch: an upload that failed during a test
of a kind, an indexing that raised inside a step of a Workflow and was swallowed there (`workflow.py:398`), or the
flush of an object that goes, which can only fail if something may be in its cache (`cached`). A Rally task without
results asks for no metadata and passes as indexed. `Crash` stands for the exceptions nobody catches. A
Shaker workload is one scenario, and its test is counted when its command has ended. SIGINT may
come at any time.

### WorkflowScenario

What `BrowbeatRun` takes for one step of a Workflow: the engine executes the `scenario` step by step.
`at` is "step" between two steps, the name of a wait while a handler waits, "record" when
`execute_step` has returned, then "passed" or "failed". `RecordStep` saves the result, indexes it,
which may raise, and looks at `on_failure`. `StepRaises` is a step that raises before it has a result, in
`execute_step` itself: nothing is saved, and `on_failure` decides (`EndStep`). `saved` is what later steps find under a name.

The cloud is a set of resources; `on` are those a resource rests on. The handlers of `neutron` and most
of `nova` create, delete or ask, and are instances of `Create`, `Delete` and `Query`: a reference that
does not resolve, or names what is gone, makes the call fail; neutron refuses to delete what something
rests on; any call may fail on its own, before or after it had its effect (`MaxFaults` times). While a
handler waits the servers go on (`NovaGoesOn`), leadership moves (`Election`) and the chaos container ends
(`ContainerEnds`); each turn of a waiting loop is an action that reads the cloud anew. `find_raft_leader`
asks the pods one by one. A timeout of `run_cmd` kills `podman run` but not the container it started, and a
client that is ended by anything else leaves it too (`ChaosClientEnds`), with a return code that is no exception;
`podman rm -f` of the clean-up is taken to succeed.

Left out: credentials and clients, wordings, values of `wait_for_status` other than ACTIVE and SHUTOFF
that the handlers ask for themselves, the filters of the lists, volumes (attached, not made, by this
engine), and the checks of the krkn arguments, which are one refusal.

## 3. Model checking

A run's bounds are those of its `.cfg`. Two iterations are enough for what goes wrong between two
processes, and three would add only a second stranger: the properties are about pairs, and the
theorems of section 4 hold for any number. Every workload makes one or two operations, so that a
loop is entered, continued and left.

| Run | Instance | What it shows |
|---|---|---|
| `vm_all` | 2 iterations, 2 plain and 2 addressed servers, all workloads, one fault | ownership of the rows and the table implements `LockService`; no two iterations on one server; no call refused because of another iteration, and a half-migrated or stopped server stays locked (`ServersUsedAlone`); every iteration ends |
| `trunk_all` | 2 iterations, 2 trunks, all workloads, one fault and one failing command; symmetric | but for the ignored lock: exclusion, and nothing held at the end (`LocksWorkUnlessRaced`); a free trunk is numbered 1..n with the interfaces to match |
| `dyn_all` | 2 iterations, 2 networks, 2 load balancers, 2 clusters, nine selections of workloads, one fault, 2 attempts | exclusion on networks though a creator ignores the lock; a network worked on is there; a deletion that gets through leaves nothing; no member goes missing unaccounted for; the shared script; every iteration ends |
| `ctx_cleanup` | a task run three times, five kinds of task, up to 4 networks, 2 faults, one run of the script, 2 attempts | what a cleanup leaves is exactly what the code does not reach; the script leaves nothing else, nor any floating IP, and ends |
| `es_cache` | 3 documents, cache of 1, one disk error; a comparison with 3 documents of an earlier run; all tasks of at most 3 iterations and outputs of at most 2 records | nothing lost, nothing failing silently, duplicates only by retry; a printed comparison says what it compares; each failed iteration or record becomes one error document; flushing ends |
| `bb_all` | three configurations: Rally with disabled and unusable scenarios and Shaker; Workflow and Rally; three Shaker workloads on one file; rerun 2, both rerun types | counters, report card and executed tests agree; order of passes; what exit status and report card tell of failed tests and lost documents (`OutcomeIsTold`); at most one workload after SIGINT and collectd stopped (`EndsInOrder`); settings and cloud of each test (`TestsRunAsAsked`); the run ends |
| `wf_all` | scenarios of up to eight steps that between them call every operation, 3 pods, 2 polls, 2 faults, 1 election | what is saved is the latest; verdict deserved; a wait or a search reports only what is so (`ReportsAreTrue`); no chaos container beside later steps unless podman was ended before it; scenarios end |

`NumDelete` is 2 and trunks start with one subport, so that the branch of
`delete_subports_from_random_trunks` for too few subports is taken, and with a count that another
iteration makes stale. `MaxCache` is 1, so that both a flush of several documents and a rest for
`__del__` occur. In `bb_all` a Workflow stands before a Rally workload so that SIGINT can come before,
in and after the last workload; three Shaker workloads set, omit and clear the same settings.

`dyn_all` runs each kind of workload with itself and some of each together, on two load balancers, two
pools or two clients, because an argument of 2 is what a loop's end and a stale listing need; with
`MaxVms` 2 a second VM meets a full or a deleted network. `ctx_cleanup` has as many networks as asked
for, or one more because of two tenants; two faults let a cleanup that failed meet a script that
fails; a foreign port on the first network keeps it from ever being deleted, and with more runs its VLAN is
in the way of the later ones. With three runs there is a point between two of them after a run that was not the first, where
a link of an earlier run may still be there.

In `wf_all` two polls let a server arrive before, between and after them; two faults let a lost answer
meet a failing later step; with three pods a second leader can be asked directly after the first or
not; one election suffices to show two leaders, or none, to one search.

`CHECK_DEADLOCK` is never switched off: each specification has a `Terminated` step for the states in
which everything has stopped, so a deadlock would be reported.

*Symmetry* is used by the trunk runs only: they check invariants, and neither the specification nor
those invariants tell iterations or trunks apart.

*Fairness.* `VMWorkload` and `DynamicWorkload`: `WF_vars(Step(i))` for each iteration, because every
iteration is a process of its own and every wait of nova and every ping has a timeout.
`_run_command_until_failure` (`dynamic_utils.py:88`) alone has none; it is called by `trunk.py` only.
The wait for a load balancer is Rally's and has a timeout, which the model has as a call that raises, at most
`MaxFaults` times; for the other waits Octavia is taken to end what it began (`WF_vars(Settles(l))`). `RallyCleanup`: the script with its
processes, and nova's deletions. `SweepEnds` further assumes that router ports bear a name of Rally:
for others the loop over the routers never ends. `ElasticCache`: the bulk helper and the disk answer.
`BrowbeatRun`: the commands Browbeat waits for end; SIGINT is not fair. `WorkflowScenario`: the engine, for
each of its waits has a timeout and every other call answers or raises; the cloud is not fair.
`TrunkWorkload` claims no liveness.

### Disagreements found

Each of these runs checks one property and TLC finds it violated.

| Run | What happens |
|---|---|
| `vm_swap_leak` | `vm.py:184` returns with a server locked if only one could be locked |
| `vm_stop_stale` | `vm.py:252` shows the server before `vm.py:255` locks it; a swap in between moves the address that is then pinged |
| `trunk_race` | `trunk.py:242` ignores the result of `acquire_lock`; two iterations work on the new trunk, and `trunk.py:263` deletes the other's lock |
| `es_shared_file` | all documents of a Rally or Workflow test are dumped to one file name |
| `wf_deletion` | `nova/__init__.py:255` takes any exception of `servers.get` for the end of a deletion that `doc/source/workflow.rst:89` says is waited for |

Met while reading and modelled as the code has it, without a run of their own:

* `swap_floating_ips` uses ports and addresses listed before any lock (`vm.py:164`).
* A member whose creation fails on another error than 409 is left out silently (`octavia.py:204`).
* `setup` of the external networks makes more than were asked for when there are several tenants
  (`rally_context.py:87`), and `cleanup` then does not reach them; if the first creation failed, the
  handler of `cleanup` raises on a name without a value (`rally_context.py:185`).
* The flush of `__del__` is counted nowhere (`elastic.py:56`), nor is an indexing that raises in a step that may
  fail (`workflow.py:398`): exit status 0 and the report card say nothing of what was lost then. The report card has
  "success" for every Workflow scenario that passed, whatever became of its documents (`workflow.py:333`).
* The cleanup script deletes the floating IPs of everyone (`rally_cleanup.py:253`).
* A run with the document of any error is never compared: `--query` raises on it, and its column of
  errors can only be other than 0 by an upload that came meanwhile. A uuid without documents raises too.
* `outputs.keys().index` (`shaker.py:164`) raises under Python 3, so that of a Shaker output only errors are
  ever indexed; a Shaker record that is not indexed does not reach the exit status (`shaker.py:212`).
* After a Shaker workload with a null progression no test on the same file has one (`shaker.py:249`), and a
  placement is ignored on the first use of a file without a room.
* `--postprocess` makes a Rally object without the time stamp it requires (`tools.py:195`), which raises.
* A scenario file that cannot be used is counted but missing from the report card (`workflow.py:280`).
* Filebeat is switched off only by runs without failures (`browbeat.py:218`).
* A Workflow in rerun type `iteration` runs once, whatever `rerun` says (`workflow.py:221`,
  `browbeat.py:191`).
* A chaos container that timed out, or whose podman client was ended, is left running, because `run_cmd` answers -1 instead of raising and the
  failure made of that passes the clean-up called a safety net (`krkn/__init__.py:172`).
* A server whose floating IP cannot be had is left behind by `boot_server_with_fip`.

## 4. Proofs

Assumptions are those the modules name: which servers are plain and addressed (`ServersAssumption`),
what a floating IP is called, that there are finitely many trunks at the start, that the numbers are naturals, that `FileOf` gives a
file for a document. Each is checked by TLC in every run of its module. Attempts at proofs made four of them
more exact, where the source had them and the model had left them open:

* A task is run at least once, and a port that is left behind belongs to a router that is left behind too
  (`ContextAssumption`). The cleanup script lists only ports of the device owner router_interface
  (`rally_cleanup.py:265`). With a port that belongs to no router, and that bears no name by which the
  script would find it, `SweptClean` is false, as TLC shows.
* A workload's scenarios are a list (`WorkloadsAssumption`): each has an index, which `EveryPlannedTest` counts by.
* The names of the pods differ, and none is the value for no pod (`PodsAssumption`): otherwise a search that
  finds one leader under two names would be refused.

**LockTable_proofs** has what the next three share. `LockStep(i)` is a step that inserts one free row, or deletes
one that i holds. It leaves each row with one owner (`OwnersStay`), and it is a step of the abstract service
(`LockStepImplementsService`).

**VMWorkload_proofs**, for any set of iterations and servers, any selection of workloads and any
number of faults:

* `TypeCorrect`: `Spec => []TypeOK`
* `RowsAreOwned`: `Spec => []LockOwnership`
* `NoTwoOnOneServer`: `Spec => []MutualExclusion`
* `TableImplementsService`: `Spec => ImplementsLockService`, the step simulation included

None of these is inductive. `TypeOK` needs to know that an address is only moved to a server in hand;
`LockOwnership` that a lock is only released by the iteration that has it; both need to know what is
in hand at each point. The invariant is `VMInv == TypeOK /\ InHand /\ LockOwnership`, where
`Fits(l, c, h)` says what an iteration at point l with list c in hand must hold: one locked server,
one unlocked server, two different locked servers, or nothing. The proof goes by the operators the
actions are made of (`NovaCallOK`, `AwaitPingOK`, `TryListedOK`, ...), then by workload. Each step of i
gives `After(i)`: types, `Fits` for i, the frame for the others, and `LockStep(i)`, that at most one row
changes, free before or held by i. `LockOwnership` and the simulation of `LockService` follow from
`LockStep` alone; mutual exclusion follows because `Working(i)` is a subset of `held[i]`.

* `EachServerUsedAlone`: `Spec => []ServersUsedAlone`

The last one is proved on top of it. `VMInv` does not say what status a server has. `UseInv` adds that what was listed still exists, since only
plain servers are deleted and only by who locked them, and that what an iteration works on is in the status
its next call needs. Each step of i gives `StepUses(i)`: it changes the status only of servers it holds
or makes (`StatusStep`), so that the others, who hold theirs, keep `Uses` (`OthersKeep`).

**TrunkWorkload_proofs**, for any iterations, trunks, selections of workloads and numbers of faults:

* `TypeCorrect`: `Spec => []TypeOK`
* `TrunksGivenBack`: `Spec => []LocksWorkUnlessRaced`
* `SegmentsStayInOrder`: `Spec => []FreeTrunksNumbered`
* `TableServesUnlessRaced`: `Spec => Service!Init /\ [][Service!Next \/ raced']_Holder`. The trunk workloads
  use the table as the abstract service until a creator finds its new trunk locked. After that they do not:
  the creator deletes the row of another iteration, and TLC finds `Service!Spec` violated.

The invariant is `TrunkInv`. `Fits` says how many trunks are in hand at each point. `Orderly`, which holds
while no creator's lock was refused (`raced`), is that rows are owned, that every trunk nobody holds is
`Tidy`, and for each iteration a `Spot`: it holds exactly what it works on, that is tidy too but between
the call for a subport and the command for its interface (`Trailing`), and what it was shown and has counted
agrees with the subports there are. From that the next segment is a free one (`NextSegment`), and the subport
deleted is the last (`WithoutLast`). A step of i gives `Typed(i)` and `Keeps(i)`; as it changes only trunks it
holds, the others keep their `Spot` (`OthersKeep`).

**DynamicWorkload_proofs**, for any iterations, networks, load balancers, clusters and selections:

* `RowsAreOwned`: `Spec => []LockOwnership`
* `NoTwoOnOneNetwork`: `Spec => []NetworkExclusion`
* `NetworkIsThere`: `Spec => []WorkedNetworkIsThere`
* `RunOnOwnCluster`: `Spec => []RunsOnItsCluster`
* `TableImplementsService`: `Spec => Service!Spec`

All but `RunOnOwnCluster` follow from `NetInv`. The creator of a network never looks at the lock's answer, so
exclusion needs `Untouched`: until that lock nobody else can have got further than showing the network; and
`Reserved`: from then on whoever is at work holds the lock, and the network is there. So the creator is never refused, which makes each
of its steps one of the lock service too (`ProviderLocks`). `RunOnOwnCluster` follows from
`KubeInv`: while nobody overlaps, the one iteration between reading and running has made the script what it is.
Octavia's steps are shown to touch neither (`OctaviaIsNotKube` and its like).

Its second half is about the load balancers, for any arguments and number of attempts:

* `TypeCorrect`: `Spec => []TypeOK`
* `DeletionLeavesNothing`: `Spec => []DeletionIsWhole`
* `NoMemberMissing`: `Spec => []MembersAccountedFor`

No lock keeps these iterations apart; octavia's list does. The invariant `LbInv` says of each iteration what
is so at its point (`Place`), and of two of them that they do not create, or have before creation and after
deletion, one load balancer (`Separate`): before it is listed only its creator knows it, and who deletes it
took it off the list first. `Filled` is the loop invariant of the members: those before the counters are there or
accounted for, as long as the load balancer is. A step of i gives `LbAfter(i)`; `Effects(i, T)` names
the load balancers it may disturb, none of which another has for itself (`OthersStayInPlace`). Steps that
leave the load balancers as they are go by `Walks`. The types of the composition follow from `NetInv`, `LbInv`
and where the program can be (`PcTypes`).

**RallyCleanup_proofs**, for any tasks, tenants, litter, number of runs, of failures and of attempts:

* `TypeCorrect`: `Spec => []TypeOK`
* `CleansUp`: `Spec => []ContextCleansUp`
* `Swept`: `Spec => []SweptClean`

`Spec` is that of the contexts and the script together, so each theorem is about a task run over and over
with the script between. Even the types are not inductive: that no context makes more than `MaxNetworks`
networks needs `RoomLeft`, that every turn of the loop over the tenants begins with fewer than are asked for.
`CleanSoFar` is the loop invariant of the contexts' cleanup (what it has been past is deleted, or its deletion failed);
`SweptSoFar` that of the script, stage by stage: a pool whose processes all did their work has left nothing of what was listed,
but ports without a name, whose router then is there too and keeps the script from going on.
`NothingInTheWay` is what makes the next run succeed: while nothing failed, nothing is there but
networks and links of this run not cleaned yet, and those numbered beyond what was asked for, which keep no iteration from its network. The invariant,
`CleanupInv`, is the conjunction. The sweep and nova's late deletions are each proved once to be a
`SweepEffect` and a `VanishEffect`, from which the parts about the contexts follow.

**ElasticCache_proofs**, for any documents, cache size and number of disk errors:

* `TypeCorrect`
* `DocsAreKept`: `OwnFiles => (Spec => []EveryDocKept)`. `OwnFiles` is how Shaker names its files. It needs `DumpProgress`, that what the running
  dump has written is still there, which is where the assumption of a file for each document is
  used; without it `es_shared_file` is the counterexample.
* `FailuresAreReported`: `FailuresReported` is inductive with the types.
* `DuplicatesOnlyByRetry`, through `UploadHistory`: what is in the cache again after being stored was
  in an upload that failed.
* `UploadsUndisturbed`: `ComparisonSpec => [](FailuresReported /\ DuplicatesAreRetries)`, without `OwnFiles`, because the
  documents compared are Rally's, which share a file; that they are kept is not so and not claimed. The invariants above are proved of `Uploading`, any behaviour that begins as an upload and takes its steps or none;
  `ComparisonIsUploading` shows that an upload with a comparison beside it is one.
* `ComparisonTypeCorrect`: `ComparisonSpec => []ComparisonTypeOK`
* `ComparisonHonest`: `ComparisonSpec => []ComparisonIsHonest`. `ReadTruly` says what the comparison
  knew at each point: past the digest no result it has read is an error, and one that is there now has come since
  (`late`). The rows follow from what was read, with `DuplicatesAreRetries` of the upload for what counts twice.
* `DocumentsTell`: `Spec => []ResultsBecomeDocuments`, for tasks and outputs of any length. `JsonParse` and
  `SendToElastic` are `FoldLeft`s; `RallyTurns` and `ShakerTurns` show that they go turn by turn, and `Told` and `SentSoFar`
  are the invariants of the two loops: after `k` iterations the loop has raised exactly if one of them failed before any key was read, and otherwise knows
  the last key, an error for each failed one in its place, and each count. The library's induction theorems
  take an operator, which the provers cannot instantiate; so the step from one turn to all (`UpTo`), and the existence of the
  function the fold chooses (`FoldExists`), go by the least counterexample, from `WFMin`.

**BrowbeatRun_proofs**, for any configurations, scenario files and number of reruns:

* `TypeCorrect`
* `CountsCorrect`: `Spec => []CountsAgree`
* `OutcomeCorrect`: `Spec => []OutcomeIsTold`
* `OrderlyEnd`: `Spec => []EndsInOrder`
* `RunAsAsked`: `Spec => []TestsRunAsAsked`
* `PlanIsFollowed`: `Spec => []EveryPlannedTest`

The report card is sums over kinds and indexings; `ReportedOnce` says what a line more does to them, and
`TestsEnd` applies it to each of the paths on which a test ends (`TestOver`); with it `CountsAgree` is inductive.
The exit status is made of two counters, so `OutcomeIsTold` needs what they know: `ToldInv` is that no indexing
failure was counted only if nothing of Rally or Workflow was lost in a test, and one was only if something was or a
test failed (`LossesCounted`; a Shaker test that fails counts one too), and what the counters were when an exit
status was given (`StatusEarned`). That the counter of failures is that of failed tests is `CountsAgree`.
`OrderInv` says where SIGINT and collectd can stand at each point, and
`AskedInv` that a scenario file follows from the shipped one and from the workloads that used it
(`FilesFollow`), and that the credentials have one source.

`PlanIsFollowed` needs to know at every point which of the planned tests the nested loops have been past: `PlanInv` says that they
are exactly those executed (`PlanFollowed`), each once (`TestsOnce`) and in order (`InOrder`), and that the
jobs yet to be done for a scenario are planned and differ (`JobsPlanned`). A scenario's jobs are numbered
through, and `JobsAreProduct` shows by division with remainder that the numbers meet every concurrency and
run once. That as many tests were executed as are planned follows at the end from `LengthIsSize`: a list
without repetitions is as long as its set is large.

**WorkflowScenario_proofs**, for any set of scenario files, any pods and any bounds:

* `TypeCorrect`
* `VerdictCorrect`: `Spec => []VerdictIsDeserved`
* `SavedCorrect`: `Spec => []SavedIsLatest`
* `ReportsCorrect`: `Spec => []ReportsAreTrue`
* `ChaosIsCleanedUp`: `Spec => []ChaosStaysUnlessTimedOut`

The invariant is `ScenarioInv`. `InPlace` ties the place of the engine to the length of the histories,
without which a passed scenario could have left out steps; `HaveLatest` says that of the steps that
save under a name there is a last one, which makes the CHOOSE of `SavedIsLatest` mean something.
Every handler's step is a `HandlerStep`, which keeps the types and touches neither the verdict nor what is
saved; so the two properties are proved once for all the handlers' steps (`Undisturbed`) and then for
`RecordStep`, `StepRaises` and `EndScenario`.

The last two are about what the handlers do, and are proved by handler, from `ReportInv`: at which points which handler can be
(`HandlerPlaces`), that nova moves the server a handler waits for only to the wanted status or an error (`WaitedFor`),
that a status or a deletion that was reported stays, because only a task moves a server from it (`ReportStays`), and, the loop invariant of the search for a leader, that what was found is what the
pods asked so far claim (`SearchSoFar`), provided that all answered and none changed its mind. A chaos container
is one of the step that is being executed, or of one that podman was ended before.

Every safety property of a passing run has its theorem. Only model-checked are the liveness properties (`FlushingEnds`, `SweepEnds`,
`ScenarioEnds`, `RunEnds`, `EveryIterationEnds`, `EveryIterationStops`), as fairness and ENABLED are beyond the prover.

## 5. What is not modelled, and what could follow

Not modelled, because no state is shared or kept and what they do is formatting or an external program:

* post-processing, configuration, metadata (`compare_metadata` included), Grafana and Prescribe;
* the pbench plugins, stress-ng and the other Rally plugins, whose iterations each work on
  resources of their own, one call after the other;
* Ansible playbooks, collectd, containers and the other utilities.

In the modelled parts: the content of messages, names, addresses and results; `list_locks` and
`cleanup_locks`, which nothing calls; the arguments of the command lines Browbeat runs.

What could follow, the most useful first:

1. `WorkflowScenario` shown to implement the single test step of `BrowbeatRun`.
2. Theorems about the abstract promises of more components than the lock table: what a context promises a task, what
   an upload promises a test.
3. Shaker's record parsing under Python 2, where `keys()` is a list.
