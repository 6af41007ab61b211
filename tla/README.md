# kube-pfs in TLA+

TLA+ modules, TLC configurations and TLAPS proofs for kube-pfs, a Go program
that simulates a parallel file system behind a CSI-style workflow. Paths below
are relative to the repository (`pkg/mds/service.go`), modules to this
directory (`MDS.tla`).

## 1. Inventory

| Component | State it keeps | Operations | Talks to |
| --- | --- | --- | --- |
| Metadata service, `pkg/mds/service.go`, `cmd/mds` | `inodes`, `dirents`, `rr` in memory under `s.mu`; BoltDB buckets `inodes` and `dirents` | `Create`, `Lookup`, `Stat`, `ListDir`, `Unlink`; load at start | clients (gRPC), BoltDB, wall clock |
| Object storage target, `pkg/ost/service.go`, `cmd/ost` | block files `<dir>/<file_id>/<chunk_id>.blk`; atomic counters | `WriteBlock`, `ReadBlock`, `DeleteBlock`, `GetHealth` | clients (gRPC), file system |
| CSI node, `pkg/csi/service.go`, `cmd/csi-node` | staging directories, target directories with a marker file | `NodeStage`/`Unstage`/`Publish`/`UnpublishVolume` | kubelet, file system |
| CSI controller, `pkg/csi/service.go`, `cmd/csi-controller` | `volumes` in memory under `mu` | `CreateVolume`, `DeleteVolume`; publish calls that change nothing | provisioner |
| seed-metrics client, `cmd/seed-metrics` | the file of the iteration | create, write, read, delete block, unlink | MDS, OST |
| Fault injector, `cmd/fault-injector`, `Makefile` | appends to `timeline.jsonl`; overwrites the start of a block file | `delete-pod`, `netem-delay`, `corrupt-block` | cluster, OST files, timeline |
| Demo UI, `cmd/demo-ui`, `static/app.js` | none on the server; the rendered page | reads timeline, latest benchmark run, pods, Prometheus | files, kubectl, browser |
| Benchmark script, `scripts/bench/run-day3-bench.sh` | `artifacts/bench/<stamp>/` | writes the files of a run one by one | demo UI, through the files |
| Metrics, generated protobuf code, deployment files | nothing the program reads back | - | - |

The services are separate processes; MDS and OST never call each other. What
relates them is the client, which creates an inode at the MDS and uses its id as
`file_id` and its stripe layout to pick the OST.

What is hard, per component (each line of code is listed in `PROJECT.json`,
"hazards"):

* **MDS.** Memory is changed *before* the BoltDB transaction and is not restored
  when that fails; a process may die after the commit and before the answer; the
  namespace is rebuilt from the buckets at a start; inode ids are wall-clock
  readings. It is correct when acknowledged work lasts, no entry loses its inode,
  memory and store agree, the namespace is one tree, and the clients cannot tell
  the service from an atomic durable namespace.
* **OST.** No lock: concurrent calls interleave at their system calls, counters
  are loaded and added one at a time, a kill may come between truncate and write.
  It is correct when a read that meets no writer returns what the last writer of
  its block left, racing reads never invent or shift bytes, and health is true.
* **CSI node.** No lock either: publish and unpublish of a target race, failing
  removals are ignored, and nothing but the kubelet's order keeps a staging
  directory under its published targets.
* **CSI controller.** A restart forgets every volume; calls are repeated, given
  up on and carried out late; different names may share a volume id. It is
  correct when all answers for one claim agree and no deleted volume comes back.
* **seed-metrics.** Its loop ends at a fatal error and ignores other errors, over
  services that die. It is correct when it reads its own data, leaves nothing
  behind unless a call failed, and always ends.
* **Timeline.** Several writers, a truncating clear, a reader in between, and no
  lock. It is correct when a list is the timeline at one moment, and damage stays
  in proportion to the short writes that caused it.
* **Benchmark runs.** "Latest" is the last directory by name, complete or not.
  It is correct when a finished run is shown in full and half an output never is.
* **Page.** Refreshes overlap, handlers give up after different times, and a
  failure changes one line of the page. It is correct when answers are not put
  back over later ones, what it shows is right within a known time, and it goes
  on refreshing.

## 2. Plan

All modules are written; they came in the order of importance, and the proofs
after them in the same order. Section 5 lists what TLC checks and no theorem states.

1. `MDS`, `MDSClock`; `MDSProofs`.
2. `Namespace` (abstract), `MDSNamespace` (refinement, proved in `MDSProofs`).
3. `OST`; `OSTProofs`.
4. `CSINode`; `CSIKubelet` and `CSIController`, composed in `CSILifecycle`;
   `CSINodeProofs`, `CSILifecycleProofs`.
5. `SeedMetrics`, composed with `MDS`; `SeedMetricsProofs`.
6. `Timeline`, `Benchmark`, `Page`; `TimelineProofs`, `BenchmarkProofs`,
   `PageProofs`.

## 3. Modules

### MDS.tla

Every handler holds `s.mu` for its whole length, so each is one action:
`Create`, `Unlink`, `Lookup`, `Stat`, `ListDir`, and `CreateRefused`,
`UnlinkRefused` for the requests the checks turn down (`CreateCheck` and
`UnlinkCheck` keep the order of the code's checks). A writing handler has three
more outcomes that matter:

| Action | What happened |
| --- | --- |
| `CreateNotPersisted`, `UnlinkNotPersisted` | the transaction failed; memory stays changed, the answer is `Internal` |
| `CreateThenCrash`, `UnlinkThenCrash` | the process died after the commit, before the answer |
| `Crash` | it died at any other time; a death before the commit leaves nothing behind |

`Start` is `NewService`: `LoadExisting` or `InitRoot`. A start whose transaction
fails ends the process and changes nothing, so it is a stuttering step. A BoltDB
transaction is atomic (that is what the library gives; it is external).

| Variable | Code |
| --- | --- |
| `inodes` | `s.inodes` |
| `dirents`, `dirMaps` | `s.dirents`: all its entries, and the keys of the outer map, which are not the same thing after a restart |
| `rr` | `s.rr` modulo the number of OSTs |
| `boltInodes`, `boltDirents` | the buckets |
| `clock` | `time.Now().UnixNano()` as the next `Create` sees it |
| `reply`, `acked`, `removed` | the last answer; what clients were told. No guard reads them |

Inode ids are numbers: 0 is `root`, others the clock reading they were made
from; -1 is the empty id. Names are model values, some containing a slash.
Modes, sizes, times, and the sorting of `ListDir` are left out. `MDSClock` adds
`SetClockBack`, which may put `clock` back at any time (`SteppedSpec`); `Spec` of
`MDS` is the service under a clock that is not.

### Namespace.tla, MDSNamespace.tla

`Namespace` is what a client may rely on: one durable tree, each request done at
one instant or not at all, answers as the tree calls for, and a service that may
be away. It has no memory/store pair and no crash handling. `MDSNamespace` maps
it onto `MDS` (the tree is the two buckets) and states `NamespaceImplemented`;
it needs a store that does not fail, since the failure outcomes above are exactly
where the code departs from it. The one answer the code gets wrong even then,
`NotFound` for a directory that was empty at a restart, is part of `Namespace` as
an explicit extra outcome and is reported as a finding.

### OST.tla

An action per system call or atomic operation: `OpenForWrite` (create and
truncate), `WriteData`, `WriteShort`, `OpenForRead`, `ReadSome`, `ReadEnd`,
`Remove`, the two additions of `observe`, the two loads of `GetHealth`, `Fail`
for any failing call, `Crash` and `Start`. A file is an object that outlives its
name, so a writer whose block is deleted goes on writing to nobody. `calls` holds
each goroutine; `alone`, `before`, `low`, `high`, `settled`, `begun` and
`answered` are history for the properties. A kill loses goroutines and counters
and keeps files: the page cache survives the process. A crash of the host is not
modelled (the code never calls fsync, so nothing would be promised). `DirOf` is
what `sanitize` makes of a file id.

### CSINode.tla, CSIKubelet.tla, CSIController.tla, CSILifecycle.tla

`CSINode` has the same grain: `MakeTarget`, `OpenMarker`, `WriteMarker` for a
publish; `Unmark` and the steps of `os.RemoveAll` (`Rmdir`, `List`, `Unlink`,
`Rmdir` again) for an unpublish. A publish whose marker is unlinked while open
writes to nobody (`linked`), a `RemoveAll` whose directory is removed by another
unlinks nothing. Staging directories hold nothing, so one step makes or removes
one. A member of `Calls` is a goroutine slot, reused for ever: the model bounds
how many calls overlap and not how many there are. Requests are arbitrary, empty
paths included. `settled` is what a target is known to be after an undisturbed
call, `harmed` the targets on which a call has failed or was killed; both are
history.

`CSIKubelet` puts the handlers under their client, which is not part of the
repository: stage before publish, unpublish before unstage, one call at a time
per target and per volume, an outcome unknown after an error.

`CSIController` is the volume table: `CreateVolume` and `DeleteVolume` hold `mu`
throughout, so each is one step; `RestartController` empties the table. A name is
a sequence of characters, for `sanitizeName` is what decides whether two claims
share a volume. `CSILifecycle` composes both services with the provisioner, also
external: it takes a claim from `CreateVolume` over its use on the node to
`DeleteVolume`, repeats a call until it hears OK, and may give up on any call,
which is then carried out at any later time (`GiveUp`, `RunLate`).

### SeedMetrics.tla

`main` of `cmd/seed-metrics` over `MDS` as it is, and over the blocks of an OST
seen as whole calls: that an undisturbed read returns the last write is what
`OST` is checked for. Each call is one step in which it fails before it begins,
is carried out and its answer lost, or goes well; `WriteBlock` may also be cut
short. `Fatal` is `log.Fatalf`, `Ignore` an error assigned to `_`. `Expire` is
the 45 s context that every dial and call is given. `abandoned`, and the fields
`mine`, `clean` and `got` of a client, are history.

### Timeline.tla, Benchmark.tla

Files that one program writes while another reads them, at the grain of
`write(2)` and `read(2)`. In `Timeline` a line is three pieces; `WriteShort` and
`LogFails` or `Kill` leave part of it, others append in between, `Clear`
truncates, and `ScanSome` reads any number of pieces. `Events` is what a Scanner
and `json.Unmarshal` make of a sequence of pieces: a line is an event if it is
the first half of one and the second half of another, which need not be the same.
`struck` is how much of what an injector asks for has been carried out: the bytes
of `corrupt-block`, the command of `netem-delay`, and for `delete-pod` the
acceptance of the deletion, which is all that exit code 0 says of it
(`--wait=false`); that the pod then goes is not modelled.

In `Benchmark` an output is two parts, written at the writer's own offset after a
truncating redirection, so that two runs of one second mix; the handler lists,
then opens, reads and parses file after file. The stamp is a counter `clock`,
which may stand still between two runs. `NoRun` stands for the zeros that are
answered, and shown like other numbers, for an output that is missing or does not
parse; the `hasFio*` flags of the answer say only that a file is there, `app.js`
does not read them, and they are left out.

### Page.tla

Discrete time: `Tick` does not pass a deadline (`StatusDeadline`,
`PromDeadline`), the timer (`due`) or a settled promise, so what the code does at
once takes no second. A refresh is `fetch` (three answers, rendered together or
not at all), `query` (four queries, taken together), `ended`. `KubectlLooks` reads
the pods and `StatusAnswered` answers with what was read, possibly seconds later.
`due` is settled only when the first refresh has ended, as `bootstrap` awaits it
before `setInterval`.

## 4. Runs

Each passing run explores its whole state space. "Bound" names what is cut off.

| Run | Checks | Instance and bound |
| --- | --- | --- |
| `mds_store_faults` | `TypeOK`, `NoDangling`, `AckedDurable`, `RemovedStaysGone`, `RootServed`, `InodesNotOverwritten` with failing transactions and restarts | ids up to `MaxClock` = 4 |
| `mds_namespace` | `Mirror`, `Rooted`, `NamespaceImplemented` without failing transactions | `MaxClock` = 4 |
| `ost_blocks` | `TypeOK`, `SettledReads`, `BytesKeepTheirPlace`, `HealthTruthful`, `LostToDelete`: three calls of any kind, two chunks and two OST ids, failing calls, short writes, kills | each call is made once; two payloads of different length, read whole and from the end of the shorter on |
| `csi_races` | `TypeOK`, `NoBareTarget`, `PublishSettles`, `UnpublishSettles`: four overlapping calls on one target, two staging paths, failing calls of every kind, kills | overlap only |
| `csi_lifecycle` | `PublishedIsStaged`, `BeliefIsTrue`, `AnswersAgree`, `VolumesAreClaimed`, `DeletedLeavesNothing`: two volumes, one of them used by two pods, and a claim with a blank name; restarts of both services, late calls | overlap; a claim is made once |
| `seed_client` | `ReadsOwnWrite`, `OrphansWereAbandoned`, `CleanRunLeavesNothing`, `SeedEnds`: two clients of two iterations | ids up to `MaxClock` = 4, which is all the files they make |
| `timeline` | `ReadIsSnapshot`, `LossBounded`, `FabricationTakesTwo`, `SplicesCounted`: three injectors, one with an overlong event, one request for the last `MaxEvents` = 2 events | `MaxCuts` = 2 short writes, `MaxClears` = 1 |
| `benchmark` | `QuietSummaryIsComplete`, `NeverOlder`, `NumbersAreFinal`: two runs of the script, one request | `MaxClock` = 2 seconds |
| `page` | `SteadyWorldShown`, `StatusNeverGoesBack`, `MetricsGoBackOneAtMost`, `SecondComes`: two pods of Prometheus and one of Grafana | `MaxTime` = 10, `MaxChanges` = 1 |

Why the bounds are enough. Four ids give a directory in a directory with a file
in it and a second life for one of its names: every hazard of `MDS` is about an
entry, its parent, and a later inode of the same name or id. Hazards of the OST
take two rivals and an observer, and payloads whose bytes tell their place and
writer. The CSI runs bound only how many calls overlap; an interleaving bug of
one publish needs an unpublish, a second unpublish and a second publish to hide
in, which is four. Mixed lines of the timeline take two short writes and a third
injector, or a clear under the reader; an answer of two events can hold one made-up
event more than one clear or one short write accounts for. `Page` runs with an interval of 3 and timeouts of 2 and 2 in place of 6,
5 and 4: the same order of the times and of their sums, which is all the
properties depend on (`TimesAssumption`), and ten seconds see the first answer
stay as long as it may (9) and three refreshes after it. A view leaves out of the fingerprint what no guard and none of
the run's properties read (`reply`, histories, counters, finished calls); each MC
module says why. Symmetry is over interchangeable calls, paths and names only.

Three runs expect a violation, each of a claim the repository makes:

| Run | Claim | What the code does |
| --- | --- | --- |
| `mds_finding_listdir` | `docs/api-contracts.md:10`, `ListDir` lists entries under a directory inode | a directory that is empty at a restart has no entry map: `ListDir` and `Unlink` on it answer `NotFound` until something is created in it |
| `mds_finding_clock` | `docs/api-contracts.md:22`, file ids are stable identifiers | after the clock was set back a `Create` overwrites a stored inode |
| `mds_finding_orphan` | `README.md:10`, the MDS and its `Create` have BoltDB persistence | a directory whose own `Create` was answered `Internal` is served from memory; a file created in it is answered OK, and after a restart its entry hangs under nothing |

In more places the code does what a reader might not expect. These are modelled,
but none has a property worth stating that holds, and each is left out of the
properties it would disturb (`PROJECT.json`, the hazards without properties).

* `handleStatus` counts ready pods and not components, so two Prometheus pods are
  `healthy` without Grafana: `SteadyWorldShown` is stated for at most one pod of each.
* Failing removals of `NodeUnpublishVolume` are ignored and answered OK:
  `UnpublishSettles` is of calls whose own removals did not fail, and
  `csi_lifecycle` has none that do.
* A `CreateVolume` carried out after the `DeleteVolume` of its claim leaves a
  volume in the table: `VolumesAreClaimed` says that there are no others.
* `sanitizeName` maps some different names to one id: `ClaimsAssumption` keeps
  the names of claims apart.
* `main` of the fault injector logs after the fault, and when that fails it prints
  so and exits by the outcome of the action: a fault need not be in the timeline,
  although `docs/day3-development.md:32` says that each event is logged.
* A timeline line over 64 KB turns every answer of `/api/faults` into a 500 until
  the file is cleared: the properties are of answers that are lists.
* Two benchmark runs of one second mix their outputs: the properties are of runs
  alone in theirs.

Others are within the properties as they stand. A `Create` whose transaction
failed is served until the next restart, so `Mirror` is checked with a store that
does not fail. Two `WriteBlock` calls of one block that both truncate first leave
the shorter data over the start of the longer, both answered OK:
`BytesKeepTheirPlace` says that the mixture is of bytes at their places. The OST
id of a `BlockRef` is neither compared nor part of the path, so one block may be
written under one id and read under another: `docs/api-contracts.md:22` counts it
into the identity of a block, `docs/day2-development.md:11` and `SettledReads` do
not. A clear under a reader makes up an event, one at most
(`SplicesCounted`). The metrics cards may go back in time, by one refresh
(`MetricsGoBackOneAtMost`); with "not at all" in its place TLC finds the overtaking.

**Fairness.** The services are checked for safety: their handlers are loop-free
and wait for nothing but a mutex, so "every call is answered" would only restate
fairness. `SeedMetrics` assumes weak fairness of each client's next step and of
its deadline (`SSpec`): a process that is not killed runs on, and a context
expires; nothing is assumed of the services, which may stay away for ever.
`SeedEnds` then holds because every wait of `main` has that deadline. `Page`
assumes weak fairness of time and of each refresh's work: a handler with a
deadline answers by it, and the browser runs what is due. Of the file handlers,
which have no deadline, it is assumed that they are no slower than
`handleStatus`'s; of kubectl, that killing it ends it.

**Deadlock** is checked where clients may always ask again or the process may
always be restarted. `Timeline`, `Benchmark` and `Page` end when every process
has, or when the page is no longer watched, and say `CHECK_DEADLOCK FALSE`.

Every property of a passing run has a mutant in `PROJECT.json`: a plausible bug
in a mapped definition (a dropped check, an entry left behind, a file opened for
appending) with which TLC finds that property violated. The mutated forms sit
beside the definitions they replace, marked `mutant`.

## 5. Proofs

All are for every value of the constants: any names, OST lists, clock bound, any
number of calls, clients, pods, runs and requests.

| Theorem | Says | Assumes |
| --- | --- | --- |
| `MDSProofs!TypeCorrect` | `TypeOK` | - |
| `MDSProofs!RootAlwaysServed` | `RootServed`, under `SteppedSpec` | - |
| `MDSProofs!NothingDangles` | `NoDangling` | `Spec`: the clock is not set back |
| `MDSProofs!AcknowledgedCreatesLast` | `AckedDurable` | the same |
| `MDSProofs!AcknowledgedUnlinksLast` | `RemovedStaysGone` | the same |
| `MDSProofs!InodesKeepTheirMeaning` | `InodesNotOverwritten` | the same |
| `MDSProofs!MemoryMirrorsStore` | `Mirror` | in addition, `~PersistMayFail`: transactions do not fail |
| `MDSProofs!NamespaceIsATree` | `Rooted` | the same |
| `MDSProofs!ServiceImplementsNamespace` | `NamespaceImplemented`, the refinement | the same |
| `OSTProofs!TypeCorrect` | `TypeOK` | - |
| `OSTProofs!HealthIsTruthful` | `HealthTruthful` | - |
| `OSTProofs!RacingReadsKeepPlaces` | `BytesKeepTheirPlace` | - |
| `OSTProofs!UndisturbedReads` | `SettledReads` | - |
| `CSINodeProofs!TypeCorrect` | `TypeOK` | - |
| `CSINodeProofs!TargetsAreWhole` | `NoBareTarget`: of targets on which no call has failed or was killed | - |
| `CSINodeProofs!PublishesSettle`, `UnpublishesSettle` | `PublishSettles`, `UnpublishSettles` | - |
| `CSILifecycleProofs!AnswersNeverDiffer` | `AnswersAgree` | - |
| `CSILifecycleProofs!TableHoldsClaims` | `VolumesAreClaimed` | - |
| `CSILifecycleProofs!PublishedStaysStaged`, `BeliefsAreTrue`, `DeletionIsClean` | `PublishedIsStaged`, `BeliefIsTrue`, `DeletedLeavesNothing` | `~RemoveMayFail`: file removals do not fail |
| `SeedMetricsProofs!ReadsAreOwn`, `BlocksHaveFiles`, `CleanRunsLeaveNothing` | `ReadsOwnWrite`, `OrphansWereAbandoned`, `CleanRunLeavesNothing` | - |
| `BenchmarkProofs!LatestIsNeverOlder`, `ShownNumbersAreFinal`, `QuietRunsAreShown` | `NeverOlder`, `NumbersAreFinal`, `QuietSummaryIsComplete` | - |
| `TimelineProofs!LossesAreBounded`, `FabricationsTakeTwo`, `ReadsAreSnapshots` | `LossBounded`, `FabricationTakesTwo`, `ReadIsSnapshot` | - |
| `PageProofs!PanelsOnlyAdvance`, `MetricsLagOneAtMost`, `SteadyWorldIsShown` | `StatusNeverGoesBack`, `MetricsGoBackOneAtMost`, `SteadyWorldShown` | - |

Each also rests on the named assumptions about its module's constants, which TLC
evaluates in every run: finite or disjoint sets, values that are not members,
and for `Page` the order of the times (`TimesAssumption`). The two hypotheses are those
of the runs that check the properties: `mds_namespace` and `csi_lifecycle` set
`PersistMayFail` and `RemoveMayFail` to `FALSE`.

The arguments.

* *Durability* (`DurableInv`). None of the properties is inductive, because what
  protects them is that ids are fresh and that memory and store agree where it
  matters although they differ elsewhere. The invariant adds: every id anywhere is
  below the clock; every entry, in memory and in the store, leads to an inode that
  names it back, and no two entries to the same inode; an inode that memory and
  store both have is the same in both; an acknowledged entry is in both. With
  freshness a `Create` cannot touch an old inode; with back-references an `Unlink`
  removes exactly one entry and its inode.
* *Tree and refinement* (`MapsInv`). Without failures memory equals the store, so
  the entry count that guards `Unlink` counts the stored children, and a parent is
  always older than its child. For the refinement the invariant adds that entry
  maps belong to directories in memory. Each step of `MDS` is then a step of
  `Namespace` or a stutter; a crash after the commit is the abstract request
  without its answer.
* *OST* (`HInv`, `PlaceInv`, `SInv`). Health: a counter lies between what had
  been answered and what had begun, and so do the loads of `GetHealth` in between.
  Places: every file, open or linked, holds at each offset a byte of some payload
  written to its block, at that offset. Settled blocks: without a rival since its
  last undisturbed call, a block's name leads to the file that call left, and no
  open call can change it.
* *Targets* (`BareInv`). A directory without a marker, and a marker without its
  line, each have a call in progress that will mend it. The step that matters is
  the removal of a marker: its own call goes on to remove the directory, and every
  writer of that marker loses it. *Settling* (`SettleInv`): a call that is still
  alone on its target knows the target's files at each of its steps.
* *Claims* (`ProvInv`). Every answer given, late or not, carries the id and the
  capacity that the claim's name and request decide, and a row of the table is the
  only one of its claim; so a restart that empties the table forgets nothing that
  the answers depend on.
* *Kubelet* (`KubeInv`, `LifeInv`). What the kubelet believes of a path is true
  unless a call on it is under way, and each call in progress says how far the
  files are from that. With failing removals it is false: `NodeUnpublishVolume`
  ignores the error of its first removal, and the kubelet cannot know what is left.
* *seed-metrics* (`SeedInv`). A step of `SeedMetrics` is a step of `MDS` or leaves
  its state alone, so the invariants of `MDSProofs` hold of the composition and are
  used, not proved again: ids are fresh, so no two clients ever hold the same file.
* *Timeline* (`FileInv`, `ReadInv`). A file that does not end in a newline will cost
  the next whole line its start, so what is bounded is not the lost lines alone but
  these and that end together: a short write may leave such an end, and a whole
  line that is then appended turns it into one loss. An injector whose half stands
  without the other one, or that is partway through its line, has a short write of
  its own, and a made-up event takes two such injectors. The events are found by
  position: `Nth` meets every end of an event line exactly once, by a count of the
  ends before it. A request has read the start of the file as long as nobody clears
  it, since all writes append; at the end of the file it has read all of it.
* *Benchmark* (`BenchInv`). A run alone in its second finds each output as its own
  position in the script says: absent, a part, or whole and never written again. A
  request has seen a prefix of it that is no longer than what is there, so at the
  end of file it has seen all of it, and what parses is whole.
* *Page* (`PageInv`). With deadlines shorter than an interval, the first half of a
  refresh ends before the next begins, and its second half before the one after
  next. Whoever may still render is therefore known, and how old the answer is.

Only model-checked: `SeedEnds` of `SeedMetrics` and `SecondComes` of `Page`, which
are liveness; `LostToDelete` of `OST` and `SplicesCounted` of `Timeline`, whose
inductive invariants have to count calls and answers that are over; and the three
violated claims of section 4, which are counterexamples.

Out of the prover's reach, and left to TLC: liveness under fairness and
`ENABLED` (`SeedEnds`, `SecondComes`); induction over data, since the library's
induction theorems take an operator as a parameter (where a least or a first
element is needed, the proofs take it from the order of the numbers, and `Timeline`
defines its list of events by rank instead of by sorting); and modules with
`RECURSIVE` operators, of which there are none here.

## 6. Not modelled

* Prometheus metrics, generated code, manifests: nothing in the program reads
  them back. `handleConfig`, CORS, logging and the capability calls of the CSI
  driver answer constants.
* Crashes of the host (lost page cache) and bugs inside BoltDB, gRPC and the Go
  runtime. Counters wrap at 2^64; no run could reach that and no code depends on it.
* A kubelet that gives up on a call while its handler goes on: `csi_races` lets
  any calls overlap, `CSIKubelet` waits for every answer. Nothing in the handlers
  could tell a late call from a new one, so what the kubelet believes of the target
  would be wrong at once. For MDS, OST and the controller calls that outlive their
  client are covered.
* A BoltDB file or data directory that is damaged, and a `--timeline` path other
  than the one `demo-ui` reads.
* `date` in local time going back by an hour in autumn: the newest benchmark run
  is then not the last by name, and `NeverOlder` does not hold.
* What Prometheus answers: `renderMetrics` shows a query without samples as 0 if
  another has one. `Page` tells numbers from dashes only.
