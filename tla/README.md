# A verification project for tine

tine builds operating system images with Buck2. This directory holds TLA+ models of the parts of it
whose correctness depends on more than one step at a time: what runs concurrently, survives a kill,
talks to a bucket that loses objects or to mirrors that serve what they like, and the algorithms
that several parts must agree on. TLC checks them on small instances; TLAPS proves theorems about
the central ones for every value of their constants.

## The system

| Part | State it keeps | Operations | What is hard |
| --- | --- | --- | --- |
| `remote_cache/store.py`, the store | files by digest, an SQLite index (present, size, bundle, seen; results; certificates), `held` | put_blobs, blob, has_blobs, remember_all, put_result, drop_result, eviction by size and by rows, reconcile | 32 worker threads; files change outside the lock the index has; kills; bounds |
| `remote_cache/shim.py`, the servicers | `tainted`, locks by bundle, one store, one bucket | GetActionResult, UpdateActionResult, FindMissing, BatchUpdate, BatchRead, Read, Write | several shims on one bucket; objects that expire or change; partial failures; results sharing bundles |
| `remote_cache/bucket.py`, `bundle.py`, `signing.py` | cooldown; remembered certificates | get, put, refresh; sign, verify | clocks: certificate windows against object age |
| `remote_cache/shim.py` (`serve`, `wait`, `Activity`), `status.py` | the socket, the builds that registered | start, report, register, idle exit | processes racing for a lock, a socket and a timeout |
| `bin/cache_shim.py`, the launcher | none of its own | ensure, start, ask | losing the store to another, timing out |
| `bin/tine.py` | mount table, generated Buck configuration, the pinned Buck2 in the user's cache | mount, unmount, buck, init, configured commands | concurrent commands in one checkout; signals |
| `rootfs/rootfs.py` | overlay deltas | capture, reconstruct | a round trip through names and whiteouts |
| `box/sandbox.py`, `box/isolation.py` | namespaces, mounts | enter, mount, run | two processes in a handshake; the order of mounts |
| `package/`, `package_system/` | locks, retained metadata, roots | snapshot, plan, verify, install | what pins of different days vouch for; layers over layers |
| `tools/catalog.py` | pins, locks and keys in a checkout | advance, snapshot, resolve, restore | a refresh that fails halfway |
| `tools/importer.py` | two git branches | import, update, sync, rebuild, check | three-way merges, releases, predicted metadata |
| `tools/bot_pr.py` | branches, pull requests and issues on a server | gate, open, report | killed runs, people in between |
| `image/ami_import.py` | a pool of uploads | upload, register | a bounded pool with failures |
| `image/version.py`, `boot.py`, `manifest.py`, `archive/cpio.py`, `kmod/kmod.py` | none | order, select, lay out, unpack, close | algorithms with many corner cases |
| `cargo/`, `go/`, `tools/bump.py`, `tools/dev.py`, other Starlark | files | drive external tools, translate data | sequential or pure; left to tests |

Calls go from Buck2 to the servicers, from those to the store and the bucket; from a build to the
status socket and, when nothing answers, through Buck to a new shim. Shims share nothing but the
bucket. The commands of `bin/tine.py` meet in the files of a checkout and in the user's cache; a
refresh of the catalog feeds the plans, and those the locks that builds verify and install.
`PROJECT.json` lists every component with its status, and the hazards of the code, each at the line
where it bites with the properties that watch it.

## Modules of the shared cache

### Store and BlobCache

`Store.tla` is one `Store` object in one process after the other on one directory.

| Model | Code |
| --- | --- |
| `disk[b]` | the file under `blobs/`: none, the right bytes, other bytes |
| `row[b]`, `bundle[b]` | table `blob`: no row, or the columns `present` and `bundle` |
| `results` | table `result`, by action |
| `held`, `phase` | `Store.held`; whether a process has the directory |
| `op[t]` | where worker thread `t` is, and the local variables of its call |

An action is a stretch that no other thread can interrupt: what happens under `self._lock`, or one
system call outside it. `put_blobs` is `PutBlobs`, then the eviction for room, `WriteFile` for each
blob, `Commit`, the eviction that trims and `EvictRows`; `WriteFails` ends it at any of its files, as
a full disk does, and the process serves on. `_evict` is `EvictCheck`, `EvictScan`,
`EvictStat`, `EvictChoose` and `EvictForget`, since each of these reads something that may have
changed when the next acts on it. `blob` is `ReadFile` and then `Touch` or `DropBad`. `Stop`
interrupts anything and `Reconcile` is what the next process finds.

Abstractions: files are evicted and rows forgotten in any order instead of by timestamp, so
`has_blobs`, which only moves timestamps, is not an action. `EvictStat` stats all candidates at
once. A rename is one step; the temporary file a kill leaves is a file the index does not know. That
a statement of SQLite fails (the database full at the commit, say) is left out.

`BlobCache.tla` is what the store promises to those who call it one at a time: a set of blobs that
forgets, in which batches arrive whole and a batch that fits stays whole within the bound. `Store`
implements it under the mapping `have` = the blobs with a row marked present and the right bytes on
disk, `from` = `bundle`, `left` = the right bytes on disk of which no row says so, written by a put
that has not committed or that failed (they are read like the others), `answer` = what the last read
returned. `Put` is `Commit`, `Arrive` is `WriteFile`, `Get` is `ReadFile`; `Lose` is `EvictForget`, a
lost or a damaged file; `Forget` is `EvictRows`; `Open` and `Close` are the process starting to serve
and stopping. Everything else the store does stutters.

### SharedCache

`SharedCache.tla` is any number of shims, each with any number of threads, on one bucket, in the
signed configuration: every shim has an authority, those in `Builders` also sign and write.

| Model | Code |
| --- | --- |
| `ac[a]`, `object[n]` | the objects `ac/<action>` and `bundle/<name>` |
| `have`, `present`, `from`, `result` | the store of each shim: files, rows marked present, where each blob came from, pointers |
| `tainted` | `Local.tainted` |
| `op[t]` | where each thread is, which lock it holds |
| `signed`, `disturbed` | history: the pointers builders signed; the bundles the bucket lost or damaged since the last upload |

A result is the set of blobs it names, trees included, and a bundle's name is the set it was made
from. `_fetch` is `FetchPointer`, `Prove`, `Download`, `Refuse` or `AdmitFiles` and `AdmitRows`,
`Link` and, when nothing was downloaded, `Remember`. `ensure` is `Ensure`, `Refill` for each bundle
(through `Download` and `Admit...` too), `Refilled`. `_publish` is `Refresh`, `PutBundle`,
`PutPointer`, `Remember`, and `PublishFails` at any request. The store behind it is reduced to what
`Store` shows of it: a blob may be evicted at any time, its row only once it is not marked present,
and rows and files may disagree until a restart. The environment expires, damages and misfiles
objects.

### Launcher

`Launcher.tla` is builds that share a store (`cache_shim.ensure`, `start`, `ask`) with the shims
they start (`main`, `serve`, `wait`, `Activity`, `serving`). A shim is named by the build that
started it. `pc[c]` is a build, `shim[s]` a shim, `lock` the flock on the store, `socket` what the
socket path leads to, `registered[s]` is `Activity._building`. Time is left out: `TimeOut` and
`IdleOut` may happen at any moment, except that a shim a launcher is polling every 0.2 seconds is
not idle (`Quiet`).

### Lifetimes and Cooldown

`Lifetimes.tla` dates what `SharedCache` leaves timeless. `now` is the clock in units of the bucket's
age rule, `file` the leaf certificate the builder is provisioned with, `inHand` the one it holds while
it runs, `keys`, `dated` and `ac` the certificates, bundles and pointers in the bucket, `pub` a
publication under way, `trusted`, `kept` and `local` what a reader has verified, remembers and has
filed, `answer` what it last served. `Provision`, `StartBuilder`, `Sign`, `DateBundle`, `PutPointer`,
`ExpirePointer`, `ExpireBundle`, `LookUp` and `RestartReader` are `signing.py`'s renewal and
verification and the parts of `shim.py` and `bucket.py` that date, publish and expire.

`Cooldown.tla` is `Reader` of `bucket.py`: `resting` is what is left of the rest of an endpoint that
could not be reached, `asking[t]` a thread's request, `Pass` the clock.

## Modules of the tools

| Module | Code | State and actions |
| --- | --- | --- |
| `Mounts` | `bin/tine.py`: mount table, namespaces of Buck commands | `mounts` is the file, `holder` its lock, `edit[e]` a `tine mount add/remove` between its lock, read, checks and write; `entered[b]` the mounts a build applied; the user moves directories (`found`, `sources`) |
| `Buckconfig` | `bin/tine.py`: reading `.buckconfig` with includes and continuations, the generated block, what is handed to a relocated project | operators over sequences of lines |
| `Checkout` | `bin/tine.py`: `init`, the pinned Buck2 | `settings`, `ignored`, `config` are the files `init` writes in that order; `cached[p]` the binary, `command[c]` a process between checking, downloading, renaming and running |
| `Commands` | `bin/tine.py`: configured commands, the wrapper, signals | `phase` of tine, `stepState` the step it runs, `told`/`forwarded` where a signal has got, `wrapper`/`inMounts` what Buck is run through |
| `Overlay` | `rootfs/rootfs.py` | `native` the upper directories overlayfs left, `stored` what `capture` made of them; `Reconstruct` is the mount of the stored layers with their sidecars |
| `SnapshotUpload` | `image/ami_import.py` | the main thread's walk (`walker`, `offset`, `queue`), the pool (`pending`), EBS (`written`, `stored`, `snapshot`), the registration (`image`) |
| `BotGate` | `tools/bot_pr.py` | the run under way (`stage`, `commit`, `status`), the server (`branch`, `amended`, `pulls`, `issues`), people (`Settle`) |
| `Importer` | `tools/importer.py` | `mirror` and `main` are the two branches as sequences of commits, `outcome` how the last verb ended; the verbs are actions |
| `Catalog` | `tools/catalog.py` | `checkout` the files, `originals` what a failure puts back, `refresh` the step under way |
| `Namespace` | `box/isolation.py`: entering a user namespace | `parent`, `child`, the pipe (`sent`, `writers`), the `maps` written; both may be killed anywhere |
| `Sandbox` | `box/sandbox.py`, `box/isolation.py`: the root of a sandbox | `request`, the new `root`, the mounts `todo`, where mount points were `made` |
| `Supply` | `package*/` snapshot and verify, `package/repository.bzl` | `pin`, `locks`, `built`, the clock, mirrors that lie (`lies`) |
| `Plan` | `plan.py` of the three package systems, `package/repository.bzl`'s selection | operators over a request; the solvers may answer anything their documentation allows |
| `InstallRoot` | `install.py` of the three package systems | `layers`, the `upper` one being written, `manager` the package system, `putAside` the files around packages that are put aside, `step` |
| `KernelModules` | `kmod/kmod.py` | `inquiry` what is asked of which image, `todo` the worklist of `closure` with `seen`, `modules`, `missing` and `neededBy`, `packing` and `walk` what `carry` still has to follow, `carried` the entries, `packed` the `Selection` |
| `Versions` | `image/version.py`, `image/boot.py`, kernels of `kmod.py` | the comparison and the selection of what boots, as operators |
| `Cpio` | `archive/cpio.py`, `package_system/rpm/extract.py` | the layout of an archive, and the tree archives are unpacked into |
| `Manifest` | `image/manifest.py` | scopes, listings and their merge, as operators |

None of these meets another while it runs, so `MCTools` puts them side by side, and `subject` chooses
the one a behaviour is about. It extends those with a state of their own (`Lifetimes`, `Mounts`,
`Checkout`, `Commands`, `SnapshotUpload`, `BotGate`, `Namespace`, `Supply`, `InstallRoot`, `Catalog`,
`Importer`, `KernelModules`) and checks their properties as they are stated and proved there: the
subject takes its steps from any of its initial states, and every other component rests in one of its
own. `Cooldown`, `Overlay` and `Sandbox` are instances, on the variables `v1` to `v4`. A pure
algorithm is a behaviour of one step, `Pick`, to one of its inputs (`input`). `MCImporter` has the
importer alone, for the one claim about it that does not hold.

## What the runs check

| Run | Instance | Shows |
| --- | --- | --- |
| `store_concurrent` | 2 threads, 2 blobs and the empty one, room for 1 | `HeldMatchesIndex`, `FilesAccounted`, `EmptyStays`, `ProvenanceKept` in every interleaving, failed write, kill and restart |
| `store_sequential` | 1 thread, 3 blobs of which 2 fit | `RowsHaveFiles` and `SpaceKept` when calls do not overlap, and that the store then implements `BlobCache` (`ImplementsCache`) |
| `store_phantom`, `store_read` | 2 threads | that `RowsHaveFiles` and `ReadAnswers` do not survive overlapping calls |
| `shared_readers` | 2 threads of a reader, 2 actions, a filled bucket, 2 troubles | `HitIsAuthentic`, `AttributionSound`, `ReaderProvenance` |
| `shared_builder` | 2 threads of a builder, 2 actions, 1 trouble | `UploadedOnce`, `PointerBacked` |
| `shared_refused` | a builder and a reader, 2 troubles | that a bundle a reader refused is not uploaded again |
| `launcher_share` | 3 builds, one configured otherwise | `ServerReachable`, `OwnSettings`, `LauncherEnds`, `IdleShimExits` |
| `launcher_outlive`, `launcher_loser` | the same | two races the comments say cannot hurt |
| `tools` | `MCTools` | a property of each tool module; the comment at each, there or in `MCTools.tla`, says what |
| `importer_sync` | `MCImporter` | that `sync` does not always return to what upstream has |

Bounds of the cache. Two threads suffice for every race between two calls, and the environment,
eviction and restarts act besides them; the properties speak of at most two calls. A store with room
for one of two equal blobs makes every put evict, and `MaxRows` below the number of rows makes rows go
too; what is put there is not empty (`SizedPuts`). In `store_sequential` any two of the blobs (4, 4
and 5 bytes) fit 10 and the three do not, so that a batch may overlap what is there, fill the store,
or exceed it. Results `{b1}` and `{b1, b2}` are two bundles that share a blob. `MaxTroubles` bounds
the steps of the environment (evictions, restarts, lost, damaged and misfiled objects) in one
behaviour of `MCSharedCache`; two are an eviction and a damaged bundle. Symmetry is over threads and
blobs or actions that are alike, and only in runs without liveness properties. `Spec` of `SharedCache`
itself has no such bound. In `MCLauncher` a build runs once, so everything ends: that is why deadlock
is not checked there.

Bounds of the tools, each the least with which the interesting cases happen:

- `Lifetimes`: one key under either of two authorities, one of which ends first; one reader, objects
  that live 2 of a clock of 3; `MaxTroubles` = 2 provisionings, stops, failures and restarts.
- `Cooldown`: two threads, a rest of 2. `Mounts`: two editors and a build, a target inside another.
  `Checkout`: two processes, two pins, two places for the cell, inits of
  one or of both places at a time. `Commands`: three steps, two signals.
- `SnapshotUpload`: six units in blocks of two, one worker. `BotGate`: three runs. `Importer`: three
  commits upstream and five on main (such as an import, a modification, two updates and a rebuild).
- `Overlay`: chains of three names, ordinary ones, marker-like ones and escaped ones in every role,
  up to three layers. `Catalog`: three repositories in two passes, two boxes; pins start on the
  first two of three days, so that any can move and any can get where another was.
- `Supply`: three packages, four releases, two boxes, days 0 to 2, one lie, locks of at
  most two packages. `InstallRoot`: two packages, three
  layers. `Plan`: two repositories, three names. `Sandbox`: the trees and binds listed in `MCTools`.
- `Versions`: all strings of at most two of six characters that matter and chosen longer ones, each
  pair and triple of them. `KernelModules`: three modules with every graph of dependencies, every two
  of six patterns, images with anything amiss, and every tree of three names that may be files or
  links to each other, through a directory that may be one too; four links are followed where the
  code allows 40. `Cpio`, `Manifest`, `Buckconfig`: the inputs listed in `MCTools`, chosen so that
  each branch of the algorithm is taken.

The behaviours of `MCTools` end (a command finishes, an input is picked), so deadlock is not checked
there. That nobody waits for a process that is gone is a part of `HandshakeSound`, and that no step
outlives its command unheard of is one of `CommandSound`.

Fairness. In `Launcher`: a launcher that can take a step takes it; Buck ends building the shim; the
clock of a launcher that keeps asking reaches `START_TIMEOUT` (strong fairness, since the loop
passes through the test again and again); a shim serving nobody reaches its idle timeout and one
that is stopping stops. Nothing is assumed of how long a shim takes to start, of when builds end, or
that anyone is killed. In `Cooldown`, for `AskedAgain`: time passes, and a request ends, by an
answer or its own timeout. Nothing is assumed of the endpoint. All other properties are safety.

Each property of a passing run has a mutant: the definition in the module named `...Mutant` that is
a plausible mistake in the code it stands for, and with which TLC finds the property violated.

## What the runs found

1. `store_phantom`: a row marked present whose file is gone, `put_blobs` writing outside the lock.
   `has_blobs` and `blob` look at the file, so no wrong answer comes of it, but its size stays in
   `held`, and `_evict` passes over what it cannot stat: the bound is tighter until a restart.
2. `store_read`: `blob` raises when the file goes between `read_bytes` and `utime`.
3. `shared_refused`: only the process that refused a bundle uploads it again. For a reader's refusal
   that is nobody, contrary to the user documentation.
4. `launcher_outlive`: a build may register with a shim that has decided to go.
5. `launcher_loser`: a launcher that lost the store fails if the winner is still starting up.
6. `importer_sync`: after an update that merged a local modification, `sync` with nothing new
   upstream goes back to the merged directory, not to what upstream has.

## What is proved

Every theorem is for all values of the constants that meet the named assumptions. A proof
module extends the modules it is about, names an inductive invariant for each and its parts, and
shows that the initial states have it and that each action keeps it.

`StoreProofs`, from the assumptions named in `Store.tla` (the empty blob is a blob, cannot be damaged,
and alone has size zero; sizes add up over disjoint sets; finitely many digests and actions; the
bounds are naturals):

- `TypeCorrect`; `HeldCorrect` (`HeldMatchesIndex`): every change to `row` and to `held` is under
  the lock, and additivity gives the sums;
- `UnaccountedCorrect` (the action property `FilesAccounted`): a process starts without a file that
  no row counts; a thread between `write` and `commit` accounts for its files, and nothing but a write
  that fails adds to those that nobody accounts for;
- `EmptyCorrect` (`EmptyStays`): a serving store has the empty blob on disk *and* no eviction under
  way has picked it, which is where its size of zero is needed;
- `ProvenanceCorrect`: the action property `ProvenanceKept`, by cases over `Next`: only `EvictRows`
  forgets, over the row bound, and of files on disk only those that no row counts;

and, with one thread, `FilesStay` (`RowsHaveFiles`), `SpaceStays` (`SpaceKept`) and
`Implements` (`ImplementsCache`, step by step against `BlobCache`). Its invariant `SeqInv` is what a
call knows about the store at each of its steps: which of the batch is written (`FilesSeq`), that
what eviction chose is still as it was seen (`EvictSeq`), and how much room there is (`SpaceSeq`).
The lemma `Room` says that once the victims are gone there is room for the batch, or nothing is left
that could go. None of this holds with two threads; that is findings 1 and 2.

`SharedCacheProofs`: `HitsAuthentic`, `Attributed`, `Refillable`, `Backed` and `UploadedOneAtATime`,
the five properties of the `shared_` runs, for any shims, threads, results and troubles. The
invariant says of each thread what its local variables are evidence of (`CallInv`: a pointer it has
verified was signed, a bundle it has admitted has the right members), that locks exclude
(`LockInv`), and that a file without a row belongs to an admission under way (`FilesInv`). Assumed
are that results are nonempty sets of blobs and that threads have shims (`SharedCache.tla`).

`LauncherProofs`: `TypeCorrect`; `Reachable` (`ServerReachable`), with the strengthening
`ClaimHoldsLock` that a shim holds the lock from its claim to its end, so no other is serving when
one binds the socket or unlinks it; `Own` (`OwnSettings`). Assumed: every build has settings.

`LifetimesProofs`: `Together` (`PartsLiveTogether`) and `KeysAreCurrent` (`KeysCurrent`), from
`LifeAssumption`. The invariant is about dates: what was signed at a moment has a certificate that
lasts one more life of an object (`Covered`) and a bundle dated no earlier (`Fresh`), from the
publication (`PubInv`) until the pointer goes (`PointerInv`); and what a reader keeps of a
certificate was issued (`KeptInv`).

`TineProofs`, for any number of processes, paths, pins, steps and signals:

- `MountsAreSound` (`MountsSound`), from `MountAssumption`: who is between its lock and its write
  holds the lock (`LockInv`), so what it has read is the table (`ReadInv`) and what it checked
  against the table is still so (`CheckedInv`);
- `CheckoutsAreSound` (`CheckoutSound`), from `CheckoutAssumption` (there is a cell and a pin): an
  init begins in a project that has no configuration, and unless inits told different cells overlapped
  (`contended`) all that are under way write the same (`AloneInv`); what one writes later finds what
  was written before (`WrittenInv`), and what is renamed into the cache is the whole of what
  was verified (`InstallInv`), wherever processes are killed;
- `CommandsAreSound` (`CommandSound`): where tine is says what has become of its step (`StepInv`)
  and of the signals that came (`SignalInv`);
- `HandoverIsStable`, for any paths of cells and layers that spell their section `cells`: `TineOf`
  says which layer names the tine cell, and a refreshed `.buckconfig` is the replaced one or names
  what the same layer named, so the wrapper a command was handed to is still the one to use, and a
  second refresh writes what the first did (`HandoverStableFor`, a part of `GeneratedConfigSound`).

`ToolsProofs`:

- `Handshake` (`HandshakeSound`): the invariant ties each process's step to the pipe and to the maps
  written (`PipeInv`, `ParentInv`, `ProgressInv`);
- `InFlight` (`OneInFlight`), for any number of runs: a run past the gate found nothing open
  (`GatePassed`), and nothing but itself opens anything (`AtMostOne`);
- `UploadsAreSound` (`CompletedIsDisk`), for any disk of whole blocks and any pool of at least one
  worker (`UploadAssumption`): as long as no failure is known, what was sent is every block behind
  the walk that is not zeros or still queued, each counted once (`WalkInv`, `SentInv`), and nothing is
  under way when a snapshot has been completed (`EndInv`). The lemma `Extent` is about what the walk
  finds next: some data, and only holes before it;
- `VerbsAreChecked` (`VerbsPassCheck`) and `UpdatesKeepOurs` (the action property `UpdateKeepsOurs`),
  for mirrors and histories of any length. The invariant `ImporterInv` has the mirror's builds in
  order, with one number each (`MirrorIs`), every commit of a replay with the metadata of the commit
  it replays (`ImportInv`), every local one either back at the import or one further (`LocalInv`),
  and the last number of a release equal to the commits counted (`BumpInv`). The last part is what
  the next bump starts from, and why the verbs and `check` agree. A merge may come to anything:
  `ReplaysAre` says what a replay is whatever its merges come to, and for the directories that carry
  the package's modification it gives `UpdatesKeepOurs`.

`PackageProofs`:

- `SupplyIsSound` (`SupplySound`), from `SupplyAssumption`: a pin is never of a day to come
  (`DateInv`), and what a lock retains lists all that it selects (`KeptInv`);
- `InstallsAreSound` (`InstallSound`), from `InstallAssumption` (packages ship none of the files the
  drivers write), for any packages and number of layers. The invariant follows an install through
  the steps of each driver: what the root shows at each (`DatabaseInv`, `FilesInv`, `NothingInv`),
  that services are denied exactly while maintainer scripts run (`PolicyInv`), and that the layers
  below are themselves such a root and need no whiteouts to say so (`BelowInv`, `WhiteoutInv`);
- `RefreshesAreSound` (`CatalogSound`), from `CatalogAssumption` (a repository is of one kind and
  spelled like others of that kind only, and what a refresh writes are different files). What a
  failure would put back belongs together (`RestoreInv`, where `Before` is what a file held when the
  refresh found it), locks that are written are of pins that were advanced (`WrittenInv`), and no
  rewrite done or still to do merges two pins (`ApartInv`, `MovesInv`);
- `PlansDeliver` (`DeliversFor`, a part of `PlanSound`), for any request with numbered repositories
  and whatever the solvers answer: `CandidatePriority` takes priorities through APT's pins
  (`HighestPin`), the order of alpm's databases and dnf's priorities, and `AskedIsThere` through what
  each driver accepts. That alpm has one lock to give (the rest of `PlanSound`) is false of some
  requests that `MCTools` does not have, where a package's name is also provided by another, since the
  model lets the solver take either.

`ImageProofs`: `InitrdsAreComplete` (`InitrdComplete`), from `KmodAssumption` (what libkmod and the
file system say of an image has its types, and what a path leads through is there), for any image,
patterns and dependencies, in whatever order entries leave the worklist and paths are carried. The
inductive invariant (`ModulesInvariance`) has three parts that matter:

- what a seed needs is seen or listed and nothing else is (`ClosureInv`), so that an empty worklist
  has seen the least set that is closed, `Needed`, which is stated without one (`ClosedIsNeeded`);
- a walk is where the operating system would be after as many links, has no link behind it and has
  carried those it followed (`WalkInv`), so that every path whose walk has ended has all of its way
  carried (`CarryInv`);
- and a path with all of its way carried resolves in the packed entries as it does in the image:
  the first link of it is there, so it leads on as it did, as many links as there are
  (`FollowsWithin`, `ResolvesWithin`). The directories made above what is carried can hide nothing,
  since what is carried is below them in the image.

Of archives, `LayoutsAreSound` (`LayoutSoundFor`, a part of `ArchiveSound`) holds for any entries,
alignment and place of the archive in its file: each record lies where the one before ends and is
aligned (`WrittenIs`, `RecordIs`), so no two begin at one place (`PlacesAre`), and a turn of the
reader that begins at a record yields it and ends at the next (`TurnIs`).

Of versions, `VersionsAreOrdered` (`OrderFor`) holds for any finite set of them. The code compares in
turns of a loop, each in parts, and what has to be shown is that of three versions the three
comparisons go together: each part leaves them open at the same positions or decides them as an
order would (`Together3`, `TurnOn`). Turns get on (`Progress`), so `Compare` is the function that its
recursion describes (`CompareIs`) and is a total preorder (`CompareOrders`); its values are then the
order of the numbers of versions below (`PlacesOrder`). For digits it is the order of the values
(`NumbersInOrder`: two numbers go on from where one leads, `LeadOn`). `TheNewestBoots`
(`BootsNewestFor`) follows for any image: of finitely many candidates there is a newest one
(`OneIsNewest`). Together these are `VersionsSound` for all versions and images.

`KeepsIsLastSays` says that patterns that override each other in turn leave the decision to the last.

Where a model folds over layers, the commits of a replay, patterns or links it uses a recursive
function, and what such a function is for any length is shown by its least counterexample (`Least`,
`LeastIs`, `LeastNatural`): if the claim failed anywhere it would fail first somewhere, where one
more layer, commit, pattern or link breaks it. `StackExists`, `ChainExists` and `Recursion` are of
this form. The general induction theorems, which take a predicate, are beyond the provers.

The theorems are about the same definitions that the runs check: `tools` checks those of the tool
modules with the values in `MCTools.cfg`.

Only model-checked: liveness (`LauncherEnds`, `IdleShimExits`, `AskedAgain`), which is out of the
prover's reach; `ShowsDeclared` (`Sandbox`), which uses recursive operators; `CapturedTreeReturns`
(`Overlay`), which is not true of every tree (below); `ManifestSound`, of `ArchiveSound` what
unpacking makes of several archives, of `PlanSound` what layers add to each other
(`LayersMakeLockFor`), and of `GeneratedConfigSound` that the generated block takes
effect, whose theorems would be inductions over their inputs; and `TypeOK` of `MCTools`, which puts
together the type invariants of the modules it extends and says nothing of those it instantiates.

## What the models leave out

Of modelled parts:

- `Store`: files that a put wrote before one of its writes failed are read and kept, and no row counts
  them until the next start deletes them (`FilesAccounted` excepts them). `_evict_rows` asks the column
  `present` whether bytes are here, so a row kept for its bundle can go while another thread's put has
  written the file and not committed it; the commit then makes a row without a bundle. "A blob whose
  bytes are *here* is never dropped" (`remote_cache/store.py:479`) is not so in that window, nor of a
  file left by a failed write, and `ProvenanceKept` excepts both.
- `SharedCache`: a builder and a reader act together only in `shared_refused`; the theorems cover
  them together.
- `Mounts`, `Buckconfig`: entries above any section in `.buckconfig.local`. `before_shim` writes the
  generated block without the cache address while another build of the checkout may read it; that
  build then runs without the cache. Nothing looks for entries of the user's below the block for
  `[tine] version-*` and `cache-uploads`, which therefore replace the generated ones (`Unchecked`);
  `GeneratedConfigSound` says that every other generated value is the one Buck reads. One key stands
  for all of `version-*`.
- `Checkout`: `init` takes no lock. Two that run at the same time and were told different cells may
  leave a `tine.toml` and a `.buckconfig` that name different ones; the model lets them, marks it
  (`contended`), and `CheckoutSound` claims that the two agree only where it did not happen.
- `Commands`: a signal between starting a step and installing the handlers may orphan the step; the
  model has it as `lost` and `CommandSound` excepts it. `run_step` settles what it returns before its
  `ExitStack` puts the handlers back (`bin/tine.py:1129`, 1110), so a TERM or HUP in between, which
  reaches `forward` and no process, is forgotten: tine goes on with the next step, or ends with the
  status of this one. The model counts it in `missed`, and `CommandSound` is about all other signals.
- `Supply`: verification stops at the first bad retained generation, although another lock's is not
  needed for the box, where the docstring of `snapshotter.Vouching` speaks of any that vouches.
- `Plan`: the rpm driver does not read removals from the solver's answer, and its `undelivered`
  counts all that the layers below have, although a package of the answer may replace it. A request
  for `b` and `c` over a layer with `b`, where `c` obsoletes `b`, is then accepted and makes a root
  without `b`, as `undelivered` is there to prevent ("a whole package silently vanishes from the
  image", `package_system/rpm/plan.py`). dnf takes an obsoleting package for the one it was asked for
  (`plan_test.py`, `test_refuses_a_spec_an_obsoleting_package_displaced`, without layers below).
  `DeliversFor` excepts this as `Unnoticed`; `MCTools` has such requests, and without the exception
  TLC finds one.
- `InstallRoot`: what may fail is the transaction. `denied_daemons` keeps an existing `policy-rc.d`
  only if it is a regular file, so one that packages ship as a link (`linked`) is gone afterwards, and
  `InstallSound` excepts it. A package that ships `usr/sbin/policy-rc.d` loses it in a layered deb
  install, and an rpm layer that installs nothing still rewrites its database; the property allows for
  both.
- `Overlay`: a directory that has both a name and, literally, the form that name is escaped to (such as
  `foo\` and `.esc.foo%5C`) does not come back as it was, which is why `CapturedTreeReturns` is checked
  on trees without such a pair and not stated for any: the whiteout that hides the stored form of the
  one is where the other is materialized. The model renames all entries at once, where `capture`
  renames one after another and may put one such entry in the place of the other.
- `Importer`: conflicts are resolved by hand outside the model; Koji, metadata and sources.
- `Catalog`: a kill during a refresh (the checkout is the user's to restore), `--commit`, and the
  locks of several architectures, which are treated as one.
- `KernelModules`: that a firmware candidate is there is asked of the image, where the code asks the
  build's file system, which takes an absolute link among the directories on the way to lead out of
  the image. `_chase` fails after `_LINK_DEPTH` links even where the last of them ends the way, one
  fewer than the kernel follows; the model does as the code. `Sandbox`: nothing is claimed of a target
  below a link (`Straight`), which is mounted before what the link leads to. `Cpio`: flat names, and
  archives that agree about the files they share. `Manifest`: names, order and inodes only. A root
  below a link to a directory of the image is listed as the code lists it; links that leave the image
  or lead to other links are left out, and so are the names `check_name` refuses, which fail the
  build. `scope` drops a root below another even where that other one is a link, below which nothing
  is listed; `ManifestSound` is stated with that.

Not modelled, and why: the wire codecs and the packing of bundles are pure encodings; `tools/bump.py`
edits pins one after another from network answers; `image/layer.py` is commands on one tree in one
process; the DDI, UKI and SBOM steps write options for external tools; cargo and go translate lock
files; `tools/dev.py` runs formatters; Starlark rules beyond `package/repository.bzl` are
declarative; parsers and external tools (dpkg, pacman, dnf, Koji, aws, git, Buck2 itself) are what
the code relies on them to be.
