# A TLA+ model of cmangos-tbc

cmangos-tbc is a Rust rewrite of two things around a World of Warcraft (TBC)
server: `realmd`, the authentication server, and a set of offline extractors
that turn the client's data into map, model and movement-map files. This
directory models both: of `realmd` the accept loop, the sessions and the realm
list; of the extractors the four tools as an operator runs them, with kills and
failed writes, and the conversions of data they do.

## The system and its parts

| Part | Source (`src/crates/`) | State | Operations | Module |
|---|---|---|---|---|
| Connection tracker, accept loop, Ctrl-C, ping task | `realmd/src/main.rs` | `per_ip`, `total`, tasks, `stop_event` | `try_add`, `remove`, guard drop, select, signal, ping | `ConnectionTracker` |
| What the tracker promises | the same | held slots | take, give back | `ConnectionLimits` |
| Authentication sessions | `realmd/src/auth_socket.rs` | session status, SRP6 values; tables `account`, `account_banned`, `ip_banned`, `account_logons` | logon and reconnect challenge and proof, bans, automatic accounts | `AuthSocket` |
| Realm list and heartbeat | `realmd/src/realm_list.rs` | `realms`, `next_update_time`, the RwLock; table `realmlist` | `update_if_needed`, `update_realms`, copy of the list | `RealmList` |
| Realm list packet | `auth_socket.rs` (`load_realm_list`) | none | count, filter, entries in two formats | `RealmListPacket` |
| Messages, SRP6, BigNumber, base32, ByteBuffer, config, database | `realmd/src/protocol.rs`, `shared/src` | sequential | codecs, arithmetic | in part, as inputs of the above |
| Map and DBC extractor | `extractors/src/map_dbc.rs` | directories `dbc`, `Cameras`, `maps`; a pool | extract DBC files, cameras, tiles | `MapExtract`; conversion of a tile: `MapFile` |
| Model extractor | `extractors/src/vmap_extract.rs` | `Buildings` with raw models and `dir_bin`; ids, doodads | extract WMOs, placements, game-object models | `VmapExtract`; raw files: `RawModel` |
| Model assembler | `extractors/src/vmap_assemble.rs` | `vmaps`; a pool | trees, tile files, models | `VmapAssemble`; reading: `RawModel`; tree: `Bih` |
| Movement-map generator | `extractors/src/movemap_gen.rs` | `mmaps`; workers and their Recast objects | discover, build tiles | `MoveMapBuild`; geometry: `TerrainBuilder` |
| The client's files | (external) | | | `GameClient` |
| The working directory | all four tools | the directories above | | `WorkDir` |
| The command line, faults | `extractors/src/main.rs` | the next commands | start, fault | `OfflineTools` |
| Recast and Detour | `src/thirdparty` | | geometry | not modelled |

How they interact: `main` accepts a connection, asks the tracker for a slot and
spawns a task that runs `handle_client` under a guard. Sessions share nothing but
the database and the realm list; a realm list request takes the list's write
lock, polls the table if the interval is over, releases it, takes the read lock
and copies the list. Game servers write the same database. The offline tools share
nothing but directories: the map extractor writes `maps`, the model extractor
`Buildings`, from which the assembler writes `vmaps`, and the generator reads
`maps` and `vmaps`.

What makes it hard: tasks on several threads drop guards while the loop admits;
each database statement is an await point, so sessions of one account interleave
between a check and its use and between counting a failure and reading the count;
the realm list is empty across an await; statements fail and most failures are
ignored; every socket operation may time out. The tools run for hours and write
their files in place, so that a killed run leaves files of every degree of
completeness, which the next run skips, rewrites or stumbles over.

## The modules

`ConnectionTracker` - one action per critical section or await-free stretch of
`main`. `Connect` is the kernel's queue; `Accept`, then `Admit` or `Reject`, are
one pass of the loop; `Serve` is the first poll of the task, from which on the
guard exists; `Finish` drops the guard. `per_ip` is a function whose domain is
the set of map entries, so a forgotten entry is visible. `Signal` sets
`stop_event` and reaches the `ctrl_c()` future only if one exists. `nofile` is the
number of descriptors the system leaves for client streams: `accept()` fails, and
leaves the client in the queue, while sessions hold them all.

`AuthSocket` - a session is a record with a program counter; a step is one
database statement or one socket write, with the code between them. Passwords are
model values: a proof matches exactly when its password is the one behind the
verifier the session loaded. Session keys are numbered. With `DbFaults` any
statement may fail, and takes the branch the code takes. `Drop` stands for a
timeout, a closed socket or a malformed message. The fields `fault`, `acctClean`,
`ipClean`, `made`, `via` and `old` (the keys already replaced when the reconnect
challenge arrived) and the variables `issued` and `vetted` (the keys of logons the
ban checks let through) record history for the properties and guard nothing.

`RealmList` - the RwLock is a queue of requests (tokio grants it in order). A
poll is two steps, the clear and the query's result, with the write lock held
between. Of the flags only OFFLINE is kept, and population takes two values,
which is all that the comparison of two polls distinguishes.

`RealmListPacket` - `load_realm_list` as an operator from a list, a build and two
security levels to a count and a function from listed realms to entries.

`OfflineTools` composes the four tools over one client (`GameClient`, external: what
the archives hold once parsed). A behaviour is a plan of commands; between any two
steps the running tool may be killed, and any of its writes may fail, which ends it or,
in a pool, the one file (`Fault`). `WorkDir` declares the directories the tools
share: each is a function from file names to how much of the file is there. `MapExtract`, `VmapAssemble` and `MoveMapBuild`
have a pool of `Threads` workers, which may also fail to be built (one worker then).
`VmapExtract` gives ids to instances and appends to `dir_bin` record by record; the
raw file of a WMO grows from an empty file (`stub`) over its header and its groups
to the two counts that are patched in at the end. A doodad is numbered when it is
placed, so its number depends on the model files there are by then. `VmapAssemble`
reads a raw file only when the groups its header announces are there and a group that
is flagged for liquid has some; it keeps the first
spawn of each id, drops those without a model, and numbers the rest for the tree.
`MoveMapBuild` finds the tiles as `discover_tiles` does, by the numbers at fixed places
of the names (a `.vmtile` name has none there), and tracks every object that a worker holds of Recast and Detour, with each stage failing or
not; it models the build with the `recast` feature.

`Conversions` takes one job at a time through the data conversions: a terrain tile
with its neighbours (`MapFile`, then `TerrainBuilder`, at a reduced size of grid), a
WMO or M2 model (`RawModel`, written and read back), or a set of boxes (`Bih`).
Heights are tenths of a yard, a packed height is rounded as the code rounds it.

Definitions named `X_Something` in front of a definition `X` are faulty variants
of it, each with the bug its comment states; they are not part of the
specifications. With one of them in place of `X`, the property it is meant for
fails.

## The runs

| Run | Instance | Shows |
|---|---|---|
| `connection_limits` | 4 connections, 2 addresses, 2 per address, 3 in all, 3 or 4 descriptors | counters equal the open connections and the map keeps no dead entries; limits hold; a refusal means a limit is really reached; the tracker implements `ConnectionLimits`; queued clients are answered if descriptors become free again and again |
| `ctrl_c` (violated) | 3 connections | a Ctrl-C that meets an accept is lost |
| `auth_bans` | 3 sessions, one account, maximum 2 | the maximum always leads to the ban and is passed by at most the sessions already challenged; a ban keeps a client out on both ways in; logons are on record before they are reported; a reconnect needs a key no other had replaced |
| `auth_sessions` | 2 sessions; no account, or one locked, broken or with authenticator; faults | with failing statements and address bans, bans keep clients out, unauthenticated sessions end |
| `auto_create_password` (violated) | 2 sessions, no account | the first password does not become the account's |
| `realm_list` | 2 requests, 1 realm, clock to 3, faults | no holes, fresh answers, silent realms stay offline until a poll fails; requests are answered |
| `failed_poll` (violated) | 1 request | one failed poll revives a silent realm |
| `idle_realm` (violated) | 1 request | a world server repeating its values is shown offline |
| `realm_packet` | every list of 1 or 2 realms | joinable realms are allowed ones; a player's packet |
| `realm_count` (violated) | the same | for moderators the count differs from the entries |
| `offline_tools` | 4 clients, 7 plans of up to 7 commands, 2 threads, one fault | what a successful run of each tool leaves on disk, with and without a fault before it; ids, indices and records agree between tools; workers free every Recast object they hold and no other, but for two early returns; the tools end |
| `conversions` | 3635 jobs | what each tool reads back is what the one before was given: offsets, heights, ground, liquid, cleaned meshes, WMO and M2 models, trees |

The five violated runs are the disagreements between the code and its messages,
comments or configuration file that modelling met; `PROJECT.json` quotes the
lines.

### Bounds, and why they are enough

Four connections with limits 2 and 3 let each limit be reached while the other
has room; with 3 descriptors `accept()` fails while three sessions run, with 4 it
always succeeds. Three sessions are one more than the wrong-password maximum of 2, so
that failures can overtake each other on both sides of the ban; `FailedCap` (5)
is above what `GuessesBounded` allows (4), so it does not hide a violation.
In `auth_sessions` the maximum and `FailedCap` are 1, because there the paths
matter and not the count. `MaxKeys` bounds the logons: 2 let one key replace
another between a reconnect challenge and its proof (`auth_bans`), 1 separates a
stored key from none (`auth_sessions`). `MaxTime` = 3 with
interval and timeout 1 leaves room for a poll that meets a write, one at the edge
of the timeout, and one beyond. Two requests are needed for one to poll while the
other waits. Symmetry of connections is used in `auth_bans`, which checks
invariants only. Deadlock is checked except for the tracker, which stops when the
process has ended.

For the tools the client has a WMO with doodads that stands in two tiles, the second
of which extracts the model of one of them, a WMO whose unique id is the index of an
M2's name, one that is a map of its own, one with a group whose liquid has no vertices, models of every kind the extractor distinguishes, and WDT and ADT
files that are missing, unreadable or of the wrong kind; each client has the plans
that its files make interesting. One fault is enough for every degree of
completeness of every file to be met by a later run; a second only adds runs that
are stopped again. Two threads and two parts of a tile let workers overlap and fail
in different stages. In `conversions` a tile has 2 by 2 cells of 4 by 4 squares (16 by
16 of 8 by 8 in the code), so that holes, cell borders, tile borders and corners all
occur; `ADT_CELL_SIZE` and `ADT_CELLS_PER_GRID` are constants of the modules. Deadlock is not
checked in these two runs: a plan, or a job, ends.

### Fairness

tokio polls every task that is ready: the accept loop when a branch is ready, a
spawned task, the ping task after its tick. `AuthSocket` assumes that the
database answers each statement, with success or an error, and that a session
waiting on its socket proceeds or is dropped, which `timeout_duration` around each
read and write provides. `RealmList` assumes that requests go on and that the
query returns; the code puts no timeout of its own on it. No client, operator or
world server is ever obliged to act. `accept()` returns, with a stream or an error,
when a client is queued; that it succeeds is not assumed: `QueuedIsAnswered` has the
hypothesis that descriptors become free again and again, as sessions may hold all of
them. For the
tools `ToolsFinish` assumes that a started tool and the workers of its pool are
scheduled, and that Recast returns; nobody is obliged to start a tool.

### What the tools do not guarantee

The properties of `offline_tools` and `conversions` state what holds; where the code
falls short of what one might expect, the property says so and the model has the
behaviour:

- M2 placements of tiles use the index of their name as id, so the assembler keeps
  one instance of a model per map, and a WMO whose unique id is such an index shares it;
- the doodads of a WMO that stands in two tiles are numbered anew in each, and more of
  them when a tile has extracted further models: one id then stands for two doodads, of
  which the assembler keeps the first;
- doodads whose name changes when it is normalised are looked up under a name that
  no file has, unless a tile lists the model too;
- a kill inside a WMO makes later runs use the unfinished file and lose its doodads;
  a kill after `dir_bin` was created makes every later run refuse to start; a camera
  that a kill or a failed write cut short is never rewritten;
- a model that cannot be converted or written is logged and left out, while its spawns
  are in the tiles;
- the names of `.vmtile` files are not the ones the generator parses, so tiles with
  models and no terrain are not built;
- a tile asked for by `--tile` outside the range of its map gets a place in the mesh
  that another tile has, and a failed allocation of the merged mesh or of its detail
  leaks the parts;
- a tile with one type of liquid everywhere, and any liquid with a `--min-height` other
  than -500, does not reach the movement map as the client has it; neither does the
  ground of a flat tile, which has no heights to read;
- a WMO group with a liquid chunk that has no vertices makes its raw file unreadable;
- a ban that comes after the challenge, or whose query fails, does not stop a session.

## The proofs

The runs check small instances; the theorems hold for every value of the constants
that satisfies the named assumptions. Six modules hold them, each beside the
component it is about:

| Module | About |
|---|---|
| `ConnectionTracker_proofs` | the tracker, and that it implements `ConnectionLimits` |
| `RealmList_proofs` | the lock, the list and the polls; the packet |
| `MapExtract_proofs` | the steps of the map extractor |
| `MoveMapBuild_proofs` | the steps of the generator |
| `VmapAssemble_proofs` | the steps of the model extractor and of the assembler |
| `OfflineTools_proofs` | the tools together; the theorems about them |

A theorem `Spec => []P` is proved from an inductive invariant: it holds initially,
every action preserves it, and it implies `P`. What the proofs of the offline tools use of
finite sets is stated in `SetFacts` and derived from the library in
`OfflineTools_proofs`.

### The tracker

For any connections, addresses and limits (0, no limit, included): `TypeCorrect` (no
counter leaves the naturals), `CountersAreExact`, `LimitsHold`, `NoLeakedSlots` (a
refusal happens only at a limit) and `Refinement`, the implementation of
`ConnectionLimits`. Assumed: `ConnsFinite`, `LimitsAreNat`, `DescriptorsAreNat`.

`IInv` joins the types, the exact counters and the limits with `QueueDistinct`: the
listen queue holds each waiting connection once and none that is served. Without it
`Accept` could take up a connection that is already counted. The limits are not
inductive without the exact counters, because the code compares counters and the
limits speak of connections.

### Realm list and packet

For any realms, requests, intervals and any clock: `TypeCorrect`, `NoHoles`,
`SilentRealms`, `FreshAnswers` and `LockIsNotLost` (whenever a request is under way one
of them can move). Assumed: `IntervalsAreNat`, `FaultsAreBoolean`. A poll spans two
steps, and while its query runs the old list is only in the locals of the poll; the
invariants speak of `Known`, the list wherever it is, and of the queue of the lock
(`QueueInv`), the order of the times (`TimeInv`) and what the last poll saved
(`SilentInv`).

For any lists that `update_realms` may make (`ListsTyped`): `JoinableRealms`, and
`PlayersPackets` for fewer than 256 realms, which is what fits in the byte of the 1.12
packet.

### The offline tools

For any client, any plan of commands, any number of kills and failed writes, of threads and of parts of
a tile. The assumptions say what a client is and that `None` is none of the values it
is told apart from: `ClientsFit` (lists, map ids of three digits, 64 by 64 tiles),
`ModelsAreNoWmos`, `ThreadsAssumption`, `PartsAssumption`, `FaultsAssumption`,
`PlansAssumption`, `NoneIsNoWdt`, `NoneIsNoDirectory`, `NoneIsNoMesh`.

| Theorem | States | Inductive invariant |
|---|---|---|
| `TypesCorrect` | no pool has more workers than threads; files are in states their readers know | the types of all tools, `ThreadsInv`, `StatesInv` |
| `MapsAreWhole` | what a successful map extraction leaves is whole | `DbcInv`, `CameraInv`, `ConvertInv`: what a run has come past in its lists is whole, or being written again; a camera file is whole unless the run found it there |
| `IndicesName` | an index in a tile or tree names its spawn | `DiskInv`: every file, of this run or of an earlier one, is what the assembler makes of what the extraction left |
| `ModelsConverted` | placed and listed models are converted | `MadeInv`, `VmoInv`: a wanted model waits, is being converted, cannot be read, or is converted; `DirInv`: what is recorded has its counts; `CountedInv`: a file cut between its counts is a WMO's |
| `AssembledTiles` | tiles and trees hold the ids recorded for them, and under an id of one thing that thing | `DiskInv`, `MadeInv`; `OrderInv`: no record of a tile comes before one of the global WMO of its map |
| `TerrainTilesTried` | a run over all maps tries every tile with terrain | `TryInv`: a map is still to do, was left out, or its tiles are tried or left |
| `MeshesReturned` | workers free what they hold, once | `HoldInv`: what a worker holds at each stage |
| `TilesFit` | tiles have places of their own in the mesh | `FitInv`: the parameters on disk are those of the tiles found |

What the assembler reads must stay as it is while it works and after it. That is
`Sealed`: an extractor that finds `dir_bin` refuses to start, so once something has been
recorded and no extractor runs, `Buildings` never changes again. `DiskInv` needs it: an
assembly may be stopped and run again, and files of both runs lie side by side.

Two theorems have a hypothesis:

- `AssembledTiles` is stated for clients whose jobs are a list in which the global WMO
  of a map comes before its tiles (`GlobalsComeFirst`). `parse_maps` makes such a list
  when Map.dbc has one record per map; that it does so in general takes induction over
  the fold that builds it. TLC checked it for the clients of the run.
- `TilesFit` is stated for command lines that name no map twice (`MapsNamedOnce`). When
  one does, the second pass writes the `.mmap` of the map again, and if that write fails
  the tiles of the first pass are left without a mesh.

`EveryTerrainTileIsTried` speaks of runs over all maps and of the `.map` files that
there were when the run began: for another plan of commands, a map extraction after
the generator adds files that nobody has tried.

`TerrainTilesTried` rests on the order of the fields in a file name, that what
`extract_maps` puts at digits 3 and 5 is what `discover_tiles` takes for the tile's y and
x (`MapName`, `MapTiles`); `IndicesName` on a fact about finite sets, that counting the smaller ids numbers the spawns without gaps
(`Objects`, `node_index`).

### Only model-checked

- Liveness (`QueuedIsAnswered`, `UnauthenticatedEnds`, `RequestIsAnswered`,
  `ToolsFinish`): fairness and `ENABLED` are out of the prover's reach.
- `OneIdPerInstance` and `ExtractedModelsAreRecorded`: they speak of the lists that
  `InTurn` and `SelectSeq` build, which takes induction over the data; the first also
  depends on the client's numbers.
- The properties of the sessions.
- Everything about `Conversions`: the conversions are recursive.
- The violated runs.

## What is not modelled

Start-up (it yields the initial states and the constants), logging, byte layouts of
the network messages, SHA-1 and HMAC, the database pool's size, numeric casts of
configuration values, the characters per realm in the packet, Recast and Detour.

Of the offline tools: the archive and DBC formats (the client's DBC files are taken
to be present and well formed); WMO files that are cut short; the chunk layout of
`.vmo` and `.vmtree` files, which the generator reads differently from how the
assembler writes them (hazards in `PROJECT.json`); off-mesh connections; the models
of transports and game objects, for which the generator only writes log lines;
`should_skip_tile`, which nothing calls; which maps the skip options mean (a constant
of the model). The reasons are in `PROJECT.json`, with the hazards this leaves open.

Smaller things met on the way that no property is about: `MaxPingTime = 0` panics the
ping task, and negative settings become huge limits when they are cast; a ban or its
lapse does not reset `failed_logins`; a client that closes before the error packet is
written is not counted; two sessions that create one account at once leave one client
with an unknown account; names of more than 10 characters log on and cannot
reconnect; `file_size` in `vmap_assemble.rs` leaves out four bytes of the liquid chunk;
an off-mesh line in the format of its comment is one token short; an error in writing
a `.mmtile` is ignored.
