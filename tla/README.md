# A TLA+ model of gdalcubes

gdalcubes builds data cubes from collections of satellite images: a directed graph of cube
operations, evaluated lazily chunk by chunk, on several threads (`chunk_processor_multithread`) or
on several machines (`gdalcubes_swarm`, `gdalcubes_server`). This directory holds TLA+ modules
translated from the sources, TLC configurations that check them on small instances, and theorems
about them that TLAPS checks for every value of the constants. Paths below are relative to the
repository; `src/` without more means its source directory.

    tlc -workers 2 -config MCChunkServer.cfg MCChunkServer.tla
    tlapm ChunkServerProofs.tla

## 1. The system

| Component | State | Operations | Interacts with |
|---|---|---|---|
| Chunk read service (`server.cpp`, `server.h`) | list and set of requested chunks, set of executing chunks, worker threads, five kinds of mutexes, condition variables for workers and per chunk; the cube store and its 16-bit counter | HTTP handlers start, download, status, cube, file, version, info; the worker loop | cache, cubes (`read_chunk`), factory, swarm clients |
| Server chunk cache (`server.h`) | map of chunks, byte count, two priority maps, priority counter | `add`, `get`, `has`, `remove`, `inc_prio` | called by handlers (get, has) and workers (has, add) at the same time |
| Chunk processors (`cube.cpp`, `cube.h`) | loop counters, threads, one mutex | `apply(cube, f)`, single- and multithreaded | call `read_chunk` of a cube and `f` of an export |
| Chunk geometry (`cube.h`, with `vector_queries.cpp`, `apply_pixel.cpp`) | size, chunk size | counts, ids, coordinates, limits, sizes and bounds of chunks; which chunk and which element a point is in | used by every cube and export |
| Exports (`cube.cpp`, `reduce.cpp`, `reduce_time.cpp`) | output files, per-slice mutexes | `write_netcdf_file`, `write_tif_collection`, `write_chunks_gtiff`, `write_gdal_image` | hand `f` to a chunk processor; netCDF and GDAL |
| Swarm client (`swarm.cpp`) | servers, cubes registered per server | `post_file`, `push_execution_context`, `push_cube`, `post_start`, `get_download`, `apply` | servers over HTTP |
| Temporal arithmetic, views (`datetime.h`, `view.h`) | dates, durations, cube extent | difference, addition, `nt`, `dt`, snapping | cubes, collections |
| Image collections (`image_collection.cpp`) | SQLite catalogue | `add`, `write`, filters, range queries | image collection cube |
| Image collection cube (`image_collection_cube.cpp`) | aggregation state per pixel | `read_chunk` | GDAL warping |
| Reducers (`reduce*.cpp`) | accumulators per pixel | `init`, `combine`, `finalize` | input cube's chunks |
| Window and fill (`window_time.cpp`, `fill_time.cpp`) | none beyond a chunk | `read_chunk`, which reads neighbouring chunks | input cube |
| Streaming (`stream*.cpp`) | environment of the process, one static mutex per operator | `read_chunk` through a child process | operating system |
| Pixel and band operations | none | `read_chunk` | input cube |
| Cube graph and factory (`cube.h`, `cube_factory.cpp`) | parents and children, shared space-time reference | creation, `set_st_reference`, JSON round trip | all cubes, swarm |
| Progress bars (`progress.h`) | a counter, a mutex | `set`, `increment`, `finalize` | chunk processors |
| Batch image operations, point queries | strides over threads | conversion, overviews, `query_points` | GDAL, OGR |
| Configuration, errors, file system, utilities; command line; vendored code | – | – | – |

### What is hard, and what makes each part correct

* **Service.** Handlers search the cache, the set of requests and the executing set without locks,
  one after the other, while workers move keys between them; workers and downloads wait on
  condition variables without predicates. Correct: a chunk that was accepted is never lost; a stale
  entry never hides a chunk nobody computes; a worker never takes from an empty list; a chunk is
  announced only when it can be delivered; what is accepted is computed; whoever waits is answered.
* **Cache.** Calls overlap, counters are narrowed and wrap, eviction needs two maps to agree.
  Correct: memory stays within the limit, a successful `get` returns a chunk, the victim is the
  least recently used chunk, a call ends.
* **Chunk processors.** Strides, failures inside threads, joining in order. Correct: each chunk is
  processed exactly once or its failure is seen; `f` is alone in its critical section; `apply`
  returns, after its threads; both implementations do the same.
* **Geometry and exports.** Rows are flipped between cube and image, boundary chunks are smaller,
  offsets are computed in five places, threads share output files. Correct: ids and coordinates
  are bijective, chunks partition the cube, every pixel of an output stands where its coordinates
  say, nothing written is lost.
* **Swarm.** Requests are lost or fail, servers differ in speed, files exist already. Correct: every
  chunk is fetched once by somebody, from a server on which it was started.
* **Collections and algorithms.** Sequential, with boundaries: leap days, last cells, windows that
  span chunks, empty accumulators. Correct: they agree with a definition over the whole cube,
  whatever the chunk size; catalogue changes are all or nothing.
* **Graph.** A changed reference reaches every descendant and nobody else; a cube created from JSON
  is the cube that was written.

`PROJECT.json` lists the hazards line by line, each with the properties that would catch it.

## 2. Modules

| Module | Models | Built on |
|---|---|---|
| `ChunkService` | what the server promises: accepted chunks stay pending until finished, finished ones stay available | – |
| `ChunkServer` | handlers and worker threads, statement by statement | refines `ChunkService` |
| `ChunkServerProofs` | inductive invariant, theorems, the refinement | `ChunkServer`, `ChunkService` |
| `ChunkCache` | `server_chunk_cache` under concurrent calls | – |
| `ChunkCacheProofs` | inductive invariant, theorems, the limit | `ChunkCache` |
| `ForEachChunk` | what `chunk_processor::apply` promises | – |
| `ChunkProcessor`, `ChunkProcessorSingle` | the two implementations | refine `ForEachChunk` |
| `ChunkProcessorProofs` | theorems, among them the refinements | `ChunkProcessor`, `MCChunkProcessor` |
| `ChunkGeometry` | the pure arithmetic of chunks | – |
| `ChunkGeometryProofs` | lemmas and theorems about it; what the proofs about whole cubes share on folds, sequences and finite sets | `ChunkGeometry` |
| `ChunkExport` | the four exports and what they leave in files | `ChunkGeometry` |
| `ChunkExportProofs` | theorems: every pixel in its place, and nothing missing | `ChunkExport`, `ChunkGeometryProofs` |
| `Reducers` | accumulators of the reducers | – |
| `CubeOperations` | `read_chunk` of reducers, windows, gap filling, expressions, filters, band operations | `ChunkGeometry`, `Reducers` |
| `Streaming` | operations that run external processes, on threads | `CubeOperations` |
| `CubeOperationsProofs` | theorems about operations and streams | `Streaming`, `ChunkGeometryProofs` |
| `CubeTime` | dates and durations with units | – |
| `CubeView` | extent and cells of a cube, and its setters | `CubeTime` |
| `ImageCollection` | the catalogue of images | – |
| `CollectionCube` | a collection, a view and the cube over both | `ImageCollection`, `CubeView`, `ChunkGeometry` |
| `CollectionCubeProofs` | theorems about the catalogue, views and what is read | `CollectionCube`, `ChunkGeometryProofs` |
| `Swarm` | the client of several servers | refines `ForEachChunk` |
| `SwarmProofs` | inductive invariant, the refinement, and what `f` is called with | `Swarm` |
| `MC…` | small instances for TLC | the module of that name |

Every module that is checked by mutation holds the plausible bugs next to the definitions they
alter, with a comment "Mutant:"; they are part of no specification.

### ChunkServer

One element of `Handlers` is one HTTP request, with any kind and key (`req`); `hpc` says where it is
and `hreply` what it has answered. One element of `1..MaxWorkers` is an entry of `_worker_threads`;
`wkey` is what a new thread captured, or the key it reads. `queue`, `queued`, `executing`, `cache`
and `chunkCond` are `_chunk_read_requests`, `_chunk_read_requests_set`, `_chunk_read_executing`, the
keys of the cache and the keys of `_chunk_cond`. Mutexes are not variables: one is held by the thread
whose program counter lies between lock and unlock (`RequestsHeld`, `ExecutingHeld`, `CacheHeld`,
`ThreadsHeld`, `WorkerCondHeld`). The mutex of a chunk's condition variable serves waiters only, as
the notifier never takes it.

| Code | Actions |
|---|---|
| start | `Arrive`, `StartHas`, `StartQueued`, `StartExec`, `StartLockThreads`, `StartSize`, `StartSpawn` or `StartLockCond`, `StartPush`, `StartNotify` |
| download | `Arrive`, `DownloadHas`, `DownloadQueued`, `DownloadExec`, `DownloadLoop`, `DownloadWait`, `DownloadSpurious`, `DownloadGet` |
| status | `Arrive`, `StatusHas`, `StatusExec`, `StatusQueued` |
| worker | `WorkerLockPush`, `WorkerPush`, `WorkerLock`, `WorkerHead`, `WorkerLockExec`, `WorkerTake`, `WorkerRead`, `WorkerAdd`, `WorkerAdded`, `WorkerLockErase`, `WorkerErase`, `WorkerNotify`, `WorkerWait`, `WorkerSpurious`, `WorkerWoken` |

A search that is not locked may run while another thread restructures the container, which C++
leaves undefined. The model takes the benign outcomes: such a search finds a key that is there or
misses it (`Misses`). Crashes end every behaviour and are left out. The cache always has room here;
what happens when it has not is `ChunkCache`.

### ChunkCache

Each of `Threads` makes one call. `AddHas` is unlocked; `AddLock`, `AddRoom`, `AddInsert` are the
stages of `add`; `RemoveCall`, `RemoveLock`, `RemoveErase` those of `remove`, which `add` enters
while it owns the mutex; `GetHas` is unlocked, `GetTouch` renews the priority under the mutex, and
`GetFetch` reads the map after the unlock, where `operator[]` inserts a null pointer for an absent
key. `inc_prio` wraps at `PrioMax` and renumbers; `% PrioMod` is the narrowing to 32 bits. `uses` is a history variable:
the keys in the order in which `add` and `get` used them, so that "least recently used" is said without the priorities.

### ChunkProcessor, ChunkProcessorSingle

The caller is `Spawn`, `Spawned`, `Join`, `Joined`; a thread is `Test`, `ReadOK` or `ReadThrows`,
`Lock`, `Unlock`. `outcome` chooses beforehand which chunks throw, so that the two processors can be
compared on the same chunks: `MCChunkProcessor` runs the single-threaded one after the other. What
`f` does under the mutex is one critical section; exports that lock once per band have several of
them in a row. An exception after the lock is not modelled: the exports throw nothing there.

### ChunkGeometry, ChunkExport

A cube is a record of sizes per dimension and a chunk size; cell (0, 0, 0) is the earliest, bottom,
left one, while row 0 of buffers and images is at the top. Buffers and images do not hold numbers but
the cell a number belongs to, so a wrong offset shows as a wrong cell. `ChunkExport` is what up to
`nthreads` threads do inside `f`, with chunks in any order: `PutVara` (netCDF), `WriteSlice` (the two
GeoTIFF exports, slice by slice), `GdalOpen`/`GdalWrite`/`GdalClose` (`write_gdal_image`), `Skip`
(the chunk is empty or failed) and `WriteFails` (a status that is ignored or a warning).

netCDF and GDAL are external. `nc_put_vara` writes a box. A GDAL dataset opened for update caches
blocks: writing part of a block loads all of it from the file, and closing writes it back. A block is
one row here, as in a striped GeoTIFF.

### Reducers, CubeOperations, Streaming

A chunk is a size and a flat buffer, as in `chunk_data`; a chunk without data has size 0. `cube` is any
input: what its cells hold and which of its blank chunks come back empty is chosen in `Init`, `op` is the
operation with its arguments, and the one action `ReadChunk` reads a chunk of the result. `reduce_time`,
`reduce`, `reduce_space`, `window_time`, `fill_time`, `apply_pixel`, `filter_pixel`, `select_bands` and
`join_bands` are the functions `read_chunk` of these cubes compute, with their accumulators, series and
indices; the loops are folds. An expression is not evaluated: its value is a record of what it was
given. Values are multiples of 60, so that means and medians of few values are exact integers; `sd` stays
a square. The properties compare every element with a definition over all cells of the input that knows of no
chunks.

`Streaming` adds the threads of a chunk processor and the state they share: `env` (the environment of the
process), `files` (the streaming directory), `child` (what a started process got of `env`). A call of
`read_chunk` is `Begin`, `Lock`, `SetId`, `SetIn`, `SetOut`, `Spawn`, `ChildEnds`, then `Collect` or `Abandon`. The
static mutex of an operation is held between lock and unlock; the pipe variant has none.

### CubeTime, CubeView, ImageCollection, CollectionCube

`CubeTime` is `datetime.h` on a calendar whose day, week and months have constant lengths: `Minus`, `Plus`,
`Convert` and `Written` (what survives `to_string` and `from_string`). `CubeView` holds the setters `set_nt`,
`set_dt`, `set_dx`, the JSON round trip `rewritten`, `map_time`, `cube_time` and `default_view`. Space has one
dimension.

`ImageCollection` keeps `db` (images, the files of each image and band, bands, metadata), `handle` (memory or
a file, which every statement commits to), `filename`, `saved` (files on disk) and `adding` (what is left of a
call of `add`): `StartAdd` expands subdatasets, `AddNext` is one file with all its reasons to be refused, to throw
or to conflict, so that a crash can come between two files. `Write` and `WriteFails` are `write`, `Reopen` is the
constructor on a file after the process has ended. `unwritten` is a history variable for one property. SQLite is
external: constraints, rowids and `ON DELETE CASCADE` are modelled as the schema states them.

`CollectionCube` composes them: a collection is worked on, a view is made and changed, a cube is opened with a
chunk size, an aggregation and a mask, bands are selected, the collection is worked on again, and chunks are
read (`ReadChunk`, which throws if a file is gone). `read_chunk` selects the images of the chunk's bounds, puts each
into its slice and updates the aggregation in the order of ids. GDAL's warping is external: an image has one
value per band inside its extent.

### Swarm

`caller` runs through `apply`: `Head` and `Upload` per file and server, `PostCube` and `StoreCube` per server,
`PostStart` per chunk, `Spawn`, `Join`. A thread downloads (`Download`) and calls `f` (`Apply`). A server is what
its clients see: `disk`, `cubestore` with the counter `cur_id`, `done`; it reads started chunks (`Read`), may fail at
any moment (`Fail`), and another client uploads files (`OtherFile`) and registers cubes in two steps (`OtherCubeId`,
`OtherCube`), as the code takes the id and stores the cube under different mutexes. What is downloaded is one of
"right", "stale" (read from files that differ from the client's), "foreign" (another cube) and "error" (any
answer but the chunk, which the code parses like one). `ChunkServer` is the inside of one of these servers.

## 3. Runs

States are distinct states. `server_liveness`, `operations`, `collection` and `swarm` take one to three minutes, the others seconds.

| Run | Instance | Shows |
|---|---|---|
| `server_safety` | 3 requests of any kind on 2 chunks and an invalid key, 2 workers; handlers symmetric; 142 232 states | `AcceptedNotLost`, `QueuedBacked`, `ExecutingBacked`, `FrontExists`, `CachedBeforeAnnounced`, `TypeOK`, and that `ChunkServer` implements `ChunkService` (`ServicePromise`) |
| `server_liveness` | all combinations of 3 start/download requests on 2 chunks with a start among them, up to renaming; 2 workers, fair; 56 005 states | `AwakeWorkerDrains`: while a worker is awake, what was accepted gets into the cache; `AnnouncedDownloadAnswered`: who waits when its chunk is announced gets it, or one of the unlocked searches on the way coincides with an insertion |
| `server_recompute` | violation | two start requests both pass the searches and the chunk is read twice |
| `server_notfound` | violation | a chunk in the list but not in the set is answered with 404 |
| `server_lost_wakeup` | violation, fair | a download waits for a notification that has been |
| `cache` | 5 calls, 3 chunks of sizes 4, 1, 1, limit 5, counters wrap and narrow at 4; 406 196 states | `WithinLimit`, `GetReturnsChunk`, `ForwardBacked`, `VictimIsOldest` (what `add` evicts is cached, and every other cached chunk was used since), `TypeOK` |
| `cache_eviction` | violation, fair | an `add` that must evict waits for itself |
| `processor` | 5 chunks, 3 threads, any chunks fail; both processors; fair; 23 567 states | `AtMostOnce`, `ReturnedComplete`, `SameChunks`, `Returns`, `LoopSpec`, `SingleLoopSpec`, `TypeOK` |
| `export` | cubes of up to 4 chunks from 3 size/chunk-size pairs per dimension, 4 formats, 1 or 2 threads; 15 920 states | `RightPlace`, `NothingMissing`, `ChunksPartition`, `PointsFound`, `VariablesAgree`, `TypeOK` |
| `operations` | series of 4 slices with every pattern of gaps and two values, every chunk size, any blank chunks empty; cubes of 2 bands up to 3 × 3 × 2 cells with partial chunks; all operations; 2 threads that stream; 126 882 states | `ReduceAgrees`, `SeriesAgrees`, `BandsAgree` (every operation agrees with a definition that knows of no chunks), `OwnOutput` (a process gets its own chunk), `TypeOK` |
| `collection` | 4 images in 7 files, one smaller than the first of its image, and 5 files that are refused, 3 operations on the collection, 3 views with changes, 7 settings of chunk sizes, aggregations (all but `none` and `count_images`) and masks, one file; 213 239 states | `ReadsAgree`, `FilterTransparent`, `RemoteAgrees`, `ViewCells`, `TypeOK` (integrity of the catalogue) |
| `swarm` | 4 chunks, 3 servers of which one may fail and one is shared, 2 threads, 1 file, 2 ids, 3 cubes; 2 613 146 states | `OwnChunks`; `LoopSpec`: the client implements `ForEachChunk` over the chunks some thread fetches |

**Bounds.** Three requests and two workers: every race found in the service is between two requests
and a worker, or a request and two workers, and the third request lets a later one observe the
outcome. Two chunks distinguish mine from another's. `server_notfound` uses one worker, the default
of `server_worker_threads_max`, which is the shortest way to a list that grows while all workers are
busy. `server_liveness` has no status requests, which change nothing, and no combination without a start, in which
nothing waits. Five cache calls allow two adds, a get of the older chunk and an add that must evict the other one, where
least-recently-used and first-in-first-out differ, and one more; with a limit of 5 and sizes 4, 1, 1 two threads can add a
small chunk at once, and the large one makes room run out, as every chunk counts twice. Counters of 4 leave room for three
uses in order, and make renumbering and narrowing happen with the fourth and fifth, which take 2^64 and 2^32 calls in the code. Five chunks and three threads have
strides of unequal length. The shapes of `export` have chunks that divide the cube, partial chunks at
the boundary, chunks larger than the cube and single cells, in each dimension; the theorems need no
bounds. `NothingMissing` excludes `write_gdal_image` with more than one thread, see below.
Series of four slices have chunks of one to four slices, so that windows of up to six slices and gaps span two and
more chunks, empty ones among them, and reach over both ends of the cube. The calendar of `collection` has days of two ticks,
weeks of two days and years of a month of three days and one of two: months have unequal lengths, weeks do not
fit months, and the images lie in one month, on the border of weeks and months, and in the next year. Three
operations suffice for add, filter and write in any order, before and after a cube is open, and for a crash in the middle of
an add that was written before. Two servers with a thread and one without, one that fails and one that is shared show
each hazard of the swarm; two ids wrap around when the other client registers two cubes, which takes 2^16 in the code.

**Where a property stops.** The code does not keep these promises in general, and the properties name the
conditions under which it does:

* `AnnouncedDownloadAnswered` ends where a search that takes no lock coincides with an insertion (`SearchDisturbed`). The worker may miss the
  condition variable of a chunk while a download of another one enters its own in `_chunk_cond`, and a download that was woken may miss its
  chunk in the cache while another worker adds one (`server.cpp:107`; requests to start k1, start k2 and download k1 are enough). The
  download then waits for a notification that has been. The first case needs two downloads that wait for different chunks, both started,
  which is one request more than the run has.
* `AwakeWorkerDrains` speaks of chunks accepted while a worker is awake. A chunk pushed after a worker found the list empty and before it waits
  (`server.cpp:288-291`) stays until the next request: the code loses that notification, and no property claims otherwise.
* `ForwardBacked` and `VictimIsOldest` end when priorities no longer fit the narrowed type or the counter is reset, and with clients that call `remove`;
  `VictimIsOldest` also after a chunk was added twice at once, which leaves two priorities for it. There is no order to rely on from then on.
* `OwnChunks` allows what the code cannot prevent: an error in place of a chunk, chunks read from an older file of the same name on the server,
  and chunks of another cube once ids have wrapped around.
* `SeriesAgrees` is about windows over one band and chunks with data: the index of `window_time.cpp:196` advances
  per band, every band gets the window of the first (line 230), and slices of an empty chunk are not counted. The window maximum starts at
  `numeric_limits<double>::min()`, the smallest positive number, and a median over a window with NaN sorts NaNs.
* `BandsAgree` leaves out chunks whose first input in `join_bands` is empty: the second is copied over the bands of the first (`join_bands.cpp:49`).
* `ReduceAgrees` leaves out inputs of one slice (one cell for `reduce_space`), which are handed through as they are, with all
  their bands and under no reducer (`reduce_time.cpp:464`). For `var` and `sd` it speaks of cells whose means, and those of
  any part of them, are whole (`WholeMeans`): Welford's algorithm divides doubles, the model integers, and only then they agree.
* `OwnOutput` needs a program in which only one operation streams files: mutexes are per operation (`stream.cpp:190`).
* `ReadsAgree` needs a view that starts at the beginning of a unit, or a single chunk in time: chunk bounds are dates, slices are
  units, and images between the two are lost. `count_images`, `count_values` and `none` depend on how files and chunks are laid out.
* `RemoteAgrees` ends with a failed `write`, which leaves the new name behind without a file (`image_collection.cpp:549`).
* `FilterTransparent` claims nothing of images after the end of `filter_datetime_range`: the end never applies (`image_collection.cpp:659`).
* `ReadsAgree` also needs the files of an image to lie in the extent of the first (`WithinExtent`): the code keeps that one
  (`INSERT OR IGNORE`, `image_collection.cpp:434`), and a chunk outside of it does not find a later, larger file.
* `LoopSpec` of `Swarm` is about the chunks of the servers that have a thread (`ServerOf(c) < NThreads`); the chunks of the others are
  started and never fetched (`swarm.cpp:282`), against the loop over all chunks that `chunk_processor::apply` promises (`cube.h:170`). If the
  swarm itself is the default chunk processor, as the command line makes it (`gdalcubes.cpp:301`), there is one thread.

**Deadlock** is not checked in any run: handlers, calls, `apply` and exports come to an end, and
workers wait for ever when no request comes; the new instances bound the operations.

**Fairness.** The operating system runs every thread: weak fairness of the steps of a handler, a
worker, a caller, a thread. A mutex that is released again and again is granted in the end: strong
fairness of the locking steps, which `std::mutex` does not promise in words and every implementation
under a preemptive scheduler provides; without it a busy worker might starve a handler for ever. No
fairness for spurious wakeups: a condition variable may return without notification and need not.
In `ChunkProcessor` weak fairness is enough, as only finitely many calls wait for the mutex.

### Where code and comments disagree

1. `server.cpp:242` "if already in queue, executing, or finished, do not compute again": the searches
   are not atomic with the insertion (`server_recompute`).
2. `server.cpp:101` "if not in queue, executing, or finished, return 404": line 304 fills the list
   and not the set (`server_notfound`).
3. `server.cpp:281` "notify waiting download requests": the download searches before it locks and
   waits without a predicate, so the notification is lost (`server_lost_wakeup`).
4. `server.h:94` "remove it from the data": `add` calls `remove` with the mutex locked
   (`cache_eviction`).

Seen while reading or experimenting, besides the conditions listed above: `write_gdal_image` with
several threads loses blocks, because every thread updates the same file through a dataset of its own
and only the calls are locked (take `Lossless == TRUE` and `NothingMissing` fails);
`stream.cpp:167` multiplies a limit by the chunk size once more;
`cube_factory.cpp:75` makes a `reduce_time` cube for `reduce_space`;
a download that is woken can miss its chunk and wait for ever, because it searches the cache again without a lock while another
chunk is added, and `_chunk_cond` has no lock at all (see `AnnouncedDownloadAnswered` above).

## 4. Proofs

All theorems hold for every value of the constants, from the assumptions named in the modules:
`ServerAssumption` (valid keys are keys, `NoKey` is none, the number of workers is natural),
`ProcessorAssumption` (at least one thread), `ExportAssumption` (sizes are positive), `SwarmAssumption` (numbers are
positive, shared and unreliable servers are servers), `CacheAssumption` (sizes and limit are natural, keys are
finite and there are no more keys than priorities, of which the code has 2^64 - 1), `CubesAssumption` (sizes are positive, there is
a band, which holds numbers and gaps, `NaN` is no number, and chunks that come back empty hold no value), `OperationsAssumption` (an
operation names the bands it uses and reducers the code knows, of which only `reduce_time` has `which_min` and `which_max`; a window
reaches a natural number of slices back and ahead),
`CalendarAssumption` (days, weeks and months have a length), `FilesAssumption` (memory is no file name; what GDAL finds of a file is
a date or none, and for an image an extent whose left end is left of its right end) and `CubeAssumption` (a view as `cube_view::read` makes it:
a window and dates in their order, dates in the unit of the duration; and durations, numbers and chunk sizes that are not 0, by
which the code divides; aggregations the code knows; and values of files that are numbers or NaN, which is none). Windows, extents and cells have an even length in both, as the setters widen windows by halves, which integers
must be able to express.

**ChunkServerProofs.** `IInv` adds to the safety properties what makes them inductive: `Exclusive`
(what the mutexes guarantee, needed because the list is tested under one lock and popped under two),
`Created` (there is a slot for the thread about to be created, because tested and used under one
mutex), `KeyAtWork`, `FrontInv` (the list stays nonempty from the test on) and `Started` (a handler
that notifies has pushed its key). `Invariance` is one step per action; `TypeCorrect`,
`AcceptedStarts`, `QueueBacksSet`, `WorkerBacksSet`, `AnnouncedIsCached`, `FrontAlwaysExists` follow. `Implements` is the refinement
of `ChunkService`: only `StartSpawn` and `StartPush` make a key pending, only `WorkerAdd`, when it finds the chunk, and
`WorkerAdded` finish one, and every other step leaves the pending keys as they are, whoever carries them.

**ChunkCacheProofs.** Until a reset the priority counter is the number of uses on record (`Counted`), so new priorities are larger than all
others (`Newest`), and the priority of a chunk is the place of its last use in the record: the use there is of
this chunk and none after it is (`Recorded`), and the cached chunks are those that have a priority, each of which somebody added (`Prioritized`).
If no chunk was added twice the second map has no entry that the first does not have (`NoneStale`). The least priority is then the place of the use after which every other chunk was used again
(`VictimOldest`), which is `OldestChosen`: nothing in it would hold if `get` did not renew priorities.
A call that waits in `remove` on behalf of `add` owns the mutex, so nothing moves between the choice of a victim and its
eviction, and nothing is taken out of the cache while only `add` removes, because its eviction waits for itself. `NoNullChunk`,
`PrioritiesAgree` and `TypeCorrect` follow.

`LimitHolds` is about the sum of the sizes of the cached chunks, which is not the byte counter `add` tests: that one may exceed the limit.
`SumOf` and its lemmas derive what a sum is from the recursive function that defines it: a function with its equation exists up to every cardinality (`Sums`), as a smallest one for which there is none
leads to a contradiction, and so adding and taking away a key add and take away its size. `Room` then
strengthens `WithinLimit`: the counter is never less than what is cached (`add` counts a chunk twice, and what is there already
again), and a call about to insert still has the room it saw, because it has held the mutex since.

**ChunkProcessorProofs.** One arithmetical fact: the strides `t + k * NThreads` of different threads
are disjoint and cover all chunks. The invariant says a thread has completed, or failed, exactly the
chunks of its stride below its counter. `NoChunkTwice`, `NoneLeftOut` and
`TypeCorrect` follow, and `Implements` maps every step to a step of `ForEachChunk` or a stutter. `SingleImplements` does the same
for the single-threaded processor, and `ProcessorsAgree` compares the two, run one after the other on the same chunks: one that returns
has processed the same chunks as the other, and one that ends with an exception a part of them, though they meet failures in different orders.

**ChunkGeometryProofs.** Ids are numbers in a mixed radix: `CoordsOfIdOfCoords` and
`IdOfCoordsOfId` say that ids and coordinates determine each other. For one dimension, limits and
size of chunk `i` follow from `i < Ceil(n, s)`; `QueriedCell` and `OnlyChunk` combine the dimensions:
a cell is in the chunk found for it, at the queried element, and in no other.

**ChunkExportProofs.** `RightPlace` alone is not inductive, since closing a dataset copies what it
holds to the image: `IInv` says the same of the open datasets. Per format, `StartOf` is shown to be
the pixel of the chunk's first element; the clamped row of `write_gdal_image` needs that only a
topmost chunk can be smaller. `EverythingInPlace`, `Partition`, `PointsAreFound`, `VariablesAreRight`
and `TypeCorrect` follow.

`EverythingExported` needs the other half: which elements were written (`Complete`). Writing
elements adds their pixels and no others (`DrawnSet`), cells and pixels correspond (`PixelsAndCells`), and only steps that are
done are skipped. For a GDAL image with one thread, `DatasetCurrent` says that at most one dataset is open and that outside of
its chunk it holds what the image holds; this is what fails with several threads.

**SwarmProofs.** Arithmetic first, as Z3 knows little of `%` by a constant it does not see: `DivMod`, `Multiples` and `OneServer`
say that quotient and remainder are unique, `NextOfServer`, `GapOfServer` and `FirstOfServer` that the chunks of a server are
those a thread steps through. `IInv` says that thread `t` is at chunk `k[t]` of server `t` and that `f` was called for exactly
the chunks of the server before it, that nothing is downloaded before threads are created, and that the caller returns after them. `Implements`
maps every step to a step of `ForEachChunk` or a stutter, for any failures and any other client.

`ROwn` adds to `IInv` what explains an answer: files are sent in order, so when threads exist all servers have
files of all names; ids in use are ids that were given out, and the id of our cube names our cube until ids wrap; and
what explains a wrong chunk (an older file, a counter that has wrapped) is never taken away. `ResultsExplained` follows.

**CubeOperationsProofs.** A chunk is a flat buffer, so the first part is arithmetic: an index has one band, one slice and one
position (`Layout`, `IndexIs`), and the index an operation computes for a neighbouring slice or band is that of the cell it
means. `RInv` says that what was read is what the function of the operation returns, for a cube with the shape its
chunks have. `TypeCorrect` needs the size of every result, operation by operation, whatever was accumulated into it. `BandsCorrect`
follows element by element; joined bands need that both inputs have the same chunks, and that an empty one holds no value.

`SeriesCorrect` is about chunks of one place in space, of which a window and a filled gap need several. They are a column (`ColumnIds`,
`RowChunk`, `RowOrder`), and every slice has one position in one of them (`PosOf`). The model builds a window as the code does, from
the chunks before its own, from its own and from those after it, each of which writes where the last one stopped; `PutBackwards`,
`PutOwn` and `PutForwards` say after each part which slices are there, and `WindowSeriesIs` that in the end all of them are.
`fill_time` walks through the slices of a chunk with the positions of the previous and the next value; `FillHolds` is the invariant of
the walk (`FillStarts`, `FillSteps`): these are the nearest values there are, in whatever chunk (`BackFinds`, `OnFinds`), and what lies
behind is filled from them. Both are folds over functions that are defined by recursion, so each needs its equation first
(`FoldExists`, `SeqFoldExists`, `FillChainExists`): a smallest argument without one leads to a contradiction.

`ReduceCorrect` is about accumulators that are fed by one chunk after the other. A fold over chunks of folds over values is first turned into a
sequence of accumulators (`AddFold`, `TimeFold`, `BandsFold`, `SpaceFold`). `AccIs` says what an accumulator is after some of its cells, for
each reducer: their number, sum or product, the least or greatest value and the first date that has it, the list of the median with the values one
each (`Arranged`), and for `var` and `sd` the mean and the sum of squares about it. `AccStep` adds one cell; for Welford's algorithm this is
the identity in `NewSquares`, which needs that the sum of squares about another mean is known (`DeviationShift`). `Finished` compares what is
left in the end with `Reduced`, an aggregate of a set of cells: sums do not depend on an order (`TotalIs`, `ProductIs`, `DeviationIs`), and the
elements of a list by rank are the values of the cells by rank (`SortedIsRanked`, `MedianIs`). What remains is which cells an accumulator gets
(`Listed`, `Covered`, `Staged`): each once and, where dates matter, in their order. In time these are the slices of one pixel, from the chunks of its
column (`TimeCovered`, `TimeAccsEnd`, `BandAccsEnd`); in space the cells of one slice, from the chunks of one row, where a cell is met in the
chunk that `find_chunk_that_contains` names and nowhere else (`SpaceRow`, `FoundInRow`, `SpaceCellsAre`, `SpaceAccsEnd`). A chunk that comes back
empty adds nothing, and had no values.

`OwnOutputReturned` is about threads. `StreamInv` has mutual exclusion per operator (`Exclusive`), and, if only one operator uses files, that
the names a thread has set are its own (`OwnNames`), that nobody else writes the files it reads (`OwnFiles`) and that results come from
there (`OwnResults`); for what a process finds in its environment no other operator may run at all (`OwnIds`), since pipes take no mutex.

**CollectionCubeProofs.** First the calendar: where months begin, that the difference of two dates in a unit is a number of cells
and that adding cells and counting them are inverse (`Diff`, `Later`), for months of any lengths and dates before and after the epoch.
For a view, `nt`, `set_nt` and `set_dt` follow, with the cells `map_time` and `cube_time` give.

`CubeInv` is the inductive invariant, and `InvAlways` that it holds: the catalogue is `Sound` in memory and in every file, the file behind a
connected collection has all of it (`HandleSound`), and what is left of an `add` names bands that have been described (`AddingSound`), all of which
`TypeOK` needs after a crash and a reopening; a view has dates and a window in their order (`ViewSound`), from which `ViewsCover` follows;
a cube is chunked by the numbers of its cells (`CubeSound`), and a chunk that was read is what the catalogue still gives, as chunks are dropped
when something changes (`ChunkSound`). `TypeCorrect` says that the catalogue keeps its integrity.

What is read is a fold over a set of images. The function behind such a fold has its equation because a smallest set for which it had not
leads to a contradiction, as for `LimitHolds`. `FiltersTransparent` then compares two catalogues: a filter keeps the rows that the query of a
chunk finds (`KeptHits`) and the bands of the cube (`KeptBands`). `RemoteReads` compares two cubes: the view that was written and read again has the
same cells (`RewrittenAligned`), and as it has all bands of the catalogue, it finds images which the cube with selected bands does not. Those
have nothing in the bands of both, and `update` passes over images without data (`PassedOver`), for all aggregations but those that
count and `none`.

`ReadsCorrect` is the claim of the cube: a chunk, read on its own, has what the whole catalogue says of its cells. It holds for the views (`Aligned`) and
files (`WithinExtent`) of section 3 and not beyond them, where images are lost. It has three parts.
The first is time: `read_chunk` counts slices from the start of its chunk, a date, while `cube_time` counts them from the start of
the view. The two agree for dates after the start of the chunk (`DiffFromLater`, `SliceIs`), and an image of a slice of the chunk is
after its start if the view begins with a unit (`UnitsAfter`, `CellsBegin`). The second is the search: an image that is found contributes what the
catalogue has of it (`FoundHas`), and one that has a value in a cell is found by the bounds of the chunk (`HasFound`), which is where `WithinExtent` is
needed. The third is the aggregation, a loop in the code and a set in the definition: `FoldStep` and `FoldIs` say what the state is
after some of the images, `TotalAny` that a sum does not depend on the order (`SumFunction` takes one of its own), and
`ArrangedStep` and `FoldList` that the list of the median has the values of the images, one each. Its middle element is then the value that
has as many below as above: there is one value of each rank (`RankExists`, `RankUnique`), a list has the ranks of its values
(`SameRanks`), and the ranks in the middle are the bounds of the values in the middle (`MiddleOdd`, `MiddleEven`).

Some definitions were made stricter for these proofs. `update` had overlapping arms of a `CASE`, whose meaning TLA+ leaves open, and
now has disjoint ones; the aggregation of a pixel folds over the set of images in the order of their ids instead of a sorted sequence of
them; and the medians of cubes and reducers take elements by their rank, as `SortSeq` takes an operator, which the prover cannot expand.

**Model-checked only.** Liveness (`AwakeWorkerDrains`, `AnnouncedDownloadAnswered`, `Returns`), which is beyond the prover, and the violations.
Every invariant and every refinement checked by the passing runs is a theorem.

## 5. Not modelled, and plan

Abstractions inside the modelled parts: crashes that follow from data races; the whitelist and the
HTTP library; an exception of `read_chunk` in a worker, which terminates the process; concurrent
insertion in the map of mutexes in `write_tif_collection`; packing, attributes, overviews, COG and VRT
files; a failing `GDALOpen` or `RasterIO` in `write_gdal_image`; statements of `add` that commit one by one for a single file
(image, description of bands, reference, metadata: `image_collection.cpp:434`, `469`, `478`, `513`), which `AddNext` makes one step, so that a crash comes between two
files and never inside one; the ignored result of `sqlite3_backup_step` (`image_collection.cpp:562`), after which an incomplete copy becomes the
collection, while `Write` copies everything or fails when it opens the file; uploads of one name that overlap, as the server tests for a file and opens
it in two steps (`server.cpp:188`, `201`), while `OtherFile` is one; 32-bit overflow of the number of chunks; leap years
and the parsing of dates; the second spatial dimension of views and collections, which repeats the first; projections; the time labels
and the byte layout of streamed chunks; rounding of doubles.

Not modelled: the cube graph and factory (construction of objects; how a view reaches derived cubes is `derived` in `CubeView`),
progress bars, batch conversion of images and zonal statistics (calls of GDAL and OGR), configuration, and the command line. Never: GDAL, netCDF,
OGR, SQLite, HTTP, tinyexpr and JSON themselves, formatting, argument parsing, getters and setters, and the vendored libraries.

Next, in this order:

1. **Cube graph**: a reference shared by several cubes and changed by `write_netcdf_file`, labels of streamed chunks, and the lock of
   progress bars.
