# cvkit: specifications, model checking and proofs

This directory holds TLA+ modules for the C++ library cvkit (in `src/`), the
TLC configurations that check them on small instances, and theorems whose
proofs TLAPS checks for every value of the constants. Paths and line numbers
are those of the repository; `PROJECT.json` maps every definition to the lines
it models.

cvkit reads media (images, video, GStreamer streams), runs neural networks on
it (TensorRT or ONNX Runtime behind one backend interface), and turns tensors
into results (detections, keypoints, masks, depth...). A `Model` binds a
backend session, a task pipeline and labels together; a `TaskGraph` is the
order in which the nodes of a pipeline process a packet; one process-wide
thread pool runs asynchronous calls.

## 1. Inventory

For each part: its state, its operations, what makes it hard, and what makes
it correct. The status is that of this project, not of the code.

| Part (source) | State | Operations | Status |
|---|---|---|---|
| Executor (`infer/executor.cpp`) | deque, stop flag, threads | submit, worker loop, destructor | modelled, proved |
| Task graph, order (`infer/graph/graph.cpp`) | nodes; during the sort: indegrees, FIFO of ready nodes | add_node (two forms), boundary, execution_order | modelled, proved |
| Task graph, runs (`infer/graph/graph.cpp`) | one thread and one future per node and packet; output and scratch of the packet | run_sync, submit_packet, `PacketFuture::get`, the in-tree nodes | modelled, proved |
| Model (`infer/model.cpp`) | session, pipeline, labels, thresholds, tile options, shared trace | load, load_labels, setters, run_sync, submit, last_graph_trace | modelled, proved |
| Tile runner (`infer/tile_runner.cpp`) | windows, per-tile results, canvas | windows, cropping, tiled run, merges | modelled, proved |
| Media source (`media/source.cpp`) | open flag, status, queue of the appsink, pulled samples | open, read (host, device), close | modelled, proved |
| Media writer (`media/writer.cpp`) | status, frame count, limit | open, write, close | modelled, proved |
| TensorRT session (`infer/backends/tensorrt`) | engine, context, buffers, stream, cache files | load, run, run_async | partly, without the dimensions of profiles; proved |
| ONNX session (`infer/backends/onnxruntime`) | session, io names | load, run | modelled |
| Detection pipeline (`infer/tasks/detection`) | scratch inside the packet | prepare, inference, finalize | modelled; agreement, schema, greedy selection and reads proved |
| Promptable segmentation (`infer/tasks/promptable_segmentation`) | scratch, embeddings | encode, prompt, decode, finalize | modelled; agreement, schema and reads proved |
| Classification, segmentation, pose, facemesh, face detection (`infer/tasks`) | none | run_sync | modelled; schema and reads proved, for faces the greedy selection too |
| Non-maximum suppression (`infer/utils/nms.cpp`, `bbox.cpp`) | none | nms, overlap | modelled, proved |
| Tensor files (`infer/utils/tensor_io.cpp`) | the file | save, load | modelled, proved; debug output and labels not |
| Image and tensor helpers, kernels (`infer/utils`, `*.cu`) | none | layouts, copies, scaling | partly: geometry, not pixel arithmetic |
| Registry (`infer/registry.cpp`) | none | schemas, factories | partly: the schemas |
| Example programs (`examples`) | frame counts | the video loops | partly: the loops, proved |
| Background model, CUDA image wrappers | per-pixel state | | not modelled, see section 8 |

### How the parts interact

`Model::run_sync` runs the graph (or, for large frames, the tile runner, which
calls the pipeline once per tile) in the caller's thread and stores the
graph's trace. `Model::submit` copies what it needs out of the model, clears
the trace, and hands a task to the executor; the task does what `run_sync`
does and stores the trace from a pool thread. A graph built for a pipeline
calls the backend through nodes; some nodes answer through a future of their
own (`supports_async`). `TaskGraph::submit_packet` does not use the executor:
it starts one `std::async` thread per node.

The nodes of a task pass a packet on: its output grows, its scratch carries
the letterbox, the raw outputs or the embedding from one node to the next. The
same pipeline can be called in one piece, as the tile runner does. A backend
session is called by several threads; a TensorRT session keeps them apart with
a mutex and shares its engine files on disk with other processes. The example
programs read frames from a `Source`, hand them to a model (a device frame
without a copy: frame and input share the owner of the sample) and write them
with a `Writer`.

```
caller --run_sync--> Model --> TaskGraph.run_sync --> nodes --> backend
   |                   |  \--> run_tiled_sync --> pipeline, per tile
   |--submit--> Model -+--> Executor (deque, workers) --> the same, later
   |--submit_packet--> TaskGraph --> std::async links --> nodes
program --read--> Source <--appsink queue-- streaming thread
   |--run--> Model ... |--write--> Writer
TrtSession --load--> engine files <-- other processes
```

### What is hard

- **Concurrency.** Notifications after the mutex is released, submit against
  the destructor, tasks that outlive the model, one trace shared by all calls,
  a chain of threads of which only `previous.get()` keeps the order.
- **Failure.** Nodes, tasks and backend futures that throw; `std::async`
  without a thread in the middle of the chain; loads that fail half way.
- **Ordering.** Repeated node names, keys and names that give several edges
  between two nodes, cycles through both; the trace stored before the future
  is ready.
- **Boundaries.** Clamped tile sizes and overlaps, the tail tile, frames whose
  data is shorter than their size, layouts guessed from the shape of a tensor,
  the way of a box through a letterbox and back.
- **Crashes and shared files.** Engines and tensor files are written in place;
  a process may die between any two writes, another read in between.
- **Time.** A read gives up after fifteen seconds although the stream goes on;
  a frame on the device outlives the source it came from; a device executes
  copies long after the call that asked for them has failed.

Every one of these is a hazard in `PROJECT.json`, at the line where it bites,
with the properties that would catch it going wrong.

### What makes each part correct

- *Executor*: no accepted task is lost, run twice or left unresolved; tasks
  start in the order of submission; nobody sleeps next to work; destruction
  drains the deque and comes to an end.
- *Graph order*: the answer is a topological order of the dependencies by name
  and by key; it is empty only where there is none to give.
- *Graph run*: a packet is in one node at a time, in that order; what comes
  back is complete; failures travel to the caller; every wait ends.
- *Model*: a result never mixes two loads; the trace is that of a call which
  returned; every call is answered even when the model goes first.
- *Tiles*: every pixel covered, nothing read outside the data, merged results
  in their place, an object seen by several tiles reported once.
- *Media*: status, open flag and info agree after every mix of calls; samples
  are released exactly once and never under a task; frames are handed out and
  written in order; every program comes to its end.
- *TensorRT*: a session runs on a whole engine of a version the model had
  during the load; a policy that forbids it touches no file; a call returns
  what its own inputs give and never waits for ever.
- *Pipelines*: all ways of running a task answer alike; detections come back
  where the objects are; nothing is read beyond a tensor; outputs keep their
  schema; a tensor file gives back what was saved or nothing.

## 2. Modules

| Module | Models | Extends / instantiates |
|---|---|---|
| `TaskService` | what the executor promises: acceptance, order, completion, closing | |
| `Executor` | mutex, condition variable, workers, destructor | instance of `TaskService` (refinement) |
| `Graph` | nodes, dependencies, topological orders, refusals | |
| `GraphOrder` | add_node, boundary, execution_order step by step | `Graph` |
| `SequentialRun` | a packet through its nodes one by one | |
| `TaskGraph` | run_sync and submit_packet | `Graph`, instance of `SequentialRun` (refinement) |
| `Model` | the public object and its calls | `TaskService` as its executor |
| `Tiles`, `TileAxis` | clamping and the loop of `tile_axis_starts` | `TileAxis` extends `Tiles` |
| `Tiling` | the tiled run, crops, merges | `Tiles`, `Suppression` |
| `Suppression` | non-maximum suppression | |
| `MediaSource` | a source over OpenCV or GStreamer, the appsink, device samples | |
| `MediaWriter` | a writer | |
| `MediaClient` | any calls on one source and one writer | `MediaSource`, instance of `MediaWriter` |
| `VideoLoop` | the loops of two example programs, or the client | `MediaClient` |
| `EngineCache` | load of a TensorRT session over shared files | |
| `TrtSession` | calls of the session | `EngineCache` |
| `TaskValues` | images, tensors, inputs and outputs | |
| `Yolo`, `Faces`, `HostTasks`, `Promptable` | the tasks around their models | `TaskValues`, `Suppression`; `Promptable` also `OrtSession` |
| `OrtSession` | the contract of an ONNX Runtime session | `TaskValues` |
| `Detectors` | detectors that see what is in the frame (external) | `Yolo`, `Faces` |
| `TaskRun` | one task through pipeline, nodes, asynchronous nodes | `Detectors`, `HostTasks`, `Promptable` |
| `EmbeddingFile` | saving and loading a tensor file | |
| `ExecutorProofs`, `ModelProofs` | theorems | their module and TLAPS |
| `TaskGraphProofs` | theorems of the order and of the runs, and that they fit together | `TaskGraph`, `GraphOrder`, TLAPS |
| `SuppressionProofs` | theorem of the suppression | `Suppression`, TLAPS |
| `TilingProofs` | theorems of the axis and the tiled run | `TileAxis`, `Tiling`, `SuppressionProofs` |
| `MediaProofs` | theorems of source, writer and loops | `VideoLoop`, TLAPS |
| `TrtProofs` | theorems of the engine files and of the calls | `TrtSession`, TLAPS |
| `PipelineProofs` | theorems of the pipelines and of the tensor file | `TaskRun`, `EmbeddingFile`, `SuppressionProofs` |
| `MC...` | instances for TLC; `MCTaskGraph` holds `GraphOrder` and `TaskGraph`, `MCTiling` holds `TileAxis` and `Tiling`, `MCPipelines` holds `TaskRun` and `EmbeddingFile` | |

They compose in three ways. `Model` uses `TaskService` instead of the threads
of `Executor`: `Executor` is shown to implement it, so whatever `Model` relies
on is kept by the pool. `TaskGraph` starts from any order in `ExecutionOrders`,
and the theorem `RunsStartFromTheOrder` shows that `execution_order` returns no
other; likewise `Tiling` uses `AxisStarts`, which `LoopComputesStarts` shows to be what
the loop returns. And `VideoLoop` and `TrtSession` extend the modules of what
they use, so that their steps are steps of the source, the writer or the cache.

### How state and actions correspond to the code

**Executor.** A critical section is one action, what happens outside the mutex
is another. `SubmitAccepted`/`SubmitRefused` are the locked part of `submit`,
`NotifyOne` its `notify_one`, which comes after the unlock. `Block`, `Exit` and
`Take` are what a worker does when it holds the mutex; `Finish` runs the
packaged task, whose value or exception goes into the future.
`SpuriousWakeup` and `WakeOne` (any waiter, or nobody) are the condition
variable. `RequestStop`, `NotifyAll` and `Destroy` are the destructor; members
are destroyed only after the join, and a task still queued then would have a
broken promise (`"broken"`), which `ShutdownDrains` excludes.

**GraphOrder.** `AddNode`, `AddNodeDependingOn` build `nodes_`; then
`execution_order` is `Reject` (duplicate producer, missing dependency),
`Prepare` (the indegrees and the first ready nodes), `Pop` (one turn of the
loop) and `Return`. `ready` and `sorted` are the FIFO and the result. An edge
carries the name or the key it is there for, because the code increments `indegree` once
for each: two nodes may be joined by several edges. A name that stands twice in
one `depends_on` list, or a key twice in one `consumes`, is one edge in the
model.

**TaskGraph.** `caller` is where the call on a packet is, `turn` its loop
counter, `link[p][k]` the `std::async` task at position *k*, `value[p][k]` the
packet as it leaves that position (its trace; the payload is abstracted).
`LaunchFails` and `Unwind` are an exception of `std::async`: the destructors
of the futures wait for the links before. `SubmitNode`, `NodeAnswers`,
`Collect` are nodes with `supports_async()`.

**Model.** Sessions are named by the load that made them, labels by the load
before which they were read, so a mixture is visible. `snapshot` is what a call
copied. `load`, the setters and the destructor are actions that need the model
for themselves, as for any C++ object with non-const members: they never
overlap a const member but do overlap tasks in the pool. `recent` is a history
variable. A tiled run over data shorter than the frame stores an empty trace
and returns an empty output; `stage = "untraced"` and `"unstored"` are that.

**Tiling.** A pixel of the frame is its coordinates, so a mask or a detection
tells which part of the frame it shows. The merge cannot tell a tile without an
answer from one whose answer is an empty list: both are `Absent`. `Build` is
`build_tile_windows` with `crop_frame`, `RunTile` one turn of the loop in
`run_tiled_sync`, `MergeTile` one turn of a loop in `merge_tile_outputs`:
`paste_mask_tile`, or the translation of detections and points by the origin of
the window. What a tile answers is computed from the pixels it shows: the
bounding box of what is visible of each object.

**MediaSource.** A sample is named by its number; `alive` are those with a
reference, `mapped` those with a mapped buffer, `held` who owns which.
`Arrive`, `StreamEnds` and `StreamFails` are GStreamer's streaming thread. A
read that finds nothing, because the stream is over or the time limits passed,
is one action (`ReadHostNothing`, `ReadDeviceNothing`): nothing tells the two
apart in the code but the error on the bus. Each `Read...` is a whole call. A
failed conversion leaves its frame in `passed`, a history variable.

**VideoLoop.** `pc` is the place in the loop of `run_video` or of
`video_gpu_detection`; `ReadNext`, `OpenWriter`, `WriteFrame` contain the
actions of source and writer. `Client` is the user who calls anything in any
order, for the properties of source and writer alone.

**EngineCache.** `pc[p]` is where the load of process *p* is. `TryNext` asks
for freshness, `ReadPlan` reads: another process may open the file for writing
in between. `WriteBegins` cuts the file, `WriteEnds` is its last byte; `Stop`
kills a process anywhere. `Build` names the file after the time the build took,
as the code does, so a model replaced meanwhile gives its name to an engine of
the old one: `disturbed` records it and `NoStaleEngine` excludes it openly.
Sessions of the new model are then restored from the engine of the old one; the
hazard is listed without a property.

**TrtSession.** `stage[c]` is where call *c* is in `run_sync`; `bound` are the
addresses in the execution context, `stream` what the device still has to do,
`memory` whose data a buffer shows. `Fail` is any error return, `Unwind` the
destructors in their order: the device buffers, whose release waits for the
device, then the lock, then the outputs.

**TaskRun.** A scene fixes the input, the build, the model and what it answers;
the ways to run the task follow each other on fresh packets, `results` keeps
what each returned. `PrepareDetection`, `BackendAnswers` and
`PostprocessDetection` are the three nodes; with `"pipeline"` they are the parts
of `DetectionPipeline::run_sync`. The other tasks are one action each, a
function of the input (`HostTasks`, `Faces`, `Promptable`). Coordinates and
scores are whole numbers and the scale of a letterbox a fraction, so that the
way there and back can be compared exactly on a grid the scale keeps whole.
A detector is external, but what it is shown is not: `frame_to_mat_copy` takes
the bytes of a frame for packed rows of one channel or three, so `ShownPixel`
computes which pixel of the matrix shows which pixel of the frame, and a detector
answers the boxes around what it sees of each object there (`SeenIn`). For rows
that are packed that is the object (`CopySeen` in `PipelineProofs`); with padding,
or with two or four channels, it is elsewhere.
`inside` says whether all that was read so far was there: of a frame that is
copied its bytes (`FrameInside`), of a tensor the elements at the places the
decoder computes (`YoloReads`, `FaceReads`, `MaskReads`, `PointReads`,
`LogitReads`).

**EmbeddingFile.** `Open` cuts the file, `Spill` is a piece that reaches the
disk, `Return` is `output.good()`, which comes before the last pieces.

**Slips.** Operators commented `slip:` are plausible mistakes in the
definition that follows them (a dropped guard, a swapped order). No
specification uses them. Put in place of the definition, each makes TLC find
one property violated: the properties can tell the code from its mistakes.

## 3. Runs

| Run | Question | Distinct states | Bounds |
|---|---|---|---|
| `executor` | Is the pool a `TaskService`; does everything accepted end? | 47,233 | 3 submissions, pools of 1 to 3 threads |
| `task_graph` | Is the order right for every small graph; do both ways of running a packet keep it, end, and agree? | 635,578 | order: up to 3 nodes, 3 names, 3 keys; runs: 6 graphs of up to 4 nodes, every order, every subset of asynchronous nodes, 1 packet |
| `model` | Are results and traces attributed correctly; is every call answered? | 265,150 | 2 calls, 2 loads, 2 changes of options or labels |
| `tiling` | Are the starts right, also for refused and clamped arguments; are crops in the data, masks and detections in place, duplicates gone? | 2,198,884 | axes: lengths to 14, tiles and overlaps from -1 to 8; frames to 5 by 4, data missing, padded, or on the device; 3 objects, 4 tasks |
| `media` | Do status, counts and samples agree; do the programs end with the right file? | 271,699 | videos of 3 frames, queue of 2, 2 calls of open, 5 samples, 2 writes |
| `tensorrt` | Is an engine ever stale or a policy broken; do calls keep apart and end? | 284,616 | 2 processes, 2 loads, 1 replacement of the model; 2 calls |
| `pipelines` | Do all ways of a task agree, in place, inside the data? | 191,479 | the scenes of `MCPipelines`: some 5,600 combinations of inputs, builds and answers |
| `task_graph_trace` | finding (section 6) | | the graph of the test with explicit dependencies |
| `tiling_padded` | finding (section 6) | | a padded image |
| `tensorrt_profiles` | finding (section 6) | | two profiles, no calls |
| `pipelines_padded` | finding (section 6) | | the scenes with a padded image |
| `media_status` | finding (section 6) | | those of `media` |

`task_graph`, `tiling` and `pipelines` each hold two halves that share no
behaviour: the order and the runs, an axis and the tiled runs, the tasks and the
tensor file. What joins the halves is proved (`RunsStartFromTheOrder`,
`LoopComputesStarts`).

Why these bounds are enough to be interesting:

- *Executor*: with three tasks and three threads there are lost-wakeup
  candidates (two wake-ups on their way to one sleeper), a busy, a sleeping and
  an exiting worker at once, and a submit on either side of the stop flag. The
  settings include unset, 0, and an unknown hardware count, which give 2.
- *Graph order*: three nodes are enough for repeated names, double edges by
  name and key, a key with two producers, self-consumption, and cycles through
  names, keys, or both. Names and boundary keys are as general as that.
- *Task graph*: packets share only the nodes, which a run does not change, so
  one packet shows what many would; four nodes give a diamond and links that
  are several hops from the failure.
- *Model*: races over the trace are between pairs of calls; two loads are an
  old session and a new one; two changes allow labels before, between or after
  them, and settings that send a call to the tiles or not.
- *Tiles*: 14 pixels hold all alignments of a tile of up to 8 with the end of
  the axis. The theorems remove the bound. Three objects are two of one class
  that overlap, across the edge of a tile, and one of another class.
- *Media*: three frames hold a first one that is the preroll as well, one in
  the middle that does not convert, and one of another size; a queue of two
  (four in the code) makes the streaming thread wait; two calls of open are a
  source and what follows it while a sample of the first is still held.
- *TensorRT*: two processes are a writer and a reader, or two writers; one
  replacement gives an old and a new model, made newer or older than the plans.
  Two calls compete for the context; they are looked at after one load, because
  where an engine came from makes no difference to them (`CallPolicies`,
  `Loaded`).
- *Pipelines*: images of each format, on each device, padded, short or absent;
  builds with and without CUDA and its kernels, working or failing; tensors of
  every shape a decoder distinguishes, for two classes and up to nine rows, also
  so few rows that the YOLO decoder takes them for attributes; images of four
  channels, of which a matrix is made as if there were one. The
  sizes 1024 and 256 of the promptable models and 640 of SCRFD are constants of
  the modules, small here.

Deadlock is not checked where the system may stop: after the pool is
destroyed, every packet is back, every call is answered, the function has
returned, the bounded calls are used up, or every way of a task has run. What must go on is stated by the liveness properties instead.

## 4. Properties

Executor: `EachTaskOnce` (a pending future has exactly one carrier),
`NoLostWakeup` (work conservation with notifications outside the mutex),
`ShutdownDrains`, `EventuallyDestroyed`, `ImplementsService` (refinement with
fairness: whatever is accepted is completed).

Graph order: `ResultIsTopological`, `EmptyMeansUnorderable` (both
directions: a refusal has a reason and a reason gives a refusal),
`ChainRunsInOrder`.

Task graph: `OneNodeAtATime`, `ReturnedIsComplete` (with the numbers of the
trace), `EveryPacketEnds`, `ImplementsRun` (refinement: in dependency order).

Model: `TraceIsRight` (of a call that ran through, there when all have their
results, a lone caller's own), `NoMixedResult`, `EveryCallAnswered`.

Tiles: `EveryPixelTiled`, `TilesDistinctInside`, `OverlapKept`,
`ReturnsAxisStarts`; `CropsInsideData`, `MaskInPlace`, `DetectionsMerged`.

Media: `SamplesAccounted`, `StatusAgrees` (which lets a source that delivers
keep the status of an earlier read, see `media_status`), `FramesInOrder` (an action
property; only the first frame of a GStreamer source may come twice),
`WriterAgrees`, `WrittenAsRead`, `DeviceMemoryLives`, `LoopEnds`.

TensorRT: `NoStaleEngine`, `PolicyKept`, `ResultOfOwnInput`,
`NothingFreedInUse`, `EveryCallReturns`.

Pipelines: `SameResult`, which names the two cases in which the code's ways
differ; `FoundInPlace`, `KeptAreGreedy`, `ReadsInsideData`, `SchemaKept`,
`LoadedIsSaved`. `FoundInPlace` leaves out, in `Decodable`, what the code
cannot decode or is not shown: rows with all coordinates up to 2 (taken for
fractions of the input); YOLO outputs with so few rows that their layout is
guessed the wrong way round; plain face rows of a scaled frame, face rows the
other way round whose layout cannot be told from their shape, and face boxes by
centre that are larger than their centre; and images with padded rows or with two
or four channels, of which the matrix shows every row but the first in another
place. For padded rows `FoundInPaddedRows` says what the documents promise, and is
violated (section 6). `ReadsInsideData` has two hypotheses, which the code
does not check: `ImagesAreWhole`, that the rows of an image do not overlap, nv12
is given one channel, and a raw frame has all its bytes (`opencv_utils.cpp:6-17`
wraps what it is given); and `MasksAreWhole`, that the decoder's masks have the
size `build_mask_frame` reads (`promptable_segmentation_pipeline.cpp:181`). That
a tensor has as many elements as its shape says is not checked by the YOLO
decoder either: the model takes it from ONNX Runtime and from the detectors.

The type invariants of the executor, the graph order, the task graph, the model,
the tile axis, the tiled run and the source are proved, on their own or inside
the inductive invariants. No run checks a type: the runs spend their time on
the properties above.

### Fairness, and why the code justifies it

All fairness is weak.

- *Executor*: a started thread keeps running (each worker's loop, a caller
  between unlock and `notify_one`, a destructor that has begun). A task ends.
  Nothing is assumed of submit calls, of the start of the destructor, or of
  spurious wake-ups.
- *Task graph*: a call that has begun and a started `std::async` thread keep
  running, and a node (or the future it answered with) comes to an end in one
  way or another. `get()` and dropping a `PacketFuture` are the program's
  choice. `std::launch::async` starts a thread, so no link waits for a `get()`.
- *Model*: a call that has begun goes on; the executor starts the first task in
  line, which is the fairness of `TaskService` and is shown of the pool by
  `ImplementsService`; a task ends.
- *Media*: the program takes its next step; a read ends at the latest with its
  time limits, so nothing is assumed of the streaming thread.
- *TensorRT*: the thread of each call goes on, and the device executes its
  stream. Nothing is assumed of who gets the mutex next, of other processes, or
  of the caller who drops outputs.

## 5. Proofs

All theorems are proved from the named assumptions on the constants in their
modules, which TLC also evaluates: finite sets of tasks, packets and processes,
a pool of at least one thread, nodes, media and engine files of the right shape,
integer arguments, and for the merge objects that have pixels. For the promptable
task, `ScenesAssumption` says that a scene has the members the code reads and
that what ONNX Runtime returns are tensors on the host with as many elements as
their shape says; nothing is assumed of their values, order, names or number. It
also gives images, shapes, tensors and objects the types they have in C++ (whole
numbers, not negative where they are `size_t`), and so does `SizeAssumption` for
the sizes a detector falls back to. Two keep the
names apart that a model gives to things the code cannot confuse:
`ModelAssumption` (no snapshot is also an error) and `SessionAssumption` (no
call is also a buffer). Nothing is assumed of how many tasks,
nodes, packets, calls, loads, frames, samples, processes, tiles or objects there
are beyond that.

The proofs have one pattern. A property is seldom inductive, so each module
names an invariant that is, as a conjunction of parts; TLC checked it on the
instances of section 3 before it was proved. One lemma per action shows that it
is kept, one more that it implies the property, and the theorem combines them.

**Executor** (`ExecutorProofs`). `TypeCorrect` comes first; it also shows
that the number of threads never falls to zero. `EachTaskOnce` is not inductive
by itself: `Accounting` adds `ShutdownDrains` (exited workers imply an empty
deque for good) and `Lifecycle` (a task that was never submitted has no future,
a running worker has a task, the stop flag and the destructor agree, nothing
outlives the join), and `AccountingStep` proves it one action at a time.
`TasksAccounted` and `ShutdownIsClean` follow. `WakeupsSuffice` is inductive on
top of `Accounting`, with cardinalities of the sets of checking workers and
notifying callers: what `Append` adds to the deque, the notifying caller adds
to the right-hand side; what `Take` removes, the checking worker gives back;
what a notification removes, the woken worker replaces. `FuturesSetOnce` proves
the action property, and `PoolImplementsService` the safety part of the
refinement: initial states map to initial states, and every step to a step of
`TaskService` or a stutter.

**Graph order** (`TaskGraphProofs`). The inductive invariant `OrderInv` is the
type, `LoopInvariant` and `IndegreesExact`. The heart is `PopStep`: when a node
leaves the queue, the edges it loses are exactly the decrements, so a node
whose indegree reaches 0 is queued once and not again. `TopologicalIsAcyclic`
and `FullLength` give both directions of `EmptyOrderIsRefusal`: a loop that
runs dry early leaves a set of nodes each of which waits for another in the
set. `ChainsKeepTheirOrder` is for graphs built by `add_node(node)` alone.
`KeysComeInOrder` relates the order to `boundary()`: a node finds each key it
consumes outside, at a node before it, or nowhere. `RunsStartFromTheOrder` joins
the two halves of `graph.cpp`: what the sort returns is in `ExecutionOrders`,
from which `TaskGraph` takes the chain that it runs.

**Task graph** (`TaskGraphProofs`). `RunInv` says of each packet: links start in
the order of the chain and a link is in its node only when all before it are
done (`ChainInv`); a link that is done has in its packet exactly the entries of
the positions up to its own (`ValueInv`); where the caller is fixes how many
links there are (`CallerInv`). That no two links are in their nodes at once
follows from the first, completeness from the second. That all links before a
finished one have finished is an induction along the chain, made with a least
counterexample (`ChainOrder`). `PacketsRunNodeByNode` is the safety part of the
refinement of `SequentialRun`: `Reached(p, n)` says how far a packet is, `View`
that the abstract state is a function of it, and one lemma per kind of step
that it moves one node on or stays.

**Model** (`ModelProofs`). `LoadInv` and `CallInv`: the labels in use are of the
session in use, and a snapshot is of one load, whence `ResultsAreNeverMixed`.
The trace needs three parts: a trace is of a call that ran so far
(`TraceOfTraced`); without a trace some call that ran has stored none yet
(`SomeoneUntraced`), because `submit` clears it before its own call stores one;
and while only one caller is at work the trace is his (`LoneInv`). Nothing is
needed of the executor but `TaskService`, so with `PoolImplementsService` the
result holds over the pool.

**Tiles** (`TilingProofs`). `AxisInvariant` says that the starts so far are
sorted, at most one step apart, and cover everything up to the end of the last
tile. Coverage, distinctness, overlap and the bound on the loop variable follow
for all integers. `Multiples` adds that the starts are the multiples of the
step; `RoundedUp` is the arithmetic of the division in the closed form, and
`LoopComputesStarts` follows.

**Suppression** (`SuppressionProofs`). `ByScoreSorts` shows that ranks sort, for a
total order on positions, so equal scores keep their places; `SelectsOneMore`
that one turn of the loop keeps the selection greedy; `SuppressionIsGreedy`
concludes for any candidates with whole scores and any threshold.

**Tiled run** (`TilingProofs`). `TilingInv` says that the windows are those of
`BuildTileWindows` (`WindowsInv`), that each answer is that of its tile or
absent (`AnswersInv`), and that after *m* tiles what is gathered is the mask, or
the detections, that these *m* tiles show of the frame (`MergeInv` with `MaskOf`
and `DetectionsOf`, for packed frames). `WindowsInside` with the crop's check of
the data gives `CropsStayInside` for every stride. `PackedCrop` is the
arithmetic of a row-major crop, `MovedPixels` that a bounding box moves with its
pixels, so `DetectionTranslated`: what the code gets by moving a detection is
the detection of what the frame has there. `DetectionsRight` joins that with
`SuppressionIsGreedy`.

**Media** (`MediaProofs`). `SourceInv` joins `StatusAgrees` and
`SamplesAccounted` with the fact that the streaming thread and the bus belong to
an open GStreamer source, and that the frame handed out last is the last one
taken from the stream, but for a preroll (`LastIsLatest`): with it each step
reads on in order (`FramesInOrder`). `WriterInv` is the writer's limit and
count. `LoopInv` carries both through the loops: at each place of `run_video`
the file is a prefix of what was handed out, of a length the place tells
(`WrittenSoFar`), and the sample of the other program is the one it pulled last,
held by it and by the task (`FrameHeld`).

**TensorRT** (`TrtProofs`). For the files: a file with a fingerprint in its name
holds nothing but plans of that version, or a torn one (`FilesInv`), and a
process has at each place of its load what it needs to keep that so
(`Searches`, `FreshLegacy`, `Builds`, `Writes`, `Runs`). As in the property,
both are conditional on `disturbed`: a model whose time is set back, or that is
replaced during a build, is a case the code does not tell apart. For the calls:
`SessionInv` says that who is between lock and end holds the mutex, that the
stream holds only operations of that call, each of which finds its input when
its turn comes, and that a buffer shows the call's input or will when the
stream has run (`Shows`). The mutex is what makes it inductive, and the release
of the buffers waiting for the device what keeps freed memory out of it.

**Tensor file** (`PipelineProofs`). `LoadedIsSaved` alone is not
inductive: what a load may find depends on what saving left behind. `FileInv`
adds `OneOwner` (all values in the file belong to the embedding it was last
opened for, and the header says how many there should be) and `SaverAtEnd` (as
many have arrived as the saver has sent). One lemma per action shows that it is
kept; `LoadsWhatWasSaved` follows for any set of embeddings of any size.

**Pipelines** (`PipelineProofs`). `RunInv` says what a packet's scratch holds at
every stage (`ScratchInv`) and that each result is the one its scene and its way
determine, with fields that fit the schema (`Result`). For detection that is the
answer of the model to the request the input gives (`DetectionResult`), or no
candidates when there is no request, which is where the graph and the pipeline in
one piece part. For the promptable task it is what the scratch of one run gives
(`PromptedResult`), so the two ways differ only after a failure of the combined
model's decoder (`RunFails`, `DecoderFails`: any other failure leaves nothing
to hand out). The longest part is `SplitAlike`: the encoder's run, its embedding
handed to the decoder under a name of its own, and the decoder's run give what
one combined run gives. It rests on three facts: the embedding put at the end of
the inputs is the one that is found (`FindAppended`) and hides no other
(`FindOther`); the first output that is kept is the same in both
(`FirstKept`); and a model binds its inputs by position, so the name of the
first makes no difference (`FirstNameIgnored`). Its hypothesis is that the
caller gives no item named `image_embeddings`: with one of another type the
combined run encodes, while the decoder's run finds the caller's item first and
fails. `WaysAgree` and `OutputsFit` follow from the invariant, for any scenes.

`DetectionsAreGreedy` needs `KeptInv` besides: the candidates can be put in
order (`Scored`: a sequence whose scores are whole numbers), and detections are
`NonMaximumSuppression` of them. The decoders list the rows they take by rank
(`CandidatesFrom`), so a candidate is a row of the tensor and its score an
element of it (`YoloScored`, `FaceRowsScored`; `ScrfdScored` for the heads of
SCRFD). That a tensor which reaches a decoder has whole elements starts at the
frame: the size of the image, the letterbox, the shape of the request and what a
detector answers to it, of whatever it sees (`SeenWhole`, `RequestWhole`,
`DetectorTensorWhole`).
`SuppressionIsGreedy` does the rest.

`NothingReadOutside` makes `ReadsInsideData` inductive with `RunInv`. `FrameFits`
is the arithmetic of rows: a matrix of packed rows needs no more bytes than the
layout of the image requires, padded or not. `CellInside` is that of
a row and a column, from which follow the YOLO layouts of two and three
dimensions, transposed or not (`DetectorInside`), face rows
(`FaceElementsInside`), masks (`MaskInside`) and landmarks (`PointsInside`). For
the promptable task `RunMask` says that the logits are one mask of an output of
a decoder, in whichever way the run got there.

**Only model-checked**: all liveness (`EventuallyDestroyed`, `EveryPacketEnds`,
`EveryCallAnswered`, `LoopEnds`, `EveryCallReturns`) and the fairness part of
both refinements, since TLAPS has no `ENABLED` here; and one invariant,
`FoundInPlace`. It compares boxes after the way through the letterbox and back,
which is exact only on grids that the scale keeps whole; of other scenes it is
not true, so there is nothing to prove for all of them.

## 6. Findings

- `task_graph_trace`: `submit_packet` numbers the trace entries with the node's
  index (`graph.cpp:661`), `run_sync` with the position in the order. For the
  graph of the test "task graph honors explicit node dependencies" an
  asynchronous trace counts 1, 2, 0. The chains built in the library do not
  show it, which `ReturnedIsComplete` states.
- `tiling_padded`: `docs/ARCHITECTURE.md:119` and `docs/STATUS.md:104` require
  a packed image for tiling; the code accepts an explicit row stride and then
  crops as if rows were packed.
- `tensorrt_profiles`: `README.md:468-470` offers `tensorrt_profiles` as an
  override of the profile shapes of a session; the name of a cached engine does
  not cover it (`trt_session.cpp:441`), so a session with other profiles is
  restored from the engine of the first.
- `pipelines_padded`: `docs/ARCHITECTURE.md:630` and `README.md:488` accept an
  image with `row_stride_bytes` wherever its layout is valid, and so does
  `has_valid_host_layout`; `frame_to_mat_copy` (`opencv_utils.cpp:13-15`) leaves
  the stride out. Objects of a padded image are detected and handed out in a
  place where they are not.
- `media_status`: `tests/test_media.cpp:65-66` expects a source that has handed
  out a frame to be `open`. Over GStreamer the read of a host frame
  (`source.cpp:482`), unlike that of a device frame (575), leaves the status
  alone: after one time limit the source says `end_of_stream` while it delivers.

## 7. Plan

Done: all components of section 1 but the last row, in the depth given there;
proofs of the executor, the graph (order, runs and their refinement), the
model, the tiles with their merges, the media modules, the TensorRT modules, the
tensor file, and of the pipelines that their ways agree, keep the schema, select
greedily and read nothing beyond their data.

Next: the dimensions of optimization profiles.

## 8. Not modelled, and why

- *Numbers of pixels*: normalisation, colour conversion and interpolation, on
  the host and in the CUDA kernels; the modules have how many bytes are there
  and where a pixel or a tile goes, not what becomes of its value. Floating
  point, with NaN and rounding, has no counterpart in TLC.
- *Formatting and parsing*: debug output, the JSON of graphs and traces, label
  files, options of command lines, tensor files of the first two versions.
- *TensorRT profiles*: which dimensions an open input gets
  (`trt_session.cpp:143-332, 890-955`); a profile is a name here.
- *Registry*: the tables from names to enumerations are constants.
- *Background model and CUDA image wrappers*: older code the build does not
  compile.
- *Examples and the package test*: command lines, drawing, printing.
- *Inside the modelled parts*: timing in traces, products of `int` pixel
  indices beyond 2^31, a pool that fails to be constructed, a second
  load of one backend session (`Model` makes a new one each time), two programs that save and load the same
  tensor file at once. Hazards without a property carry a note with the reason.
