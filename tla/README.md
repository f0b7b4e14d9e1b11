# Vishaya in TLA+

Vishaya runs a program in a cgroup of its own, records what the program and its descendants do
with eBPF probes, and packs the record into a signed `.vishaya` bundle that can be inspected and
verified later. This directory holds TLA+ models of the parts of it that are hard to test, the
TLC configurations that check them on small instances, and machine-checked proofs about all of
them for every value of their parameters: every safety property that a run finds to hold is a theorem.

What such a tool owes its user is a statement about *evidence*: an event in the bundle is true,
an event that is missing is accounted for, a bundle is whole or absent, and the target is never
running while nobody watches. The properties below are that statement, part by part.

## 1. The system

| Part | State | Operations | Talks to |
|---|---|---|---|
| File and raw-syscall probes (`bpf/vishaya_file.bpf.c`, `_syscall.bpf.c`, `_common.bpf.h`) | LRU maps `file_enter_state`, `syscall_enter_state`; `target_cgroup_id`, `suppress_tgid`; `bpf_stats`; the ring `events` | syscall-enter and -exit handlers: gate, reserve, save, emit | ring to the collector; maps written by it |
| Process probes (`_process.bpf.c`) | none of their own | exec, fork, exit, clone: one event each | ring |
| Network probes (`_network.bpf.c`) | `socket_fd_state`, `network_enter_state` | handlers of 20 syscalls; sockets added when created, removed when closed | ring; the kernel's descriptor table |
| libbpf collector (`collector_libbpf.cpp`) | the BPF object, links, ring reader | Start, SetTargetCgroup, PollOnce, ReadKernelBpfStats, Stop | session (callback per record) |
| Session and WAL (`capture/session.cpp`, `wal_writer.cpp`) | `events_written_`, `events_dropped_`, the WAL's descriptor | construction, on_raw_event, stop | decoder, enricher, protocol decoder, artifact collector |
| Capture run (`cli/capture_cmd.cpp`) | `g_running`, the scratch directory, the cgroup, the session | one function: construct, launch, poll, stop, write, unwind | everything |
| Launch and isolation (`isolation/`) | cgroup directory, sync pipe, the child | launch_target, attach_pid, the destructors | the child, the kernel |
| Artifact collector (`artifact_collector.cpp`) | candidate paths, copied contents, totals | observe, finalize | the file system, while others write it |
| Enricher (`enricher.cpp`) | none; reads /proc | check the start time, read exe, cwd, cmdline, comm | the process of the event, which goes on meanwhile |
| Decoders (`decoder.cpp`, `protocol_decoder.cpp`) | none | pure functions of a record | |
| Process tree (`process_tree.cpp`, `inspect/tree.cpp`) | none | one pass over events.ndjson; the printed tree | the writer; readers of a bundle |
| Bundle writer (`bundle/writer.cpp`) | `<output>.tmp`, `<output>` | write_bundle | process tree, manifest, signing |
| Signing (`bundle/sign.cpp`) | the key file of the user | load or create, sign, verify | captures of the same user |
| Reader, verify, the views (`bundle/reader.cpp`, `manifest.cpp`, `inspect/`) | the manifest it read, the report | open, verify in passes, render | the file at a path, which captures replace |

**What is hard.** The enter and the exit handler of a syscall are separate programs, and
anything may happen between them: the ring fills, the map evicts, the task dies and its id is
used again, it is moved between cgroups, the capture is scoped. The network probes learn of a
descriptor from exit handlers, which run after the kernel has changed the table and, with
threads, in another order. The probes run while the session decodes, counts and stops. A
capture can be interrupted between any two of its steps, by a signal, by a kill, by the death of
the target, and leaves processes, directories and files. Two captures can meet in the output
path, in the signing key and in nothing else. The enricher asks /proc about a process that may be
another by then; the artifact collector copies files that are still being written; `verify` opens
its path again for each pass; the protocol decoder sees 128 bytes of a message.

**What makes each part correct.**

* pairing: an event's arguments and its result come from one call, or the exception has a known
  cause and is bounded by it; misses, collisions and drops are counted as often as they happen;
* socket tracking: the map agrees with the descriptor table, or the difference has a known cause;
* session: each submitted event is recorded once and in order, or counted;
* run: the target executes only inside the cgroup and with the probes attached; the run ends;
  nothing is left behind unreported; what was recorded is kept;
* writer: the output path holds one run's bundle or what it held before, after every crash, and what
  can be wrong in the bundle without the writer's noticing is known;
* signing: a stored key stays, and the captures of a user come to sign with it;
* artifacts: the bounds hold but for what a file grew under the copy, each content is kept once,
  each path is in one record, and the end of a capture does not hang;
* enricher: no field comes from another process, or the reason is known;
* tree: what it says happened, but for ids used again or of another namespace; what it leaves out has
  a known cause;
* protocol decoder: an event says what was captured of the message, no more and no less;
* verify: what it calls verified is what one signer signed, a capture unless the key is a stranger's,
  and what is intact it does not refuse.

The 40 places where these can go wrong are listed, with their lines, under `hazards` in
`PROJECT.json`, each with the properties that cover it.

## 2. The modules

`SyscallPairing` and `SocketFds` model the kernel side; `CaptureSession` takes over at the ring;
`CaptureRun` is the whole run with the session and the writer as one step each; `BundleWriter`
is that last step in detail. `Enricher` and `ProtocolDecoder` are what the session does to one
record, `ArtifactCollector`, `SigningKey` and `ProcessTree` what the end of a capture does before and
while it writes, `BundleReader` what a later command makes of the result; these six are composed with
nothing, because they meet the others in one call each. `EventLedger` and `AtomicPublish` are
abstract specifications.
Modules named `MC...` add what TLC needs, modules named `..._proofs` hold the theorems. `Enricher`,
`ProtocolDecoder` and `BundleWriter` give their specification names of its own (`EnricherSpec`,
`DecoderSpec`, `WriterSpec`), because a proof module extends each together with another model. The map from each definition to its lines is in
`PROJECT.json`. Definitions introduced as variants of an action are plausible slips of the code; the
specification does not reach them, and each property is known to fail when one takes the place
of the definition it varies.

### SyscallPairing

One family of enter/exit probes over one ring. `enterState` is the LRU map, keyed by
`<<pid_tgid, kind>>` and holding the number of the call that saved the entry; `call` is what each
task is doing; `tally` holds, for each key, the share of the `bpf_stats` counters and the history
the properties need. The enter handler is five actions, one for each way through it
(`EnterUntraced`, `EnterRefused`, `EnterCollides`, `EnterSaveFails`, `EnterSaves`), the exit
handler four (`ExitUntraced`, `ExitMiss`, `ExitRefused`, `ExitEmits`). `Handles` is the common
gate: program attached, task not the collector's, task in the target cgroup unless none is
configured, probe toggle on. `Attach`, `SetTargetCgroup` and `PollRecord` are the collector's
side; `SchedEvent` and `TaskDies` the process probes; `TaskStarts` and `Migrate` the kernel's
reuse of task ids and `cgroup.procs`.

* A handler is one step: a tracing program runs to its end with its task pinned, a reservation
  takes the ring's lock and a map operation the bucket's, and no other handler has the same key. What
  this leaves out are other CPUs between two operations of one handler: an LRU entry recycled between
  its lookup and its copy, and a handler that read the gate before it was scoped and reserves after.
* An enter handler's scratch record takes room in the ring until the consumer passes it, although
  it is discarded: `bpf_ringbuf_discard` does not give space back.
* `collision` stands for file and syscall families alike; payloads are the number of the call they
  were read in, which is all the properties tell apart.
* `AllowHostWide` lets a capture run unscoped; otherwise it starts scoped.
* The probe toggles of the process family are folded into `attached`.

### SocketFds

The descriptor table of one process, its threads, and `socket_fd_state` (`tracked`). Each call has
three steps: the enter handler, the kernel's work, the exit handler. The syscalls that differ only
in the fields they record are merged: `io` is read, write, readv and writev, `accept` is accept and
accept4. The tasks are in scope: what the gate does is SyscallPairing's subject.

What can put map and table at odds may happen at any step. A record is lost on entry or exit
(`Reservations`; this also stands for a failed save, a missing scratch slot and an eviction between the
two). `socketpair` returns its numbers in an array of the caller's, which the exit handler reads back:
they may be unreadable, written again by another thread, or those at the address an earlier call left
in the entry (`ReadBack`). The table changes unseen (`UnseenChange`): a file is opened; `dup`, `dup2`,
`F_DUPFD`; a descriptor comes by `SCM_RIGHTS` or `pidfd_getfd`; `close_range`, `io_uring`, or a process
that shares the table. `Exec` closes what is marked close-on-exec, and the threads it ends are in calls
that nobody records. `ProcessReplaced` gives the id to another process, with whatever its parent had
open. The map may be full of other processes' entries, so that any addition may fail. `blind` and
`ghost` record, when one of these happens, the descriptors it excuses, and no more: the interesting
case, another thread being given the number of a socket whose `close` has not returned, needs none.

### EventLedger and CaptureSession

`EventLedger` states what a session promises: numbered events are recorded in order, each at most
once, and until the session closes one that is not recorded is waiting or counted. `CaptureSession`
has the construction of the session with its three ways to fail, the probes' submissions and
refusals between any two steps, `on_raw_event` line by line (a packet with a DNS or HTTP payload
gives a second, synthetic line), WAL writes that fail before or after a part of the line was
appended, and the two halves of `stop`. It implements the ledger under the mapping in `Ledger`;
`dropped` there counts more than events given up (refusals read at the end, synthetic lines that
failed), and the mapping says by how much.

* Reading the kernel's counters may fail, in which case 0 is added.
* Freeing the ring and destroying the links are one step: nothing can tell their order.
* A torn chunk is any part of a line that lacks its newline.

### AtomicPublish and BundleWriter

`BundleWriter` has `write_bundle` step by step over inodes: a directory as processes see it and as
it is on disk, the data of each inode and what of it is on disk. Every step may fail, the process
may be killed, the kernel may write back what it likes, the power may go. Two things the code does not
notice. A scratch file that cannot be read ends the copy of its entry in silence, libarchive fills the
entry with zeros, and the archive is synced and published; likewise a digest is taken of what was
written, and could be read, of its scratch file. So the pieces in `Doubtful` may come out unsound, and
a `Bundle` is a run with the set of its `flaws`. And the directories that `create_directories` makes are
never synced: `parent` is "made" until the kernel has written them, and a loss of power takes them
with all that is in them (`rooted` in `AtomicPublish`). Any number of runs with one
output path may be at work at once: they truncate, write and rename one `.tmp`. `meetings` is history:
the runs that were at work while another was, and which run renamed each inode to the path. Up to the
first two that meet, the module implements `AtomicPublish`.
A run ends `durable` when the directory was synced and `done` when that failed or the directory
could not be opened: the code warns of the former and says nothing of the latter.

### CaptureRun

`run_capture` as a program counter over its steps, with `launch_target` and the destructors
inlined where they run; the child of the fork as a second process; the processes the target leaves
behind; the reuse of the child's pid once it has been waited for. `fault` names what was thrown.
The unwinding is the code's: in reverse order of construction, before the catch. `Signal` and
`CollectorIsKilled` may come at any step, `KilledByOthers` at any step of the child.

* The session's construction, `session.poll`, `session.stop` and `write_bundle` are one step each.
* `inherited`: SIGCHLD may be ignored by inheritance, and then a dead child leaves no zombie and
  `waitpid` fails; SIGPIPE may be ignored, and otherwise writing the sync byte to a dead child ends
  the collector.
* That the target, which is root, can move itself out of its cgroup is left to SyscallPairing.
* `prctl(PR_SET_PDEATHSIG)` may be rejected and is ineffective after the collector's death. So a
  collector killed between writing the sync byte and the child's `prctl` leaves a target that runs
  unobserved; `TargetRunsObserved` speaks of collectors that were not killed for this reason.

### SigningKey

`load_or_generate_signing_key` by several captures of one user: read the key file, make the
directories one by one (`stat` and `mkdir` are apart), generate, create under `O_EXCL`, write, and
unlink after a short write. A file is known by its creator, and so is a key. Each step may fail,
each capture may be killed, the power may go; a key file that is there and does not open, or gives
nothing when read, counts as none (`ReadFails`). The code never syncs the file, so a loss of power can
empty it or take it away until the kernel has written it back. `failed`, `killed`, `powerLost` and
`settled` are history: which captures had a failure of their own, and which began when a capture had
signed, none was at work and nothing had gone wrong.

### ArtifactCollector

`observe` and the loop of `finalize`. Paths are numbers, because the code visits them in the order
of the strings; contents are tags with a size, and a digest is the content. The file system has no
state: each look (lstat, open, read) may find something else than the one before, as processes left
behind may still write. `growth` is what the file copied last had gained since its lstat. `phase =
"blocked"` is an `open` or a `read` that waits: what was swapped in for the file is a fifo without a
writer, a fifo whose writer is idle, a terminal or another device. `WaitIsOver` is not promised.

* `observe` drops a path without a mark when it runs out of memory; that is left out.

### ProcessTree

The kernel's side is the truth: `task` maps ids to processes (threads and processes share one
space), `parent` is `real_parent`, and each step appends its event to `log` or loses it.
`ReconstructTree` is the one pass of `reconstruct_tree` and the resolution of edges, a fold over the
log; `Below`, `Orphans` and `Printed` are `vishaya tree`.

* A child is its caller's in the event, and in `real_parent` its caller's or, under `CLONE_PARENT`, its
  caller's parent's. The children of a process that ends go to a reaper outside or to any ancestor, as
  if it were a subreaper (`Ancestors`). `adopted` remembers the children another process made.
* `CloneReturns` is the second report of a child, by the return value of `clone` in the caller. For a
  caller in a pid namespace this is a number of that namespace and may be any id (`misnamed`).
* `MaxDepth` is the 512 levels `print_node` goes down, `MaxHops` the 1000 hops of the walk up.

### Enricher

One process event and what may happen to its process between the event and the enrichment, and
between any two reads: it executes again, dies, is reaped, and its id goes to another. A value read
from /proc names the process and the image it was read from. `event.start` is the emitting *task's*
start, `StatStart` the *process's*, as in the code.

* The executed path is the file the kernel ended up with: for a script, its interpreter. `parent_comm`,
  which is the parent's, is not modelled.

### BundleReader

`run_verify`: constructor, the two passes of `verify_integrity`, the two of `verify_artifacts`, the
signature and the verdict, each of which opens the path anew. Meanwhile captures rename their bundles
over the path and files are altered or cut short. A digest is the content it is of, a signature is
valid for one payload under one key. The capture `First`'s bundle is at the path at first. Bundles differ
in key, in what the signature covers (`manifest-v1` or the two digests), in whether artifacts were
collected, and in what is odd about them: fields of a newer minor version, a newer major version, a
process tree over `kMaxEntryBytes`, and the `Flaws` a writer does not notice (see `BundleWriter`):
digests of a part of the events or the tree, and zeros in an entry.

An alteration is any one change of the manifest, the signature, an entry or an artifact. The signature
may also be taken away or be another bundle's; and after the change whoever made it may set the digests
right and sign with a key of its own (`SignedAnew`, `OtherKeys`), as bundle-spec-v0.1.md:436 says.

### ProtocolDecoder

The parsing as operators: DNS over bytes, HTTP over tokens (the pieces of text the decoder looks
for). The state is a well-formed message, with what it says, and how much of it was captured;
`Synthesized` is applied to the part. A DNS message is put together answer by answer: a name has any of
`HostLabels`, or points to the question or to the owner of the answer before; the data are an address, a
name (`CNAME`, like `NS` and `PTR`) or of a type that is not rendered; a message may be framed for TCP.
An HTTP request has any of the nine methods, and a path, other header fields, a spelling of `Host`, a
host and what follows that the constants allow; a response has a phrase and what follows.

* `dns_parse_name`, a loop over labels with a limit of 16 pointers, is a pair of recursive functions:
  over the positions of the buffer, and over the pointers that may still be followed.
* An HTTP message is cut between tokens only; a cut inside a token leaves of it nothing the decoder
  would find.
* `try_decode_http` begins with the test that the event is a send or a receive; all events here are.
* Left out: messages that are not well formed, several questions, `AAAA`, status codes other than 200,
  and a question for the root, whose name is empty and which therefore gives no event
  (protocol_decoder.cpp:222).

## 3. The runs

| Run | Instance | Result |
|---|---|---|
| `pairing` | 2 target tasks and the collector's, 1 kind that is also a fork kind, ring of 2, map of 1, 3 calls, host-wide allowed | all hold (293 000 states) |
| `fds_hazards` | 2 threads, 2 descriptors, map of 2, 5 calls or changes of the table | all hold (319 000 states) |
| `session` | ring of 2, 5 events, 1 refusal, 2 torn writes, both settings of host-wide | all hold, with the refinement (276 000 states) |
| `bundle_writer` | 3 runs with one output path, one after the other or at once, archives of 2 pieces, one of them doubtful | all hold, with the refinement (2.4 million states) |
| `capture_run` | 3 removal attempts | all hold, with liveness (45 000 states) |
| `signing_key` | 3 captures, 3 directories | all hold (177 000 states) |
| `artifacts` | 4 paths, 3 candidates, files up to 2, total 3, 2 files; contents of size 0 to 3, two of each that fits | all hold, with liveness (247 000 states) |
| `process_tree` | 4 ids, 5 steps, 2 levels, 3 hops | all hold (966 000 states) |
| `tree_running` | 4 ids, 3 steps | `EndedProcessesHaveEnded` violated |
| `enricher` | clock to 4, 3 owners of the id | all hold (1.4 million states) |
| `bundle_reader` | 2 captures, 1 artifact, 2 keys, one of them a stranger's, 1 replacement, 1 alteration | all hold (6.7 million states) |
| `protocol_decoder` | up to 2 answers, a label of 12 bytes; every method, each spelling of `Host` before any two others; every cut | all hold (710 000 states) |

### What they show

**pairing.** `MispairingOwedToLostExits`: an event carries another call's arguments only when an
earlier exit of the same task and kind went unhandled, and each such loss spoils at most one event.
`CollisionsOwedToLostExits`: the `STATE_COLLISION` counters never count the reentry they are named
for, only lost exits. `MissesExplained`: a `STATE_MISS` is an entry that was not traced, was
refused, was not saved or was evicted. `DropsNeverOverstated`: the drop counter and the events
delivered never exceed the calls, though a call reserves twice. `PayloadUsedOnce`: no payload is
reported twice. `HostEventsPrecedeTargetEvents`: what the host submitted before scoping precedes
the target's events in the ring.

**fds_hazards.** `UntrackedSocketsExplained` and `GhostsExplained` list every reason for traffic
that is not recorded and for files taken for sockets: a call that has yet to return or was not recorded,
a pair's array that did not read back as written, a full map, a change no probe sees, an `execve`, an
id used again, and a `close` that takes out a number already given to another socket. Where none applies
the map is exact.

**session.** `KeepsLedger` is the refinement. `StopLosesOnlyTheTail`: what `stop` loses without
counting it are the events submitted last, no more than the ring holds, and nothing recorded follows
one that is lost. `WalReadsBack`: a write that fails half way costs the reader one line that was
counted, never more, and a synthetic line directly follows the line of its event. `TypeOK` includes that no ended session, and none that failed to start, leaves a probe
attached or the WAL open.

**bundle_writer.** `PublishesAtomically` is the refinement: until two runs meet the output path holds all
of one run's bundle, wrong at most in doubtful pieces, or what was there; a loss of power brings back what
the disk had, and takes all if the directory had to be made and is not on disk. `LoneRunsPublishWhole`:
what a run that met no other renamed to the path has all its pieces, its own and on disk, and those
written from memory are sound, whatever the runs before it did to each other; so the damage of two that
meet is theirs, and ends with the next run that is alone. `LoneRunEndsClean`: the bundle of a lone run
that synced the directory is in the directory the disk has, and only a killed run leaves a `.tmp`.

**capture_run.** `TargetRunsObserved`, `NoChildLeft`, `LeftoversAreReported`, `TargetDrained`,
`RecordsLostOnlyByFailedBundle`; `StrangersAreSpared`: a pid that was reused is killed only when a
signal follows the end of a target that was already waited for; and under fairness `ShutsDown` and
`ChildNeverHangs`.

**signing_key.** `StoredKeyStays`: what one capture stored whole no other replaces, truncates or
removes. `UnusableFileExplained`: an empty or short key file is being finished or removed, or is the
mark of a kill or a loss of power. `SettledKeyIsUsed`: once a capture has signed and all is quiet,
each later capture signs with that key, whatever the captures beside it do. Before that, captures
that start together may sign with keys of their own, or not at all: a directory another one has just
made makes `mkdir` fail, and the bundle stays unsigned.

**artifacts.** `OverrunOwedToGrowth`: the total is exceeded by what one file grew under the copy, and
by nothing else. `EachPathOnce`: each path the loop has finished is in one record, no content is kept
twice, counters and records agree, and a path that was left out is reported. `RefusedForLackOfRoom`:
what is refused for the bounds found no room. `FinalizeEnds`: `finalize` returns, unless a regular file
gives way between lstat and open to a fifo or a device, whose open or read then waits.

**process_tree.** `TreeIsTrue`: each edge is a fork that happened, each fork that was reported and whose
child is in the log is an edge, and each `ppid` is the maker, the adopter or the reaper outside; only an
id given out twice, or a number of a pid namespace, can make it err. `HiddenOnlyByLostForks`: a process in
the bundle is printed, under the target or among the orphans, unless between it and the target a fork
was not reported, an id was used again or a process was adopted, or it is deeper than `print_node` goes
and not higher than the walk does: edges come from fork events and orphans are found by ppids, and the
two limits differ, so a process can be in neither list.

**enricher.** `ForeignDataExplained`: a field of another process comes from an id that was reused
after the guard had read stat, or without a guard (no start time in the event, or no stat), or within
the tick of tolerance. `ExecPathExplained`: an exec event always has a path, the executed one unless
the process executed again or its id was reused before exe was read, and `filename` keeps the executed
one. `RefusalExplained`: the process's own /proc is refused only to an event of a thread that started
later than the process.

**bundle_reader.** `VerifiedIsOneSigners`: with a signature (or a pinned key) and verdict 0, every content
that any pass read is what the one manifest names that the signature is over, although the file may have
been another in each pass; with a pinned key the signature is of that key. If no stranger has the key,
that manifest is a capture's, as far as the signature covers it. Unpinned, the signer may be anybody who
altered the bundle, as the specification says. `UntouchedBundleIsAccepted`: a bundle nobody touched is
refused for a newer major version, a process tree over the limit, the pinned key, or a failure of its
writer that the writer did not see.

**protocol_decoder.** `DnsEventIsWhatWasCaptured`: wherever the message is cut, the event has the
question and the answers that are whole, with names expanded, and nothing else; a message framed for
TCP gives none. `HttpEventExplained`: a request is reported once twelve bytes and the beginning of its
version were captured, with the path whole; the host is the header's or what was captured of it, or a
later line that begins with a spelling the decoder looks for earlier (`Host`, then `host`, then
`HOST`), be it a line of the body. A response is reported once its phrase begins.

### Where the code and its documents differ

`tree_running` checks a sentence of the bundle specification (line 371, on `end_ts_ns`) and finds a
behaviour that contradicts it: the exit tracepoint fires for each thread, with the process's id, and
the first thread to exit marks its process as ended.

Other differences the models show, without a run of their own; each follows from the actions named:

* `EnterCollides`: a stale entry is kept "to avoid wrong enter/exit pairing"
  (vishaya_common.bpf.h:1088) and so produces one. `MispairingOwedToLostExits` bounds it.
* `ExitCloses`: "removing a missing/stale entry is harmless" (vishaya_common.bpf.h:1296) is not so
  with threads: another thread's socket may have got the number first. `blind` then excuses it.
* `WriteFails`: `events_total` (bundle-spec-v0.1.md:140) can exceed the lines a reader can parse.
  `WalReadsBack` bounds it.
* `StopDetaches`: "drops (if any) must be reported, not silent" (run-tests.sh:489); records in the ring
  when `stop` frees it are lost and not counted. `StopLosesOnlyTheTail` says which and how many.
* `OpenArchive` by a run that meets another: two captures with one `--output` share the `.tmp`, and one
  may rename what the other is still writing: not the "atomic write" of architecture.md:330.
  `LoneRunsPublishWhole` says that it harms no one else.
* `Bundle` of `CaptureRun`: a failure to write the bundle removes the WAL with the scratch directory
  before the catch, against "scratch dir still readable for salvage" (architecture.md:330).
  `RecordsLostOnlyByFailedBundle` says that it is the only way.
* `EventsAt`: vishaya_common.bpf.h:881 calls what it captures "the process start time"; it is the
  emitting task's, and events of threads are not enriched. `RefusalExplained` says it is only those.
* `ReadExe` and the reads after it: "without ever using another process's data" (enricher.cpp:175) does
  not hold if the id is reused between the guard's read of stat and theirs. `ForeignDataExplained`.
* `Observe`: `truncated_` is set also when the path that arrives at the limit is already a candidate,
  so that a capture which left nothing out is reported as truncated (artifact_collector.cpp:48).
* `SignedPayload`: manifest.cpp:67-74 says the reader derives the signed payload from the parsed
  struct; it takes the bytes on disk (reader.cpp:348), which is what `UntouchedBundleIsAccepted` needs.
* `WriteEntry`: writer.cpp:100-112 does not tell a failed read from the end of the file, and
  write_string_to_file (26-31) looks at its stream before the last flush. So a capture may publish, sync
  and sign a bundle whose entries end in zeros, or whose digests are not "of the raw bytes ... as stored in
  the tar" (bundle-spec-v0.1.md:429-430), and its own `verify` refuses it. `LoneRunsPublishWhole` says that
  nothing else can be wrong, `UntouchedBundleIsAccepted` that this alone makes `verify` refuse an intact file.
* `Prepare`: "fsync the parent directory so the rename itself survives a crash/power loss"
  (writer.cpp:285) covers one directory; those that create_directories has just made are in directories
  nobody syncs. `LoneRunEndsClean` bounds what is at risk.
* `try_decode_http`: bundle-spec-v0.1.md:293 says a request is detected by "HTTP method line + Host header";
  the code also reports one without the header. `HttpEventExplained` says when.
* `LacksTree`: a capture may publish a process tree over `kMaxEntryBytes`, which no reader loads.

### Bounds

Counters that only grow are bounded in the guards (`MaxCalls`, `MaxEvents`, `MaxRefused`,
`MaxTears`); `MaxCalls` also counts process events. The instances are the smallest in which the
things that interact all occur: two tasks compete for a map of one entry, so eviction, refusal,
collision and reuse all happen; a ring of 2 fills with one call's scratch record and its event;
three calls of one task are a lost exit, the collision it causes and the call after it, and a run
with 4 calls (2.5 million states, without the collector's task) shows nothing more. Tasks,
threads and captures are interchangeable and declared symmetric in the runs that check no temporal property of
them; descriptors are not, because the kernel hands out the lowest. In `SocketFds` the race needs
two threads and one number to reuse; the second number makes `socketpair` and `dup2` possible. In
`BundleWriter` two pieces distinguish a whole archive from a part and a mixture, one of them copied from
a scratch file, and three runs allow two that meet, or a killed one and a power loss, and a good one after them. In `CaptureRun` nothing but `attempts` is counted;
the code tries ten times, and two attempts already separate *again* from *given up*. In `SigningKey` three captures are
one that settles the key, one that uses it and one that interferes. In `ArtifactCollector` three
candidates of four paths reach every bound, and sizes go one past the limit of a file. In
`ProcessTree` four ids and five steps allow a thread, a grandchild, an orphan, an adopted process and the
reuse of an id, and a chain of three forks is deeper than two levels and within three hops.
In `Enricher` the clock passes the tolerance, and three owners are the process, the one the guard sees
and the one that is read. In `BundleReader` one replacement brings a second capture's bundle in between any
two passes; one alteration is any one part, signed anew or not. In `ProtocolDecoder` two answers let the second point to
the first, and a label of 12 bytes is longer than the fixed part of a record, so that a cut inside a
name leaves room for what could be taken for a record. The theorems of section 4 remove the bounds from
the safety properties of every model. Every action of every module fires in a passing run.

Deadlock is not checked: every model stops, when its bound is reached or its run is over.

### Fairness

`ArtifactCollector` assumes that `finalize` takes its next step when it can: it is one thread, and
where an `open` or a `read` may wait for ever, of what is not a regular file, the step out of it is not part
of the fair action. Opening and reading a regular file is assumed to return. `CaptureRun` assumes weak fairness of the collector's next step and of the child's
own code up to the exec and its end after a SIGKILL. Both are processes the kernel
schedules; the loop's `poll(100)` has a timeout and each blocking call (`read`, `waitpid`) is
disabled in the model until it can return. Nothing is assumed of the target, of a signal or of
the processes left behind: `ShutsDown` only promises an end after the target's death or a signal.
It does assume that a poll returns, that is, that libbpf's consumer catches up with the probes; a
target that submits faster than the records are written could keep it busy, and that is outside
the model. A record that a process left behind has reserved and not yet submitted would stop the ring's consumer
before the target's records behind it; that is outside the model too. The other modules are checked for
safety only.

## 4. What is proved

`SyscallPairing_proofs` proves, for all tasks, kinds, capacities and bounds that satisfy
`KindsAssumption`, `BoundsAssumption` and `ScopeAssumption`:

| Theorem | Property |
|---|---|
| `TypeCorrect` | `TypeOK` |
| `InductiveInvariant` | `Inductive` |
| `MispairingBounded` | `MispairingOwedToLostExits` |
| `CollisionsBounded` | `CollisionsOwedToLostExits` |
| `MissesAreExplained` | `MissesExplained` |
| `DropsHonest` | `DropsNeverOverstated` |
| `PayloadsUsedOnce` | `PayloadUsedOnce` |
| `HostEventsFirst` | `HostEventsPrecedeTargetEvents` |

The argument is one of debts. Each inequality compares what went wrong so far with the losses that
can cause it, and adds 1 on the left while a loss has not had its effect yet: a stale entry is a
mispairing to come. That makes them almost inductive. What they need besides (`Pairing`) is that
call numbers are handed out in order (`CallsInOrder`), so that an entry names one call; that a
call which owns an entry was traced (`OwnersAreTraced`), so that losing its exit is counted; that
dead tasks are in no call (`DeadTasksAreIdle`), so that a new task starts clean; that entries are
distinct and not yet submitted (`EntriesAreUnused`), for `PayloadUsedOnce`; and `CollisionDebt`,
the inductive form of `CollisionsOwedToLostExits`: a stale entry stays owed while its task is in a
call the enter handler did not see, since the collision it would cause there is skipped. TLC
checked each conjunct before it was proved.

The proof of a step is organised by what a step does to the ledger rather than by action:
`EnterPairing`, `LeavePairing`, `RemovePairing` and `SavePairing` are lemmas for a call begun, a
call ended, an entry removed and an entry saved, `OtherPairing` for steps that touch neither, and
`NextInductive` applies them to each action.

`HostEventsFirst` (`HostEventsPrecedeTargetEvents`) is about the order of the ring and needs an
argument of its own, `HostFirst`: until the capture is scoped no task is in the target cgroup, so that
no record of the ring is the target's (`NoTargetYet`). Whatever a step does, it leaves the ring alone,
takes its oldest record or appends one of a task the gate lets through (`NextRingStep`); from the moment
the gate knows the target it lets no one else through.

`SocketFds_proofs` proves, for any threads, descriptors, capacities and number of calls, `TypeCorrect`,
`UntrackedAreExplained` (`UntrackedSocketsExplained`) and `GhostsAreExplained` (`GhostsExplained`). Each
says that map and table differ only while a call is on its way or for a reason on record, whatever is
lost, read back otherwise, or changed unseen; the invariant
ties the reasons to the calls: a socket whose number a close under way will take out of the map is
already accounted for (`Reused`), a socket that is not in the map was just made by a call that has yet
to return (`Unrecorded`), and a number a thread is about to put there although its socket is gone is
on record as a ghost to come (`Gone`).

`CaptureSession_proofs` proves, for any ring and any number of events, refusals and torn writes,
`TypeCorrect` (`TypeOK`), `WalIsReadBack` (`WalReadsBack`), `OnlyTheTailIsLost` (`StopLosesOnlyTheTail`)
and `EventsAreAccountedFor`: the session implements `EventLedger` (`KeepsLedger`), where an event is
submitted, recorded in order or counted, and nothing else. The invariant says what is attached and open
at each stage (`Stages`), whose callback is under way and how far it is (`CallbackUnderWay`), and charges
a torn line at the end of the WAL with the line it will spoil (`TearDebt`). The mapping counts what
waits in the ring, less the record whose line is already written. `OnlyTheTailIsLost` needs the order as
well as the number: while the session is open the ring is, in order, exactly what was submitted and is
neither recorded nor given up (`RingIsTheTail`, in `TailInv`), so that what `stop` frees with the ring
is the end of the sequence and fits in the ring.

`CaptureRun_proofs` proves, for every number of removal attempts, the safety properties of the
capture run: `TypeCorrect` (`TypeOK`), `TargetRunsObservedAlways`, `NoChildLeftAlways`,
`LeftoversAreReportedAlways`, `TargetDrainedAlways`, `RecordsAreKept`
(`RecordsLostOnlyByFailedBundle`) and `StrangersAreSparedAlways`, all from `Invariance`. Its
invariant says where each party is in each phase of `run_capture`: the session (`SessionByPhase`),
the child (`ChildByPhase`), the sync pipe, which is what couples the child's progress to the
collector's (`PipeProtocol`), the directories, the records, and whom a kill could have reached. The
properties speak of the end; the phases carry them there. `Invariance` splits into the Boolean
variables' types (`BooleansKept`) and the rest (`CollectorKeeps`, `DyingKeeps`, `OthersKeep`), one
step per action, because no one prover handles both.

`Bundling_proofs` is about the end of a capture. Its first part, `ArtifactCollector`, proves, for any
paths, contents and bounds, `TypeCorrect`, `OverrunIsGrowth` (`OverrunOwedToGrowth`), `NamedOnce`
(`EachPathOnce`) and `RefusalsAreJustified` (`RefusedForLackOfRoom`), from `Invariant`. The records name
exactly the candidates that are done, each once (`Named`); the counters are what the records add up to,
and each content is copied once (`Kept`); a file that is being copied had room when it was looked at
(`Phases`), so that only what it grew since can exceed the bound (`Bounds`).
The second part, `BundleWriter`, is for any number of runs with one output path, which may be at work at
once, any number of pieces and any of them doubtful: `LoneRunsPublish` (`LoneRunsPublishWhole`), `LoneRunsEndClean`
(`LoneRunEndsClean`) and `AtomicPublication`: up to the first two runs that meet `write_bundle`
implements `AtomicPublish` (`PublishesAtomically`), all from `WriterInvariant`. Two runs at work at once
have met (`Meetings`); a run that has opened nothing has an inode nobody has (`Fresh`); `<path>.tmp` is
never the file at the path, in memory or on disk (`Apart`); what a run that met no other has written is
in `<path>.tmp`, and synced before the rename (`WrittenSoFar`); the file it put at the path is open for
writing nowhere, although a run that met another may still hold a descriptor of what was its `.tmp`
(`ClosedAtPath`); and therefore that file, and the one a loss of power would bring back, has all its
pieces, on disk (`WholeAtPath`). `LastPublished` adds what the only run there was can count on.

`SigningKey_proofs` proves, for any number of captures and directories, `TypeCorrect`,
`UnusableFilesAreExplained`, `SettledKeyIsAlwaysUsed` and `StoredKeyAlwaysStays`, from `Invariance`.
`UnusableFileExplained` is inductive with `WriterOwnsFile`: whoever is between creating and finishing
the file owns the one at the path. `SettledKeyIsUsed` needs two facts: while nothing has failed, a key
that anybody read or signed with has a file (`CleanMeansStored`), which is why a capture that begins
with the key settled finds it; and from then on that capture stays on the fast path, with the stored
key in hand (`SettledOnFastPath`).

`Derived_proofs` is about what is derived from the records: from their process ids, which are used
again, and from the bytes they carry. Its first part is `ProcessTree`, for any
finite set of ids, any number of steps and any two limits, 512 and 1000 among them: `TreesAreTrue` (`TreeIsTrue`) and `HiddenAreExplained`
(`HiddenOnlyByLostForks`). The invariant is about what the pass over the log has read so far, before
edges without a child are dropped: each record is of an id that has been a process, and gives the parent
that made or got it unless the id was used again (`RecordsAreTrue`); each candidate edge is a fork, is
misnamed, leads to a thread, or its id was used again, and no reported fork is missing (`EdgesAreTrue`); `Tables` says as
much of the kernel. An event changes what has been read by one step of the fold (`ReadMore`). That
`vishaya tree` hides nothing else is then a fact about the tree alone: a walk up the recorded parents
that reaches the target within the limit of levels, over forks that were reported, is a way down to where
it began (`InvHidden`, by induction on the steps of the walk).
The second part is `Enricher`, for any clock and any number of owners of the id: `ForeignDataIsExplained`,
`ExecPathIsExplained` and `RefusalIsExplained`, from `EnricherInvariant`: before the guard nothing has been
read (`Untouched`); the guard looked at the owner or an earlier one, whose recorded start decided, and a
refused event carries nothing foreign (`Guard`); and the executed path stays in `filename` (`PathKept`).

The third part is the DNS half of `ProtocolDecoder`, for any labels of 1 to 63 bytes, any number of labels
and answers, and any buffer of up to 128 bytes: `DnsIsDecoded` (`DnsEventIsWhatWasCaptured`). Its lemmas
go from the bytes to the message. A name that lies whole in the buffer is read for what it says and ends
where it ends, and on a name that is cut the parser stops at a place from which the record it is in
seems to end beyond the buffer (`GivesUp`), so that the loop over the answers stops too (`NameIsRead`, by
`SpelledInduction` over the labels of a name). That is where labels without a zero byte are needed: what
the parser takes for the length of the data are then two bytes of the name, and more than 128. A pointer
leads to the question or to an earlier owner, and following pointers to pointers ends in time: each
owner lies at least 11 bytes after the one before it, so that 128 bytes hold fewer than the 16 the
decoder follows (`NamesKept`, `Reachable`). Each turn of the loop then reads the next record, or stops at
the first that is cut (`RecordIsRead`, `AnswersAreRead`); from this `DatagramIsDecoded` for a message and
`FramedIsNot` for one framed for TCP, in which an empty name stands where the question is looked for. The
invariant (`DnsInv`, `Kept`) is about the message as it is put together: its parts are where its fields
say (`HeaderKept`, `QuestionKept`, `OwnerPlaced`), and whatever comes after them, what was written so far
is read so (`NamesKept`, `TurnsKept`); a further answer keeps that (`AnswerKeeps`).
The fourth part is the HTTP half, for any letters, paths, hosts, phrases, header fields and rests:
`HttpIsExplained` (`HttpEventExplained`). A part of a request is described piece by piece (`Asked`): each
piece stands where it does as far as it was captured. `FindIs` and `FindCases` characterise `find`,
`LineIsRead` and `RestIsRead` what `UntilLineEnd` makes of a line that may be cut. The host needs
`SpellingsStand`: where a spelling is found that the decoder looks for, it is the header's own or lies
further on, in what follows the header; `HostIsRead` then compares the order in which the spellings are
looked for with the order in which they occur. `RequestIsRead` and `ResponseIsRead` put the event
together.

`BundleReader_proofs` proves, for any captures, keys, files, oddities, replacements and alterations,
signed anew or not,
`OneSignerIsVerified` (`VerifiedIsOneSigners`) and `UntouchedIsAccepted` (`UntouchedBundleIsAccepted`).
The invariant has a conjunct per pass, guarded by how far the command came (`PastManifest` to
`PastSignature`): what the report says so far is true of what that pass itself read and of the manifest
the constructor read (`ManifestRead`, `DigestsCompared`, `IndexRead`, `ArtifactsCompared`,
`SignatureChecked`), whatever is at the path by now. A signature that verifies and is of no stranger's key was
made by a capture over its own payload (`Genuine`), so the accepted passes are chained to that one capture
by its digests. `Untouched` is the converse for a bundle nobody replaced or altered and whose writer had no
failure it did not see (`Sound`).

**What the theorems assume.** The named assumptions of the modules: capacities and bounds are naturals,
the ids and descriptors of one process are finitely many (`TreeAssumption`, `SocketFdsAssumption`), the limits of `vishaya tree` are at least 1, the
model values for "none" differ from what they stand beside. `ReaderAssumption` takes from that that "none"
is no digest, manifest or archive, and that the names of flaws are no artifacts' names. `DecoderAssumption` bounds what is captured by the 128 bytes of
`VISHAYA_NET_PAYLOAD_LEN` and says that labels have 1 to 63 bytes, none of them zero; `HttpAssumption`
that paths and hosts hold no space and no end of a line, and that the header's other fields have lines of
their own. No theorem has a hypothesis on the behaviour. `Bundling_proofs` extends two models and
`Derived_proofs` three, which share no step and no variable: their theorems are about each model's own
specification.

**Folds, sums and walks.** The library's induction theorems take an operator as a parameter, which
no installed prover can instantiate. Where a proof needs induction it is derived for sets from the
well-foundedness of the naturals (`WFMin`, `NatLessThanWellFounded`): a set of naturals that has 0 and
all successors is all of them (`Induction`). From this follow the sum over a finite
set of records in `Bundling_proofs`, and in `Derived_proofs` the fold over the log and the levels below a
process (`ReadsExist`, `Iterated`) and that the decoder's recursive functions exist and satisfy their
equations (`LabelsAre`, `NamesAre`).

**Only model-checked.** Liveness (`FinalizeEnds`, `ShutsDown`, `ChildNeverHangs`), because it needs fairness
and ENABLED, which the prover cannot reach. `tree_running` expects a violation, so there is nothing to prove.

## 5. What is not modelled

The event decoder's field checks, the JSON rendering and the endpoints and payload prefixes of the
network probes are straight-line copies and keep no state. The inspect commands other than `verify` and
`tree` aggregate the events of one bundle and keep nothing; like `verify` they open the path once per
pass, so a bundle renamed over it in between mixes two captures in one report, with no digest to notice.
Cryptography stays abstract. The isolation probe is a diagnostic. The command line, logging and the
build hold no state that outlives a call. Verifier-related structure of the BPF programs (scratch maps,
bounded loops) is left out.

## 6. Plan

1. Action properties of the modules that have only invariants, such as that an artifact's record never
   changes once made; messages that are not well formed, for which the decoder must stay in the buffer.
2. Compositions: `CaptureRun` with the session's two-step `stop` instead of one step; the session with
   the enricher's reads, which make a record wait while the ring fills.
3. `timeline` and `diff`, which join events of one bundle by ids that are used again.
