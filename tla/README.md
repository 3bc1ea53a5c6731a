# A TLA+ model of DoomDraft

DoomDraft is a collaborative text editor on top of a replicated key-value
store. Browsers send edits to an HTTP server; the server stores every edit as
one versioned key of a small database; the database is replicated by a
round-based consensus protocol among in-process replicas that talk over a
simulated, lossy network; all of it runs as coroutines of a small runtime,
cotamer. This directory models the system in TLA+: the modules are checked by
TLC on small instances, and the results that matter most are proved by TLAPS
for every instance.

Line numbers refer to `src/`. `PROJECT.json` maps every definition that models
code to the lines it models, and lists the runs, the mutants, the hazards and
the theorems.

## Inventory

| Part | Source | State | Operations | What makes it correct | Modules |
|---|---|---|---|---|---|
| Paxos replica | `pset4/pt-paxos.cc` (and a copy in `pset4/pt-collab.cc`) | role, round, promise, log, commit/apply/trim indices, per-follower indices, response cache, queued client requests | one coroutine per replica, `run`: client request, four kinds of replica message, batch deadline, heartbeat, election timeout | one leader per round; logs match; what is committed stays and is executed once, in one order, everywhere; retries get the same answer; a stable leader makes progress | `PtPaxos` |
| Failure schedules, test driver | `pset4/pt-paxos.cc` | links cut, replicas taken for available | eleven schedules, final comparison of databases | a majority can always talk; what is failed is cut off; the network is whole at the end | `Faults` |
| Simulated network | `pset4/netsim.hh` | per port a queue, per channel a loss rate and a constant delay | `send`, `send_after`, `receive` | order per channel is kept; each message is delivered at most once | `PtPaxos`, `Faults` |
| Key-value store | `pset4/pancydb.*`, `pancy_msgs.hh` | key, value, version; recent removals | get, put, compare-and-swap, remove, diff | versions identify modifications; diff tells lag from divergence | `Pancydb`, `PancydbReplay` |
| Client models | `client_model.*`, `lockseq_model.*`, `collab_model.*` | outstanding requests, leader guess, workload state | send, retry on timeout, follow redirections | a lock has one holder; the workload's checks accept what happened; pending operations are those not read back | `LockSeq`, `CollabModel`, `SubmitPut` |
| Operational transformation | `doc_ops.*`, `doc_state.*` | none (pure) | `transform`, `transform_seq`, `apply_op`, `serialize`, `reconstruct` | concurrent operations converge, keep their intention and stay in range | `OpAlgebra`, `DocOps` |
| HTTP server | `http_server.*`, server half of `pt-collab.cc` | per document: operations by version, cursors, streams; document registry; connections | POST operation and cursor, event stream, document creation, polling the database, reading a request | the cache holds executed operations in the order of their versions and catches up with the replicas; a stream ascends and leaves nothing out; a document that was created stays registered; a successful POST names the version that was stored | `ReplicaGroup`, `SubmitPut`, `DocServer`, `DocRegistry`, `HttpConn` |
| Browser editor | `static/editor.js` | server text and version, in-flight and pending operations, text area | input, send, acknowledge, stream event, failed post, new connection | one operation in flight, the front; the text is the server's with the own operations on top; no edit is forgotten | `Editor` |
| Coroutine runtime | `cotamer/` | events, mutexes, the driver's loop, timer heap, descriptors | trigger, await, quorums, lock, unlock, loop, guards, migrate, watch, close | no use after deletion, no lost wake-up, nobody overtaken; timers in order; a job handed over runs; an event wakes only its own watch | `CotEvent`, `CotMutex`, `CotDriver`, `TimerQueue`, `TimerHeap`, `FdEvents`, `FdBody` |

Interaction: a browser POSTs an operation; the server submits it, as it came, as a
put of a key of its own to the replica it believes to lead (`submit_put`), waits
for the response with the version, and notes the committed operation in the cache;
a poller refreshes the cache from a replica's database, and the event streams look
at the cache again and again. In the simulations the client models take the place
of the server.

Hard behaviours: messages are lost (one in a hundred, or all on a cut link) and
delayed; replicas are cut off and come back with their memory intact
(`fail_replica`, `recover_replica`; nothing is persisted, so there is no restart);
candidates compete; leaders are deposed with requests in flight; requests time
out and are retried; answers arrive after their sender has changed its role, or out
of order; streams break; and in the runtime several threads work on reference
counts, lock words, lists and descriptors. Each hazard is listed in `PROJECT.json`
at its line, with the properties that cover it.

## Plan

Done: the replicated log and its proofs; the transformation engine and its
proofs; the key-value store and the workloads; the server and the editor; the
runtime; proofs of all safety properties of the passing runs but one.

Left:

1. A proof of `EventsSafe` of `CotEvent`, whose threads have stacks of nested calls.
2. An abstract replicated store that `PtPaxos` implements, so that `ReplicaGroup`
   need not be taken on its own.
3. Larger instances of the parts of `Parts` and `Loop`, one run for each.
4. The lost locks of `CotMutex` and the early close of `FdBody` (below) as runs of
   their own.

## The modules

### Replicated log

`PtPaxos` models the replicated log. `replica[r]` is a record with the fields of
`pt_paxos_replica`; `channel[s][d]` is the FIFO queue from s to d. Four history
variables, which no action reads: `replies` (all answers to clients), `granted` (all
promises), `leaderLog` (for each round, the log of its leader, trimmed slots
included) and `acked` (for each replica, the rounds in which it has acknowledged the
leader's log, and how far). An action is one turn of `run`:

| Action | Code |
|---|---|
| `StartProbeRound` | election timeout, `start_probe_round` |
| `HandleProbe`, `HandlePrepare`, `HandlePropose`, `HandleAck` | the four message handlers |
| `HandleClientRequest` | `handle_client_request`, with the flush of a full batch |
| `FlushPendingClientRequests` | the batch deadline |
| `Heartbeat` | the heartbeat timeout of an idle leader |

A handler suspends only to send, and nobody but the replica's own coroutine
writes its state, so a handler is one atomic step. The helpers of the code
(`become_follower`, `update_commit_index`, `trim_log_prefix`, ...) are operators
from state to state with the same names; loops over slots are written as sets of
slots. A request is its serial, and a response is the slot at which the request
was executed first: the response is a function of the requests executed before
it, so two replicas have the same database if and only if they executed the same
requests at the same slots. `channel::send` loses a message or not (`Transmit`
chooses which survive); a cut link loses all, so failing or partitioning a
replica is no action of its own. Delays are constant, so a channel is FIFO; there
is no order between channels. Timeouts may fire at any time.

Bounds: `MaxRound`, `MaxSlot` limit elections and log length; `MaxInFlight`
limits the messages under way, and a message beyond it is lost, which is a
behaviour of the code anyway.

`MCPtPaxos` gives TLC a symmetry (the followers are interchangeable, and so are
the serials), a view that leaves out what the future does not depend on (the
per-follower indices of a replica that does not lead, which `become_leader` resets;
`leader_index`, only used in redirections; `granted`, `leaderLog`, `acked`) and, for `PtPaxosRounds`, a
constraint that admits a second message under way only while no log has an entry
(candidates compete) and up to round 1 (a message of a deposed leader arrives during
or after an election). With one message under way `PtPaxosLog` still has every loss,
retry and divergence of the two logs, but no message that an election overtakes.
`MCPtPaxosLive` adds fairness and `Progress`; it uses the same view, and its property
mentions nothing that the view leaves out. `MCPtPaxosBatch` steers TLC to one
long behaviour.

`Faults` has the schedules of the tester. The state is the set of cut links
(replica to replica, and from and to the clients), the replicas the tester takes for
available, and where the schedule waits; an action is what a schedule does between
two waits. Which replica leads and what the random source draws are left open.

### Store and workloads

`Pancydb` has the requests of the store as functions from a database and a request
to a database and a response, and `diff`. `PancydbReplay` lets one database execute
requests and a second follow. `LockSeq` has the clients that take a lock by
compare-and-swap, write a sequence, remove the rest of a longer one and unlock,
sending a request again when its response is lost; the replicas execute a serial
once. `CollabModel` has the simulated editors: pull, edit, push.

### Documents, server, editor

`OpAlgebra` has `apply_op` and `transform` (one operator per pair of kinds); a
document is a sequence of characters. The state machine of `DocOps` follows one
operation of one author: `Init` chooses the document and the operation; `Commit`
lets another author's operation take effect, transforms the pending one against it
(`transform_seq` does so commit by commit), and transforms the committed one against
the pending one for the author's view, as `diamond` in the tests of `doc_ops.cc` does
for a single pair. Two nonempty insertions at one position are excluded (`Tie`), as
`doc_ops.hh` says.

`ReplicaGroup` is what the server's client can tell of the replicas in
`pt-collab.cc`, whose protocol `PtPaxos` has: elections, redirection, one order of
the decided puts, execution replica by replica, the response cache. `SubmitPut`
adds `submit_put` and the response queue of `client_model`: attempts, timeouts,
redirections, responses that come late. `DocServer` has one document: an action for
the part of a handler between two waits (`PostBegin`, then `handle_post_op_doc`,
`handle_post_cursor_doc` or `GatewayTimeout`; `poll_doc_cache`; the steps of
`handle_stream_doc`), with the replicas reduced to one order of puts that each
replica has executed up to some point. `DocRegistry` has `POST /docs` and what the
poller learns from the registry. `HttpConn` has one connection, byte by byte: head,
body, dispatch, response.

`Editor` has several browsers at a server whose cache is current. An action is a
callback of `editor.js`: `onInput`, `handleSSEOp`, the answer to a POST
(`ackPostIfStillInflight`), its failure, `connect` and the answer to its GET.
`transform`, `applyOp` and `computeDelta` are the editor's own.

### Coroutine runtime

`CotMutex`: threads interleave at every atomic operation on `latch_`; the queue is
protected by a bit of it. A waiter may give up, in two steps: it decides to
(`attempt(mutex_event)` finds the event not triggered, or the task is destroyed) and
drops its event later, and the lock may be granted in between. A guard may be destroyed
before the mutex has set its flag. In both cases nobody will unlock: `lost` records the
call. `CotEvent`: each thread has a stack
of frames, one per active call, so that the recursion of the code (a trigger that
triggers a quorum that culls its members) interleaves at every lock and reference
count. `CotDriver`: one turn of `driver::loop`, step by step, against threads that
trigger events (`trigger_unlock`) and then migrate the jobs that wait for them
(`migrate_asap`, `migrate_wake`); timers are a sequence there.
`TimerHeap` is the heap itself, array operations and wrapping order numbers included;
`TimerQueue` is what the loop expects of it, a queue by time and then by order of
setting, and `TimerHeap!ImplementsQueue` states the refinement: the timers of the
queue are the elements of the array. `FdEvents`: the watches of one descriptor number
in one driver, the epoll registration, and a number that is closed and opened again
while events of the old one are unprocessed. `FdBody`: the reference count, the
listeners and the deferred close of a descriptor that threads share.

### Composition for TLC

`MCParts`, `MCLoop` and `MCDocServer` put components side by side that
share no state in the code either (a mutex and a database, a connection and a
cache): a variable `part` says which of them runs, and the others rest in their
initial states. A property of a part holds in such a sum just when it holds of the
part alone. These modules and `MCEditor` extend the components that theorems are
about, so that TLC checks the very definitions that are proved:

| Module | Extends |
|---|---|
| `MCParts` | `SubmitPut`, `LockSeq`, `PancydbReplay`, `CollabModel`, `Faults`, `DocOps`, `CotMutex` |
| `MCLoop` | `CotDriver`, `TimerHeap`, `FdEvents`, `FdBody` |
| `MCDocServer` | `DocServer`, `HttpConn` |
| `MCEditor` | `Editor` |

Further instances of a component, and `CotEvent`, come in by INSTANCE. Where two instances differ only in what a server or a tester may do, the
component has a variable that never changes instead: `setting` of `Editor` (may answers
overtake the stream, may posts fail) and `nreplicas` of `Faults`; `Init` chooses.
Components that do interact are composed by extension: `SubmitPut` extends
`ReplicaGroup`, `LockSeq` and `PancydbReplay` extend `Pancydb`, `CollabModel` and
`DocOps` extend `OpAlgebra`.

The proofs are in eight modules: `PtPaxosProofs` (types, elections, one replica's log)
and `PtPaxosSafetyProofs` (the logs of several, and what is decided), which extends it;
`DocOpsProofs`; `DocServerProofs` (the cache and its streams, a connection);
`EditorProofs`; `ClientProofs` (what drives the replicas or judges them: `submit_put`,
the workloads, the store, the schedules); `CotMutexProofs`; and
`LoopProofs` (the driver's loop, its timers, its watches, shared descriptors).

Operators whose comment calls them a mutant or a faulty variant are not part of the
model. They are variants of the definition that follows them, and show that a
property can be violated.

## The runs

| Run | Bounds | Shows |
|---|---|---|
| `PtPaxosRounds` | 3 replicas, 3 rounds, 1 slot, 2 messages under way while no log has an entry and up to round 1 | `ElectionSafety`, `StateMachineSafety`, `LeaderCompleteness`: an entry of an early round is replicated late, by a later leader, and is or is not overwritten (three rounds is the least at which committing by counting an old entry goes wrong) |
| `PtPaxosLog` | 2 rounds, 2 slots, 1 message under way, retention 1 | `LogMatching`, `ConsistentReplies`, `LogContiguous`, `MatchIndexSound`, `TrimmedPrefixShared`, `CommittedIsFinal`, `TypeOK`: logs diverge and are truncated and trimmed, one request can be logged twice, answers outlive a change of leader |
| `PtPaxosLive` | 1 round, 2 slots | `Progress` |
| `PtPaxosBatch` | 2 rounds, 3 slots, batch 1 | violates `StateMachineSafety`, see below |
| `Parts` | 2 lock clients of 2 rounds; 3 requests on 2 keys; 2 simulated editors, 2 edits each, 2 puts; up to 7 replicas (4 for darias); 2 puts of the server and an election, or 3 replicas and a failure; documents up to 4 characters, texts up to 2, 2 commits; 3 threads that lock once, with and without deferred guards, or 2 that lock twice; quorums of quorums over 2 events | `MutualExclusion`, `CheckAccepts`, `StoreSound`, `PendingExact`, `SchedulesSound`; `AckedVersion`; `TypeOK`, `Diamond`, `NoClamp`, `IntentionKept`; `MutexSafe`, `NoBarging`, `EventsSafe` |
| `Loop` | 2 local and 2 remote jobs, quota 2, clock up to 2; 7 timers of 2 times; 3 openings and 2 watches of a number; 3 threads at a descriptor, of which two watch and two close it, 2 copies | `BodyAlive`, `GuardHolds`, `LoopProgress`, `ImplementsQueue`, `WatchesRight`, `HangupWakes` |
| `Descriptor` | 2 threads, 1 copy | violates `LastCloses`, see below |
| `DocServer` | all requests and a body of 3 bytes in any chunks; 2 replicas; 3 posts with one repeated, without a browser; 2 posts and a browser whose stream breaks; 2 cursors | `RequestsHandled`, `CacheSound`, `StreamAscending`, `CacheConverges` |
| `StreamComplete` | 2 replicas, 2 posts, 1 browser | violates `StreamComplete`, see below |
| `Registry` | 2 documents, 2 creations, 2 databases | violates `CreatedPersists`, see below |
| `Editor` | 2 browsers, 3 operations; texts up to 2 characters and a server whose answers follow its stream; 2 loads and answers in any order; failing posts | `InflightIsFront`, `TextTrue`, `NoneForgotten` |
| `EditorConverge` | the same | violates `EditorsConverge`, see below |

Three replicas, of which one leads at first, are enough for two disjoint minorities
and for a leader that is elected without its predecessor. Four characters have room
for every case of overlap of two deletions, and two commits let an operation that was
already transformed meet one more; all characters are different, so that
`IntentionKept` can tell which was deleted or moved (the diamond alone does not: an
engine that turns every operation into the deletion of the whole text would satisfy
it). Three threads let a third come between an unlock and the waiter it wakes.
The heap has a culling size of 5 or 6, so that timers are taken out of the middle,
and starts six numbers below the wrap of the order number; one instance has arity 2,
which makes a few timers a deep heap. The clock of `CotDriver` stops at 2, which
leaves room for timers before and after a job of another thread. Two edits of a
simulated editor can be pending at once, and then their order matters.

Some statements of the runs are about all parts of a conjunction (`MutexSafe` is
exclusion, an exact latch word and no lost wake-up; `StoreSound` is four statements
about versions and `diff`); `PROJECT.json` has a mutant for each conjunct whose
failure looks different.

Deadlock is checked except where the system may really stop: `Editor` and
`EditorConverge` end when the bound on edits is reached, `Descriptor` when all
references are gone. `Parts`, `Loop` and `DocServer` name the states without a
successor (`Finished`), so any other is reported.

`CacheSound` does not say that the cache is a state the document had: an operation may
be missing below its last version, from the moment a later answer is noted
(`http_server.cc:328`) to the next poll.

`TextTrue` says what a browser shows, and that its idea of the server's text is true;
the second half is stated for a server whose answers do not overtake its stream, since
it does not hold otherwise (below), and where no post fails. `NoneForgotten` says that
some operation is in flight while any is pending, as long as no post was answered with
504: after that the editor waits for the next input.

### Fairness

- `MCPtPaxosLive!Fairness`: a message under way is received; the heartbeat of a leader
  and the answer to a proposal get through if they are tried again and again (a message
  is lost with probability 0.01 each time); the batch deadline expires; clients retry
  until they are answered. Each is assumed of some replica only, not of each one. There
  is no fairness about elections: randomised timeouts make a stable leader likely, not
  certain, so `Progress` starts from a leader that nobody challenges any more (one of
  the last round that the bound admits).
- `MCLoop!Fairness`: the thread of a driver and the other threads run, the clock
  advances, `epoll_wait` returns. Strong fairness is assumed of one thing: a peer that
  has hung up is reported by `epoll_wait`, which is level-triggered, if it is called
  often enough with the descriptor.
- `MCDocServer!Fairness`: the poller is a loop with a sleep and runs again and again; a
  replica executes what is decided. The latter holds of replicas that can reach each
  other: one that `/admin/fail` has cut off for good (`pt-collab.cc:1241`) stays behind,
  and so does a cache that is polled from it. Nothing is assumed of puts: one may be
  executed late or never.

## Divergences

### Long logs

`PtPaxosBatch` checks `StateMachineSafety` with `AppendBatch = 1` and finds it
violated. A follower that accepts a proposal commits up to
`min(decide_through, last_log_index())` (`pt-paxos.cc:784-786`). The message
vouches for the slots up to the last one it carries; if the follower's log has
more slots, left by an earlier leader, these are committed and executed although
the leader holds others there. The leader's own rule does not exclude this: it
can start below the point of divergence with a batch that ends below it, when a
surplus refusal (the answer to an earlier heartbeat) backs `next_index_` up. In
the code a batch has 16 entries, so it takes a log longer than that, a stale
suffix, and an unlucky pair of refusals; the instance scales the batch to 1. The
comment at `pt-paxos.cc:1367` says what should hold: "Live replicas should not
diverge in visible database state". All other runs use a batch that covers the
log, where the follower's rule is harmless: every accepted message that carries a
commit index beyond the matched prefix also carries the entries up to it.

### Answers that overtake the stream

`EditorConverge` checks that browsers show the server's text once everything is
committed and delivered ("A browser client that converges against a live server",
`WRITEUP_KATHRYN.md:31`) and finds it violated: `ackPostIfStillInflight`
(`editor.js:280`) raises `serverVersion` to the version of the own operation, and an
operation of another browser with a lower version that the stream brings later is
dropped as stale.

### Operations a stream leaves out

`StreamComplete` checks that a browser has every operation up to the last version it
has got, since the stream "emits any committed ops with version > last_seen"
(`http_server.cc:820-821`), and finds it violated. The answer to the second of two
puts is noted first; `note_committed` (`http_server.cc:328`) takes it into the cache
without the first, the stream emits it and goes on from there. The first operation
enters the cache with a poll, below `last_seen`, and is never emitted.

### The registry of documents

`Registry` checks that a document whose creation was answered with 200 is in the
registry ("persists the registry under `docs/registry` through Paxos",
`labnotebook.md:543`; "new document ids survive across replicas",
`WRITEUP_KATHRYN.md:53`) and finds it violated. `POST /docs` writes the registry as it
was before the wait, whatever the database has by then (`http_server.cc:1125-1129`). If
the put of the later creation is executed first, the earlier one overwrites it with a
registry that lacks the later document. The server that runs still lists it; one that
starts on the same databases does not.

### The last reference of a descriptor

`Descriptor` checks that the descriptor is closed when no reference is left ("When the
last strong reference is dropped, the underlying fd is closed", `cotamer.hh:338-339`)
and finds it violated. `fd_body::deref` (`cotamer_impl.hh:125-131`) reads the count and
subtracts in two steps: two threads that drop the last two references both read 2, and
nobody closes.

### Other divergences met while modelling

These follow from the models' actions; no run of this project states them. Where a
property above is narrower than one would expect, one of these is the reason.

- `submit_put` takes a redirection for a missing response and moves on from the replica
  that it named (`http_server.cc:89`; the comment above it says that `receive_response`
  updates `replica` on redirect). The loop can circle around the leader until its
  attempts are used up.
- `leader_` becomes the replica of the current attempt even when the answer came from
  an earlier one (`http_server.cc:71`), so that a read may miss an acknowledged put;
  `pt-collab.cc:1150` speaks of reads "straight from the leader's pancydb".
- A second POST of one (document, client, seq) takes a new version and goes out again
  (`http_server.cc:792`), although the writeup calls the triple idempotent
  (`WRITEUP_KATHRYN.md:51`).
- An operation that the poller finds before its answer is noted, or that the slow path
  of the refresh adds, goes out under the number of its client, not under its label
  (`http_server.cc:227`).
- `lockseq_model.cc:114` throws when the lock is in another client's hands, where the
  comments say "must not be waiting for ourselves" and "delay then retry".
- `collab_model.cc:71` takes the least version among answers to GETs made one after the
  other, which is not always "global commit order" (line 56) with three editors.
- A lock can be lost, although "when that guard goes out of scope the mutex will
  automatically unlock" (`cotamer.hh:413`). `notify_locked` triggers a waiter's event
  before it sets its guard's flag (`cotamer.cc:289-293`): a waiter on another thread that
  destroys its guard in between does not unlock (`cotamer_impl.hh:2176-2180`), and the flag
  is then written through a pointer to what is gone. `attempt(mutex_event)` looks at its
  event and drops it later (`cotamer_impl.hh:1763`): a grant in between has no owner, and
  neither has one to a task that is destroyed before it is resumed. `MutexSafe` counts
  these as lost: they stay in the word, exclude others and let them wait for ever.
- `keepalive()` keeps the loop until its event is triggered (`cotamer.cc:100`), and
  `trigger_unlock` triggers it before it hands the waiting job over
  (`cotamer_impl.hh:741`, `758`): the loop may return in between and the job is left
  behind. `GuardHolds` promises the job under a guard only.
- `driver::loop` may return with jobs in `asap_` that the quota of a turn left
  (`cotamer.cc:114`; `cotamer.hh:298`: "run event loop until quiescent"), and in virtual
  time a timer set in the past takes the clock back (`cotamer.cc:154`; `cotamer.hh:207`:
  "monotonic").
- `closed()` of a descriptor that is closed already gives an event that nobody triggers
  (`io.cc:118`; `cotamer.hh:367`).
- A `close()` on one thread between the look at the number and the registration on
  another closes a descriptor that is then registered (`cotamer_impl.hh:1401`), against
  `io.cc:72-74` ("The OS fd must remain open until no driver has it registered").
  `BodyAlive` holds there: it is about the body, not the descriptor.
- `json_get_string` looks for the quoted name of a field anywhere in the body
  (`http_server.cc:484-490`), in the text of an operation too, and does not undo `\b`,
  `\f` and `\u`, which `JSON.stringify` produces for control characters in pasted text.
- `schedule_eric` leaves its victim cut off and available, so that the final comparison
  includes it (`pt-paxos.cc:1359`).

## What is proved

The theorems about `PtPaxos` are for every set of replicas, serials, batch size,
retention and bound, under the three assumptions of `PtPaxos` (replicas are finite in
number and include the initial leader, bounds are naturals, sentinels are distinct from
values).

- `TypeCorrect`: `Spec => []TypeOK`. `TypeOK` is not inductive, because a flush
  could run past `MaxSlot`; `TypeInv` adds that the queue fits behind the log.
  Each helper has a lemma that says it maps well-typed states to well-typed
  states; the nontrivial ones rest on the existence of least and greatest
  elements of sets of slots (`MinMaxOfSlots`).
- `ElectionSafe`: `Spec => []ElectionSafety`. The invariant `ElectionInv` is about
  the history of promises: a server grants a round to one candidate
  (`GrantsUnique`), because it remembers the grant of its current round
  (`GrantsRemembered`); promises under way were given (`PromisesSent`); candidates
  count only these (`Candidates`); a leader has a quorum of them, or is the initial
  leader in round 0 (`Leaders`). Two leaders of a round would share a server of
  their quorums (`QuorumsIntersect`). Most handlers do not touch any of this;
  `QuietStep` says so once, and each of them is shown to be quiet.
- `LogsContiguous`: `Spec => []LogContiguous`, and `CommittedFinal`:
  `Spec => CommittedIsFinal`. A follower's log stays free of gaps only if the
  entries it is sent are a contiguous run that starts inside its log; so `LogInv`
  adds to `LogContiguous` that every proposal under way is such a run (`Shaped`),
  and `prefix_matches` gives the other half (`PrefixInside`). Each helper is shown
  to lead from a log without gaps to one without gaps and to take nothing
  committed back (`Advances`, which is transitive); a turn ends with execution up
  to date (`Settles`). These hold for every batch size: the divergence above concerns
  agreement between replicas, not what one replica does to its own log.
- `LogsMatch`: `Spec => []LogMatching`, and `MatchIndexTrue`:
  `Spec => []MatchIndexSound`. Logs are compared through the logs of the leaders:
  `HistInv` says that a leader's log is `leaderLog` of its round (`Leading`), that an
  entry of round t anywhere (in a log, `LogSound`, or in the log of a later leader,
  `LogTree`) is the entry of `leaderLog[t]` and has the same past, that a proposal under
  way is a piece of its leader's log and an acknowledgement under way is recorded in
  `acked` (`MessageSound`), and that a replica that has seen no later round still holds
  what it acknowledged (`AckKept`). The last needs the truncation rule of
  `handle_propose`: an old proposal of the same leader never removes what a newer one
  stored. All this holds for every batch size.
- `QuorumEntriesStay`: `Spec => []QuorumEntriesKept`. `VoteInv` relates promises to
  logs: what a replica had acknowledged in earlier rounds when it promised a round, the
  candidate had too, or had newer entries (`Votes`, from the up-to-date check of
  `handle_probe`), and a round with a log was won with a quorum of such promises
  (`Electors`). The quorum that stored an entry and the quorum that elected a later
  leader share a server; the newest entry of the winner's log is of a round no older,
  and descends from the stored one. This too is unconditional: what a quorum stored in
  its own round is final.
- `LeadersComplete`, `DatabasesAgree`, `TrimmedEverywhere`, `RepliesAgree`:
  `Spec /\ []ProposalsCover` implies `LeaderCompleteness`, `StateMachineSafety`,
  `TrimmedPrefixShared` and `ConsistentReplies`. `CommitInv` says that everything a
  replica has committed, and every commit index under way, is a prefix of the log of
  some leader that a quorum stored (`Committed`, `Announces`), and that the response cache
  and the answers are functions of that prefix (`CacheOf`, `Answer`). The hypothesis
  `ProposalsCover` says that no proposal under way announces a commit index beyond the
  entries it stands for. Without it the four do not hold (see "Long logs"), and it is
  used in one place, where a follower takes over a commit index. `OneBatchCovers` proves it
  for logs that fit into a batch, and `OneBatchSafe` draws the conclusion: then the four
  hold without a hypothesis.
- `OpsTyped`, `OpsInRange`, `DiamondHolds`: `Spec => []TypeOK`, `[]NoClamp` and
  `[]Diamond` for `DocOps`, for every alphabet, document, operation in range and
  number of commits; the assumptions say only that documents and inserted texts are
  sequences of characters. `Diamond` is inductive only together with `NoClamp`: if
  the pending operation could leave the text, clamping would break the commutation.
  The argument cuts the text at the ends of the two operations (`Cut`, `Cut3`);
  each operation then inserts between two pieces or drops some (`InsertBetween`,
  `EraseBetween`), and for each of the four kinds of pairs both orders leave the same
  pieces.
- `IntentionTheorem`: `CharactersDiffer` and `Spec` imply `[]IntentionKept`.
  `CharactersDiffer` (no character occurs twice in the documents and in the texts of
  different authors) is not about the code: it lets a statement tell by its characters
  what has become of a piece of text. TLC's instance satisfies it (`InstanceAssumption`).
  `IntentInv` says that the pending deletion takes exactly what is left in the text of
  the characters the original one took (`DeletesSame`), that the pending insertion is
  the original one next to one of its old neighbours, or dropped with both of them
  (`InsertsPlaced`), and that the author's view keeps the order of what was intended
  (`InOrder`, by positions). It rests on `NoClamp` and `Diamond`.
- `CacheIsSound` and `StreamsAscend`: `Spec => []CacheSound` and
  `Spec => []StreamAscending` for `DocServer`, for any replicas, posts, browsers and
  bounds, without an assumption. `ServerInv` says that every entry of the cache is an
  operation of the replicated order under its own version, each key once and versions
  ascending, and that text and version of the cache are those of its entries
  (`Sound`); that no replica has applied more than there is; and that an open stream
  stands at the last frame its browser has (`Resumes`). The last is what makes a stream
  ascend across breaks and reconnections. Whichever of the poller, the fast path of a
  refresh, the slow path and the answers to posts runs first, the entries are merged by
  version; that the operations read from a replica can be listed by version at all
  (`Ascending` is a CHOOSE) is proved by ranking them.
- `RequestsHandledTheorem`: `ConnSpec => []RequestsHandled` for `HttpConn`, for any set of
  requests, any limit of the head and any size of the buffer, under the assumption that
  a request announces the length of its body (`RequestAssumption`). `ConnInv` says that
  what was read is a beginning of the request, and that once the head is complete the
  body holds all that was read behind it (`ReadSoFar`), wherever a read happened to cut
  the blank line or the body.
- `InflightTheorem` and `NoneForgottenTheorem`: `Spec => []InflightIsFront` and
  `Spec => []NoneForgotten` for `Editor`, for any browsers, settings and bounds.
  `EditorInv` numbers a browser's operations against `Base`, the number of the front of
  `pending`: the pending ones follow it without a gap, posts below it are history, and at
  or above it the only post that waits for an answer is the one in flight (`PendingGood`,
  `FrontGood`, `PostsGood`, `Waiting`). Frames, answers, failures and new connections
  each move `Base` or leave it alone.
- `TextTrueTheorem`: `Spec => []TextTrue` for `Editor`, if only the texts are sequences of
  characters (`SettingsAssumption`). `ShownInv` gives the first half: the text area is
  the server's text with all pending operations applied. An edit keeps it because
  `computeDelta` reproduces it: the longest common prefix and suffix and what is between
  them. `OrderInv` gives the second, where answers follow the stream: a browser has
  the text of its version (`Current`), no operation is committed twice (`Distinct`), of the
  pending ones only the one in flight can be committed (`FrontOnly`), and when it is, the
  browser is still at an earlier version (`Unaware`), so the frame with it is not stale
  and the answer that follows changes nothing.
- `AckedVersionTheorem`: `PutSpec => []AckedVersion` for `SubmitPut`, for any number of
  replicas, puts and attempts. `SubmitInv` says that every response under way names the
  version of the first slot that has the put, and the log growing does not change that.
- `MutualExclusionTheorem`: `LockSpec => []MutualExclusion` for `LockSeq`, for any clients
  and rounds. `LockInv` speaks of the client that has the lock although it may not know
  yet, its response being under way (`Holds`): the cell of the lock is that client's, at the
  version its release will name; no response makes a holder give up (`Responses`).
- `CheckAcceptsTheorem`: `LockSpec => []CheckAccepts`: the check of the test raises no false
  alarm. `ValuesInv` describes the values of a group while a client works through them:
  those it has written, then those it has cleared, then one run of one value left by
  an earlier sequence (`ValuesAre`). The scan of the check is a recursive function
  (`Scan`).
- `StoreSoundTheorem`: `ReplaySpec => []StoreSound` for `PancydbReplay`, for any keys,
  values and requests, and a list of removals with room for one at least
  (`ReplayAssumption`). `StoreInv` keeps the database after each request: each is well
  formed (a version is that of one modification) and newer than all before it (`Newer`: a
  key that was lost in between was removed, which the newer one remembers, or remembers
  only removals later still). What `diff` reports of two databases follows from `Newer`.
- `PendingExactTheorem`: `EditorsSpec => []PendingExact` for `CollabModel`, for any number
  of editors. `EditorsInv` ties the pending numbers, the own number next to be read and
  the own operations in the database together: the database has those read back, and
  at most one more.
- `SchedulesSoundTheorem`: `FaultsSpec => []SchedulesSound` for `Faults`, for any number of
  replicas and any draws. `FaultsInv` says for each wait of a schedule which links are
  cut; that a majority remains connected is then a matter of cardinalities.
- `MutexIsSafe` and `NobodyOvertaken`: `MutexSpec => []MutexSafe` and
  `MutexSpec => NoBarging`
  for `CotMutex`, for a finite set of threads and any number of calls. `MutexInv` adds
  to `MutexSafe` that one thread at most is between `latch()` and `unlatch()` and the
  latch bit is set then (`LatchHeld`), that its copy of the word counts exactly the
  locks held and lost (`Counted`; the word itself is not written by others meanwhile, since
  every fast path fails on the latch bit), that a thread that is about to try
  the fast path saw a word that admits it (`FastSeen`), and that a live waiter waits
  for its current call (`LiveWaits`). The value of the word is tied to the holders by
  cardinalities, and its bits by arithmetic (`WordBits`).
- `BodyOutlivesUse`: `Spec => []BodyAlive` for `FdBody`, for any threads and any number
  of handles, without an assumption: nobody uses a body that was deleted. `BodyInv` says that
  `ref_` is the number of fd objects and of derefs that have not yet subtracted theirs
  (`Counted`, as the cardinality of `Refs`), that a deref which found a count of one is
  alone (`Held`), that the listeners are the drivers whose record points to the body or
  is about to leave it (`Listening`), and that a body to be deleted has no reference
  and no listener (`DeletedLast`).
- `WatchesRightTheorem`: `FdsSpec => []WatchesRight` for `FdEvents`, for any number of
  watches and openings. `FdsInv` says that live watches on the list are of the present
  opening (`WatchesCurrent`), that a registration has the present epoch (`EpochCurrent`),
  that an fdrec off the update list needs no update (`Updated`), and that an unprocessed
  event that still has the fdrec's epoch is of the number as it is open now
  (`BatchCurrent`): every close and reopening takes a new epoch.
- `GuardHoldsTheorem`: `Clears = FALSE` and `DriverSpec` imply `[]GuardHolds` for
  `CotDriver`, for any jobs (a finite number of threads hand them over) and delays.
  `Clears` admits jobs that call `clear`, which drops guards and jobs by design.
  `GuardInv` counts the guards as the cardinality of the guarded jobs that have not run
  (`GuardsCounted`), keeps events on the keepalive list until they are triggered
  (`KeptAlive`, which says no more of a job than that its event was) and says that a job handed over is in one place only (`HandedOnce`).
- `HeapImplementsQueue`: `HeapSpec` and `[]Recent` imply `ImplementsQueue`, the refinement
  of `TimerQueue` by `TimerHeap`, for any times, arity, cull size, modulus and start of
  `order_`. `Recent` says that no timer is in the heap while half of the insertion numbers
  (2^31 in the code) are given to others; the circular comparison is wrong after that.
  `HeapImplements` has no such hypothesis, but a bound on the timers set in all. The
  argument has three layers. Numbers: of timers that are recent, `operator<` is a linear
  order, by time and then by call, across the wrap (`Stamped`, `OrderIsAge`, `LessIs`).
  Array: a loop that moves an element keeps the elements and a heap but for one place
  (`UpOk`, `DownOk`), and has repaired that when it ends (`SiftUpHeaps`, `SiftDownHeaps`);
  `hard_cull` takes out one element, and the top is the least (`HardCullHeaps`, `TopLeast`).
  Queue: with `HeapInv` each operation is a step of the queue (`EmplaceStep`, `PopStep`,
  `CullStep`).

The other assumptions on constants, each named in the module that declares the constant,
say what kind of value it has and no more: keys of `LockSeq` include the lock and the
values of one group (`KeysAssumption`), replicas are numbered from 0 and there is one at
least (`ReplicasAssumption` of `ReplicaGroup`), the first leader is one of the replicas
(`SizesAssumption`), local and remote jobs are different and delays are natural numbers
(`JobsAssumption`), an arity is two at least, as a `static_assert` of the code has it
(`HeapAssumption`), a watch waits for something (`WatchAssumption`), and counts are
natural numbers (`EditorsAssumption`, `CommitsAssumption`). TLC evaluates all of them.

What a recursive function computes is needed for `Scan` (`ClientProofs`), `ApplyAll` and
`CommonPrefix` (`EditorProofs`) and the loops of the heap (`TurnsIn`, `TurnsExist` in
`LoopProofs`). The library's induction theorems take an
operator as a parameter and cannot be used; the proofs take the least counterexample
in a set of natural numbers instead, both to show that the function its equation
defines exists and to show what it returns.

Only model-checked: everything with fairness (`Progress`, `LoopProgress`, `HangupWakes`,
`CacheConverges`), since the prover handles neither `ENABLED` nor liveness under
fairness; and `EventsSafe`, about reference counts that are dropped inside nested calls
of several threads, for which no inductive invariant was worked out. The properties of
the expected violations do not hold, and the theorems say nothing of them.

## What is not modelled

- `cotamer/http.*` and `cotamer/curl.*`: wrappers of a third-party parser and of
  libcurl. Nothing under `pset4` uses them; the server reads requests itself
  (`HttpConn`).
- Of the runtime: the kqueue and poll back ends; `interest{}`; results, exceptions and
  the lazy start of tasks; connecting, accepting and name resolution; a guard that is
  destroyed after its driver was cleared.
- Of the server: the JSON reader and writer and the textual form of operations (the models
  keep no characters of them), static files, headers other than Content-Length, the debug log, and
  a peer that stays silent for good (the server sets no timeout on reading).
- Of the editor: the DOM, drawing and posting cursors, the list of documents. Positions
  are UTF-16 units in the browser and bytes in the server; texts are sequences of
  characters of one unit here, as in the repository's tests.
- Of `pt-collab.cc`: log repair and trimming, which are a copy of `pt-paxos.cc`
  (lines 20-24 say so), and its option parsing.
- Lengths of timeouts and delays, formatting, tracing, option parsing, random sources
  (their draws are nondeterministic choices), `small_vector` (a sequence) and the build.
