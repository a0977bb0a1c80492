# TLA+ models of the openYuanrong sandbox SDK

This directory models the concurrent and failure-prone parts of the Python SDK
under `src/python/yr_sandbox`, checks them with TLC on small instances and
proves with TLAPS, for all instances, the safety properties the runs
check and expect to hold. Paths below are relative to `src/python/yr_sandbox` unless they say otherwise.

## 1. The system

The SDK is a client library. A `Sandbox` handle creates a remote sandbox through
the *frontend*, runs actions in it, moves files, keeps interactive terminals and
shells open, and may run a *reverse tunnel* through which code in the sandbox
reaches a service on the caller's side. The frontend and RRT, the server in the
sandbox, are not in the repository: they are external in every model.

| Component | State | Operations | What is hard |
|---|---|---|---|
| Shared HTTP clients (`_http_pool.py`) | registry entry per target, reference counts, lease objects with pid, client and lock | acquire, request, close, fork hook, `close_all` | threads, fork between two critical sections, release after the lock |
| Direct invoke (`_transport.py`) | enable and sticky disable flags, route-miss counter, attempts, deadline | `invoke`, `set_direct_enabled` | unknown outcomes, late requests, flags shared by threads |
| Uploads, downloads, copies (`_transport.py`, `filesystem.py`) | offset, chunk, attempts; server's partial file; local `.part` file; tar thread, pipe, temporary archives | status, chunk, commit; ranged GET, move into place; chunks by `invoke`, tar and untar | lost replies, late chunks, crashes, files that change, a thread whose error comes after its end of file |
| Lifecycle requests (`sandbox_api.py`, `_transport.py`) | request id, attempts | pause, resume, reload, network policy, snapshot | late copies of retried requests, concurrent pauses |
| Sandbox handle (`sandbox_api.py`) | `_sid`, `_closed`, tunnel, client lease | construct, roll back, `kill`, `close`, `__del__` | failure or interrupt between steps, teardown from two threads |
| Commands (`commands.py`) | deadline, consecutive errors | start, poll, kill | slow polls, a client closed meanwhile |
| Reverse tunnel: thread and connection (`tunnel_client.py`) | `_loop`, `_thread`, `_ws`, `_connected`, `_stopping`, `ws_ready`, heartbeat | `start`, `stop`, dial, hello, ping, reconnect, clean up | state shared with `stop()` without a lock, a silent peer, `loop.stop` at any moment |
| Reverse tunnel: frames (`tunnel_client.py`) | `inflight`, `completed`, `response_credits`; streams, credits, unacknowledged chunks; channels, queues, terminated ids | `http_req`, `http_req_begin`, data, window, error; `ws_connect`, `ws_message`, `ws_close` | one receive loop that must never block, replay after a reconnect, tasks cancelled at any `await` |
| Terminals (`pty.py`, `_pty_transport.py`) | sessions, thread, loop, events | create, close, `Pty._close` | a loop that appears and disappears under `close()` |
| Shells (`shell/`) | sessions, a lock per shell, the list of shells | create, run, kill, `Shells.close` | polls that name no command, cancellation, a create during close |
| Types, scheduling hints, resources, wire format, CLI | none | conversions | nothing a model checker helps with |

How they interact: `Sandbox` owns one `SandboxClient` (a lease of the shared
HTTP client), at most one `TunnelClient` (a thread with an event loop), one
`Pty` (a thread per session), `Shells`, `Commands` and `Filesystem`, which all
call `SandboxClient.invoke`. `_close` stops them in turn. User threads may call
anything at any time; the only shared state with locks is the registry, the
leases, the terminals' connection state and the tunnel's checkpoint counter.

The hazards, each with its line and the properties aimed at it, are listed in
`PROJECT.json` under `hazards`.

## 2. Modules

Each module names its variables after the code's fields; a comment at every
variable says which. An action is one handler, or the part of it between two
points where another thread or task can run: a lock release, an `await`, a
network call.

| Module | Models | Runs |
|---|---|---|
| `HttpPool` (+ `MCHttpPool`, `TransportProofs`) | registry and leases over several processes | `http_pool` |
| `DirectInvoke` (+ `MCDirectInvoke`, `TransportProofs`) | `invoke` and `_invoke_direct` of several threads | `direct_invoke`, `direct_invoke_replay` |
| `ResumableUpload` | `upload_file_direct`: one request for a small file, `_upload_file_resumable` and its requests for a larger one | `file_copy`, `resumable_upload_stale` |
| `ResumableDownload` | `_download_file_resumable` over several calls and processes, and the RuntimeRPC download that shares its `.part` file | `file_copy` |
| `RpcCopy` | copies through `invoke`, the tar thread, streamed and fetched archives, by chunks or by one direct request | `file_copy` |
| `FileCopy` (+ `FileCopyProofs`) | `copy_from_local`, `copy_to_local`: which of the three a copy uses | `file_copy` |
| `SandboxLifecycle` | constructor, rollback, interrupt, `_close`, `create_info`, `delete` | `sandbox_api` |
| `LifecycleRequest` | `_lifecycle_request`, `create_snapshot`, and the checks of `pause`, `resume` and `update_network_policy` | `sandbox_api` |
| `SandboxApi` (+ `SandboxApiProofs`) | the two together: the control operations of `Sandbox` | `sandbox_api` |
| `CommandPoll` | `_poll_pid_until_done` | `processes` |
| `ShellSessions` | `Shell` and `Shells` | `processes` |
| `Processes` (+ `ProcessesProofs`) | the two together: running commands | `processes` |
| `TunnelLink` (+ `TunnelLinkProofs`) | the tunnel's thread, `start`, `stop`, connection, hello, heartbeat | `tunnel_link` |
| `TunnelRequest` (+ `TunnelRequestProofs`) | the request half of one stream | `tunnel_request` |
| `TunnelResponse` (+ `TunnelResponseProofs`) | the response half of one stream | `tunnel_response` |
| `TunnelWire` | the connection as the frame handlers see it | `tunnel_frames` |
| `TunnelDedup` (on `TunnelWire`) | `http_req`: `inflight`, `completed`, `response_credits`, `max_inflight` | `tunnel_frames` |
| `TunnelChannel` (on `TunnelWire`) | WebSocket channels: queues, pumps, remembered ids | `tunnel_frames` |
| `FifoRelay` | abstract: a relay of whole messages in order and once | refined by `TunnelChannel` (`Relayed`) |
| `TunnelFrames` (+ `TunnelFramesProofs`) | requests and channels over one connection | `tunnel_frames` |
| `PtySessions` (proofs in `ProcessesProofs`) | terminals, their threads and `Pty._close` | `pty` |

`FileCopy`, `SandboxApi`, `Processes` and `TunnelFrames` compose modules of one
area. What they compose does not share state but for the connection of
`TunnelFrames` (loss, wedged receive loop, reconnect), so a behaviour of theirs is
given one kind of work, chosen in `Init` by a variable marked *bound*: the
product of independent parts would add states and no behaviour.

Notes on single modules:

* `HttpPool`. Registry methods run under the registry lock and are one step.
  `_current_client` is two steps, since the lease lock is held over a call into
  the registry; a fork in between copies the lock held. A client is known by
  the process that made it and whether that was before its `close_all`.
  A pid is never reused.
* `DirectInvoke`. RRT executes a request id at most once (external); RuntimeRPC
  knows nothing of it. A request that left the client may arrive later. RuntimeRPC
  may also return a result without having executed anything: `_json` takes a 200
  that is empty or not JSON for `{}`.
* `ResumableUpload`, `ResumableDownload`. A unit of a file carries its position
  (and version), so that a misplaced or spliced unit is visible. Whether an upload
  is resumable depends on its size and `_resume_min_size`, one of `MinSizes` here.
* `LifecycleRequest`. The frontend carries out a request id once and repeats the
  recorded answer; that is what the one request id per call is for, and
  `LastReturnedHolds` fails when every attempt gets an id of its own. It may also
  answer without having carried out anything, which the checks of the answer meet.
* `SandboxLifecycle`. A posted create may be executed at any later time. An answer
  to a create that is no event stream is taken without a look at its status
  (`_transport.py:300`), so the handle may be given a sandbox that does not run; it
  names one of a request the frontend has dealt with. Stopping
  the tunnel, the shells and the terminals is one step of `_close`: their errors
  are caught and logged there. `TunnelClient.stop()` may raise, or return after
  seven seconds with the thread alive: the handle drops the tunnel in any case, and
  its thread is then `"stopping"`, which is all `ClosedReleases` asks for. That it
  ends is the subject of `TunnelLink`. A `KeyboardInterrupt` may end the constructor at
  any step (`Interrupted`); `except Exception` does not see it, and `__del__` is
  all that is left.
* `RpcCopy`. The pipe holds `PipeSize` units; the tar thread closes it before it
  records an error, as `with` and `except` are nested in the code. A write the
  client gave up on may happen at any later time.
* `ShellSessions`. Polls name the session, not the command, so output goes to the
  run that asks. Cancelling a run ends its coroutine, not the `invoke` in its
  worker thread. Every call goes through `invoke`, which may execute it twice, or
  later than it returns (`direct_invoke_replay`): a second `shell.run` queues its
  command again, a second `shell.poll` takes output nobody reads, a second
  `shell.create` makes a session nobody knows.
* `CommandPoll`. Time is an integer; a poll that finds the process running takes
  at least its `wait_timeout`, any other answer or failure anything up to
  `Slowest`. The time-outs of HTTPX bound each phase of a request, not the whole of
  it, so `Slowest` is a bound of the environment and not one the code sets.
* `TunnelRequest`, `TunnelResponse`. One event loop: a handler is atomic between
  awaits. The receive loop is a process of its own with the places it can block
  in. The peer is the mirror image of the client's own code on the other half of
  the stream. Chunks have length 1; offsets count chunks. The list of unacknowledged
  response chunks is only appended to and filtered, so it is in the order of the
  offsets and the model keeps the set of them. The upstream may answer before it
  has read the whole body: httpcore swallows the error of the write and reads the
  answer, and the client relays it (`tunnel_client.py:851`). Then nobody reads the
  request queue any more, and `put(None)` may block the receive loop in it. A
  begin is refused while there are `max_inflight` others (`tunnel_client.py:951`).
* `TunnelLink`. The tunnel thread and the threads in `stop()` interleave at every
  read of shared fields. `loop.stop` is a callback the loop runs at its next
  turn, whatever it is then running. Frames matter as far as the connection does.
* `TunnelDedup`. A cached answer leaves by age or by the limit, at different
  moments: `is_existing` is read before the cache is cleaned. Tasks of plain
  requests outlive a connection and send on the next one, but decide by the
  protocol version of the one they were started on. A stream that breaks off
  leaves an error frame, which is cached like an answer.
* `TunnelChannel`. One id used twice, with messages of one and of two frames, in any
  mixture and in both directions; one that is too large ends the pump it meets.
  A handler cancelled during `asyncio.wait` leaves its two pumps
  running until the loop's end: they still read the queue and still send.
* `PtySessions`. `close()` is split where the code leaves the state lock: mark
  and read, decide, call into the loop, join. The transport thread may also end on
  an error before it has a connection (`ThreadFails`).

Operators marked *Mutant* are plausible wrong versions of the definition after
them. They are not part of any specification: `PROJECT.json` says which property
each of them breaks, which shows that the property depends on that line.

## 3. Runs, bounds and fairness

Passing runs:

* `http_pool`: two leases of one target, a process and its child. Two leases are
  enough to share, to close one and keep the other, and to count wrongly; one
  fork brings every mixture of inherited and own clients. Checks exact reference
  counts, sharing, and that no inherited client is used.
* `direct_invoke`: two calls, two attempts, a miss budget of one, one call with a
  deadline. Every order of safe, unknown and gateway failures of two calls that
  share the flags occurs.
* `file_copy`: uploads of four units, in one request or (a threshold of 4 or of 5)
  in chunks of two with two retries; downloads
  of 0, 2 and 3 units in two versions with two retries over three calls, a crash
  possible in each; copies that do not resume, five ways, of 0, 3 and 5 units in
  chunks of two through a pipe of one, two calls. The sizes give empty files,
  whole last chunks (uploads) and short ones (RuntimeRPC); the pipe is full after
  one unit, so the tar thread really blocks.
* `sandbox_api`: two callers, three create and three delete attempts as in the
  code, detached or not, with and without a tunnel; two lifecycle calls of any
  kind with the real three attempts.
* `processes`: a command with deadline 5, interval 2, three errors and answers that
  take up to 6; two shells and two runs, each call executed once, twice or later
  than it returns. More runs are covered by the proofs.
* `tunnel_link`: two threads in `stop()`, any number of losses and reconnects: the
  state space is finite without a bound on them.
* `tunnel_frames`: one loss, two requests with room for one and a cache of one, so
  that refusals, evictions and replays meet; one channel id used twice, two
  messages of one or two frames in all, a queue of two frames: a message of one
  frame and one of two overflow it in the middle of the second. That holds for any
  number of messages by `ChannelsRelay`.
* `tunnel_request`: a body of exactly the limit and one chunk more, declared or
  not, a window of two, one loss from outside. The window is below the body
  length, so credits run out. The id leaves `terminated_streams` at any time
  (bound: not once a second upstream request has started), and the protocol error
  that follows is a second loss. An upstream that answers early and a refused begin
  happen in it. `NothingCut` and `OffsetsNeverBlamed` speak of the first upstream
  request of an id (`starts <= 1`): a second one starts with empty state, while the
  peer goes on from its last acknowledgement, so gaps and a body cut short are what
  the code does then (`tunnel_client.py:935`).
* `tunnel_response`: four chunks, a window of three, one loss from outside, the
  request in either form, an upstream that may break off. Three credits are the
  fewest with which the task can take one while the receive loop resends, and the
  resend still ends. A gap makes the peer close the connection, so a second loss
  happens all the same. With a window well below the body (one for three chunks)
  TLC also shows the client, after a loss, send a chunk the peer has no room for:
  credits of the old connection stay and the peer grants afresh on the new one
  (`tunnel_client.py:736`). That this takes a loss is proved (`GrantsRespected`).
* `pty`: one session, its user and a sweep. Sessions share nothing but the sweep.

Deadlock checking is off where the system may simply be finished or idle.

Two runs end with a violation; their findings in `PROJECT.json` quote the
sentence of the repository the code does not live up to:

| Run | What the code does |
|---|---|
| `direct_invoke_replay` | an unknown outcome followed by a safe failure or a 404 is replayed through RuntimeRPC |
| `resumable_upload_stale` | a stored chunk whose reply was lost is sent again at the next offset |

The passing properties are as sharp as the code allows. Where a stronger one
fails, the property names the exception, and the exception is reachable:

| Property | Exception it admits | Where |
|---|---|---|
| `StreamEnds` | the receive loop blocks in `queue.put(None)` on a full queue whose reader failed or was answered early, or in `send_frame` on a lost connection | `tunnel_client.py:1446`, `:570` |
| `StreamEnds` and others, by `starts <= 1` | the replayed begin of a stream whose error frame was lost starts a second upstream request | `tunnel_client.py:960` |
| `StreamEnds`, `OffsetsNeverBlamed` | an id dropped from `terminated_streams` while the peer uses it is a protocol error and costs the connection, again and again | `tunnel_client.py:655` |
| `OffsetsNeverBlamed` | after a reconnect a credit is granted twice and the peer is refused for using it | `tunnel_client.py:925` |
| `ResponseEnds` | the resend waits for credits only the blocked loop can receive; a lost `http_resp_begin` of a streaming request is never sent again; an error frame lost on its way is not repeated (only then may a failed upstream leave the peer waiting) | `tunnel_client.py:1486`, `:919`, `:809` |
| `ResponseEnds` | after a loss the end frame, sent without `send_lock`, may overtake the resent chunks: the peer takes a short body for the whole | `tunnel_client.py:757` |
| `StopStops` | `stop()` itself may raise: `AttributeError` when `_ws` became `None` between its two reads, `RuntimeError` on a closed loop | `tunnel_client.py:260`, `:274` |
| `EndsClean` | `loop.stop` while the thread cleans up ends the cleanup and leaves the HTTP client or the loop open | `tunnel_client.py:274`, `:321` |
| `DeadLinkReplaced`, `EveryRequestAnswered`, `MessagesSettle` | the receive loop answers a frame on a connection just lost and waits in `send_frame` for the reconnect that needs its own return | `tunnel_client.py:570` |
| `ExecutedOnce` | an answer that left the cache, was cancelled or was streamed to its end no longer stops a replay | `tunnel_client.py:637`, `:1473` |
| `RefusedNotRun` | at the limit the replay of a request whose answer is being streamed is refused, although it ran | `tunnel_client.py:1394` |
| `NoFalseUnknown` | an id forgotten while the peer still sends on it ends the connection | `tunnel_client.py:655` |
| `RpcFileIsSource` | the first chunk of an earlier, abandoned copy arrives late and truncates the new file | `filesystem.py:96` |
| `AnswerIsOwn` | after a run timed out, raised or was cancelled with its command under way, or a `shell.run` was executed a second time when its call was over, later runs of that shell may get that output | `shell/shell.py:69` |
| `SessionsReachable` | a shell whose create returns between the loop and the `clear()` of `Shells.close` is dropped from the list and not closed; a copy of `shell.create` executed when its call is over makes a session nobody knows | `shell/shells.py:64`, `:40` |
| `ReplacedIsWhole` | the remote file changes under a `.part` file: two versions are spliced, each unit at its own place | `_transport.py:1057` |
| `LastReturnedHolds` | a late copy of an earlier call that failed may still be carried out: the property speaks of calls that all succeeded | `_transport.py:546` |
| `ClosedReleases` | an interrupted constructor leaves tunnel and client to `__del__`; a tunnel counts as released once it was told to stop, even if `stop()` raised | `sandbox_api.py:987` |
| `FoundLoopIsStopped` | a `close()` before the loop is published stops nothing; one that meets a closed loop raises and ends the sweep | `_pty_transport.py:134`, `:138` |
| `DeletedIsGone` | `kill()` after `close()`, or after a failed `kill()`, returns and deletes nothing; after an interrupt before the create was answered `__del__` has no id to delete | `sandbox_api.py:984`, `:1046` |
| `PartIsPrefix` | a `.part` file may be complete; every later call then asks for an empty range and is refused | `_transport.py:1057` |
| `OverrunIsOneAnswer` | a poll may outlive the deadline by the whole time `invoke` waits | `_transport.py:624` |

Liveness is checked under weak fairness only, of steps the code is bound to
take: a thread inside a critical section, a `stop()` or a teardown goes on; an
HTTP request and a dial end because they have timeouts; the event loop runs what
can run; the heartbeat's sleeps and timeouts pass; the reconnect loop retries for
ever; the tar thread runs, and the generator of an abandoned copy is closed with
the exception that holds it. `TunnelRequest`, `TunnelResponse` and `TunnelFrames`
also let a connected peer read and go on, without which no stream could end.
Nothing is assumed of the remote side in `TunnelLink`, `PtySessions` and
`SandboxApi`, and nothing of errors anywhere. The resumable transfers, direct
invokes, lifecycle requests and polls are checked for safety only: that they end
follows from bounded counters.

Every module with variables but `TunnelWire` and `ShellSessions` defines a type
invariant (`TypeOK`, or a name of its own where modules are composed). They hold
within the bounds above, and all are proved. The runs list what is not a matter of
types.

## 4. Proofs

Each proof module EXTENDS the module it is about, so the theorems speak of the
very specification the runs check (its safety part: `Spec` where a run uses
`FairSpec`, `PtySpec` where it uses `PtyFairSpec`). The constants are arbitrary
but for the named assumptions, which TLC evaluates in every run. The invariants
below were checked by TLC before they were proved.

| Module | Theorems | For any |
|---|---|---|
| `TransportProofs` (registry) | `TypeCorrect`, `ReferencesCorrect`, `SharingCorrect`, `InheritedNeverUsed` | processes, finite set of leases, targets |
| `TransportProofs` (invoke) | `InvokeTypesHold`, `DoubleNeedsDoubt`, `FallbackUnsent` | calls, deadlines, budgets |
| `SandboxApiProofs` | `ApiTypeOK`, `DeletedStaysGone`, `KeptForTheCaller`, `PauseHasOwnSnapshot`, `LastCallHolds` | callers, calls, attempts |
| `TunnelLinkProofs` | `LinkTypeOK`, `NothingBeforeHello`, `SilenceIsNoticed`, `ThreadEndsClean` | finite set of threads in `stop()` |
| `TunnelFramesProofs` | `FramesTypesHold`, `ReplayRunsOnce`, `RefusalIsTrue`, `UnknownWasForgotten`, `ChannelsRelay` | requests, limits, losses, messages; finite set of uses of an id, queue sizes |
| `TunnelRequestProofs` | `RequestTypesHold`, `UpstreamGetsPrefix`, `NothingIsCut`, `PeerNotBlamed` | body, window, body limit, losses |
| `TunnelResponseProofs` | `ResponseTypes`, `UnreceivedKept`, `GrantsRespected` | body, window, losses, forms of the request |
| `FileCopyProofs` | `CopyTypesHold`, `UploadKeepsPlaces`, `CommittedUnlessStale`, `DownloadKeepsPrefix`, `DownloadReplacesWhole`, `RpcFileWhole`, `ArchiveWhole` | sizes, chunks, pipe, attempts, versions |
| `ProcessesProofs` (commands) | `CommandTypes`, `OneAnswerLate`, `RunGetsItsOwn`, `CloseReachesAll` | times, limits, runs, sessions |
| `ProcessesProofs` (terminals) | `TerminalTypes`, `OutcomeStays`, `FoundLoopIsAsked` | terminals |

Hardly one of the properties is inductive. What each proof adds:

* `TransportProofs`, registry. A release is only safe if the lease really holds a reference
  in that process and entry. `IInv` adds `LeaseShape` (what a lease object's
  state, pid and lock say of one another), `EntryShape` (an entry without
  references or client is no entry, and its client was made by its own process),
  `Counted` (the count of an entry against the cardinality of its holders) and
  `Shared` (the holders of an entry use its client). One lemma for each way an
  action moves a reference; `Counted` uses `FiniteSetTheorems`.
* `TransportProofs`, invoke. `InvokeInv` says per call where a request that RRT has or may
  still get can come from: an attempt in doubt, the attempt under way, or one
  that has ended the call (`Accounted`); that after a safe failure nothing is out
  (`SafeUnsent`); and when outcomes and RuntimeRPC executions appear (`EndShape`).
* `SandboxApiProofs`. Two invariants, one per kind of work, which `Init` chooses.
  For the handle, which stage of the constructor or of a teardown knows the
  sandbox id, and which creates may still arrive. For lifecycle requests, that a
  recorded answer belongs to the request id that asked, that copies of an earlier
  call can only repeat it, and that an answer which says what the call asks for
  (`Carried`) describes the sandbox. `KeptForTheCaller` is an action property.
* `TunnelLinkProofs`. `HelloFirst` needs what the fields read without a lock say
  of the connection (`Greeted`), `HeartbeatNotFooled` which pings are unanswered
  (`Unanswered`), `EndsClean` where the thread is in its clean-up (`Closing`), and
  all need that the `loop.stop` callbacks are at most one per thread in `stop()`
  (`Counted`, for which `StoppersAssumption` makes these finite).
* `TunnelFramesProofs`. For plain requests, where every task that may still act
  comes from: no two live tasks for one request unless it left all three tables
  (`TasksApart`, `Silent`, `Traced`), and what a refusal says (`Refusal`). For
  channels, that data on the way is for an id that is open, remembered or
  forgotten (`DataKnown`); `ChannelAssumption` makes the uses of an id finite.
  `ChannelsRelay` is the refinement: `Spec` implements the abstract `FifoRelay` in
  both directions (`Relayed`). A message that is handed over is the next one that
  was sent because of what `RelayInv` says of the frames on their way. Those from
  the peer to a use are one line, the connection and behind it the queue of that
  use (`InLine`); those to the peer another, what `from_upstream` has still to
  send and before it the connection (`OutLine`). A line is in order (`InOrder`),
  begins at the frame its receiver waits for and ends at the next message of its
  sender (`Spans`). When a queue overflows or the connection is lost, a line
  either loses its end, and then nothing of that use is put behind the cut any
  more (the use is not `registered`, or its channel is not `Live`), or it loses
  its beginning, and then the peer has given the channel up (`LineIn`, `LineOut`).
  That the frames of one use never reach the next, though they do not name it,
  rests on `OneServed`: at most one use is served, for a peer asks again on a new
  connection only, and the end of the old one has ended all handlers. Every frame
  on its way carries a part of a message that was sent (`InContent`,
  `OutContent`), and what is put together so far is the beginning of the next one
  (`Begun`).
* `TunnelRequestProofs`. `RequestInv` ties four places together: the queue
  continues what the upstream was given and ends where the chunks received end
  (`Queue`); what is on the way to the peer is no more than was received (`Told`);
  a chunk in the inbox continues what was received or an earlier chunk, so that
  cutting the inbox off at any point leaves it readable (`Following`); and, until
  the first loss, the n-th window frame on its way says how many credits came
  before it, which bounds offset and credit by the window (`Unbroken`). `Following`
  is excused while the loop is caught in `send_frame`, where it reads no more.
* `TunnelResponseProofs`. `RetainsUnreceived` rests on `ResponseInv`: every window
  frame on its way acknowledges no more than the peer has received, what the peer
  received was numbered before, and the receive loop resends only what is still
  unacknowledged, wherever in its resend a loss catches it. `GrantsRespected` is
  the absence of a fault: until the first outside loss the open peer is sent exactly
  the next chunk, for which it has room, so no gap closes a connection and no
  overrun fails a stream. Its invariant `FlowInv` says that nothing makes the client
  send again (`Undisturbed`), that the frames to the peer are one line from what it
  has received to what was sent, begin frame first and end frame last (`LineOf`),
  and that the grants on their way are the first one for the whole window and then
  one per consumed chunk (`GrantsOf`), which bounds number and credits by the
  window.
* `FileCopyProofs`. Offset, server file and requests under way of an upload
  (`UploadInv`); the `.part` file, its record and the stream of a download
  (`DownloadInv`); what tar wrote, what is in the pipe and what was sent, in this
  order, of a copy (`RpcInv`). `CommittedUnlessStale` says that the flaw the run
  `resumable_upload_stale` shows is the only one: without a chunk sent again at a
  moved offset, what is committed is the source. `DownloadReplacesWhole` is an
  action property: what `os.replace` puts in place has every unit at its place
  (`Placed`) whatever happened, and is one version whole unless the remote file
  changed under a `.part` file.
* `ProcessesProofs`. `PollInv` relates the clock to the deadline and the last
  answer; `RunInv` says that, until a command no run waits for is submitted to
  a session, it has at most one unanswered command, that of a run that waits for
  it (`OneUnanswered`), so its output is that run's; `SessionInv` says which
  sessions a create, a kill and `Shells.close` have passed on. For terminals,
  `PtyInv` says where the transport thread is when it may report an outcome and that
  every `close()` on its way has marked its session. `OutcomeStays` is an action
  property: the outcome written on the way out of the connection is not overwritten
  by a later close or error. `FoundLoopIsAsked` is the half of `FoundLoopIsStopped`
  that needs no fairness: a `close()` that found the loop has asked it to stop when
  it goes on, or the thread's task was over; that each actor closes a session at
  most once (`OneClose`) keeps what one `close()` read apart from the next.

Only model-checked:

* every liveness property (`StreamEnds`, `ResponseEnds`,
  `ClosedReleases`, `StopStops`, `DeadLinkReplaced`, `EveryRequestAnswered`,
  `MessagesSettle`, `CopyEnds`, `FoundLoopIsStopped`): fairness and `ENABLED` are
  beyond the prover.

Every invariant and every action property of a passing run is proved.

## 5. Not modelled

HTTPX, WebSocket and event-loop internals; TLS, tokens and URL construction;
argument validation; logging (and with it `checkpoint_inflight`, which only
changes log levels); the wire format of a tunnel frame (the models use decoded
frames); the text of errors; `Shell._clean_output`. Operations that are one
request without state on this side: `exec`, `list`, `kill` and stdin of
`Commands`; `read`, `write`, `list`, `exists`, `rename`, `remove`, `make_dir` of
`Filesystem`; snapshot listing and deletion; the command line. Of hello, only
the limit on requests. Within the modelled parts: two downloads to one path, pid
reuse. The Go, Java and Rust directories hold no code.

## 6. Plan

Nothing that the prover can reach is left open. With the code, two parts would be
worth adding: two downloads to one path, which share a `.part` file, and the wire
format of tunnel frames, which the models take as decoded.
