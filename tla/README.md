# TLA+ specifications of the ployz Rust port

The repository ports the Go project uncloud (kept in `upstream/uncloud` as the
oracle) to Rust, one crate per Go package under `crates/`. These modules model
the parts of those crates whose correctness depends on the order of events:
shared state behind a lock that is released across awaits, background tasks,
streams that break and are resumed, checks that precede the write they justify;
and the algorithms whose results other machines rely on: subnets, placement,
negotiated formats, versions.

`PROJECT.json` lists the components, the runs with their properties, the source
lines of every definition, the mutants that show each property can fail, the
hazards and the theorems. The mapped definitions cover about 32% of the lines of
the implementation.

## Parts of the system and their modules

A daemon runs on every machine of a cluster. It keeps the cluster's state in
Corrosion, a replicated SQLite database with an HTTP API, subscriptions and an
admin socket. It sets up WireGuard between the machines, runs containers with
Docker, configures Caddy from the containers of all machines, serves metrics and
answers gRPC calls, which a proxy passes to one or several machines. A client
reaches a machine over SSH or through a userspace WireGuard tunnel, and decides
where services are placed.

| Part | Crate (`ployz-…`) | Modules |
| --- | --- | --- |
| Connection to one machine | `internal-machine-api-proxy` `backend.rs` | `BackendConnection`, `BackendLifecycle`, `BackendConnectionProofs` |
| Routing, calls to one and to many machines | `internal-machine-api-proxy` `lib.rs`, `mapper.rs`, `payload.rs` | `Director`, `Forward`, `Broadcast`, `BroadcastProofs` |
| Subnet allocator | `internal-machine-cluster` `ipam.rs` | `IpPrefixes`, `Ipam`, `AllocatorProofs` |
| Membership | `internal-machine-cluster` `service.rs` | `Cluster`, `AllocatorProofs` |
| Domains and the DNS service's client | `internal-machine-cluster` `service.rs`, `dns.rs`; `internal-dns` | `Domains`, `DnsApi` |
| Records of machines and containers | `internal-machine-store` | `Store` |
| Queries, transactions, requests | `internal-corrosion` `query.rs`, `transport.rs` | `CorrosionApi` |
| Subscriptions | `internal-corrosion` `query.rs`, `internal-machine-store` | `ChangeStream`, `SessionProofs` |
| Retries | the three `backoff.rs` | `Backoff`, `ServiceProofs` |
| Admin socket | `internal-corrosion` `admin.rs` | `CorrosionAdmin` |
| Corrosion's container | `internal-machine-corroservice` | `Corroservice`, `ServiceProofs` |
| Docker client | `internal-docker` | `DockerClient`, `ServiceProofs` |
| WireGuard device and peers | `internal-machine-network` | `WireGuard`, `ServiceProofs` |
| Userspace tunnel | `internal-machine-network-tunnel` | `Tunnel`, `TunnelStepProofs`, `TunnelProofs`, `TunnelPump`, `TrafficProofs` |
| Caddy | `internal-machine-caddyconfig` | `CaddyController`, `CaddyConfig`, `TrafficProofs` |
| TCP proxy | `internal-proxy` | `TcpProxy`, `AllocatorProofs` |
| Metrics | `internal-machine-metrics`, `internal-metrics` | `MetricsServer`, `MetricsEncoding`, `ServiceProofs` |
| Journal | `internal-journal` | `Journal`, `ServiceProofs` |
| SSH | `internal-sshexec` | `SshCli`, `SshClient`, `Remote`, `SessionProofs` |
| Placement | `pkg-client-deploy-scheduler` | `Scheduler` |
| Shared types | `pkg-api` | `ServiceSpecs` |
| Versions of a call | `internal-grpcversion` | `Versions` |
| Accounts and ownership | `internal-fs` | `Accounts` |

`Results` holds Option and Result. `MCAlgorithms` (with the inputs of
`MCFormats`), `MCNode` and `MCClients` instantiate modules for TLC.

The parts meet at the store: membership reads and writes its `machines` table
(`Cluster` uses the operators of `IpPrefixes` that `Ipam` checks), controllers
follow its tables through `ChangeStream`, `Domains` composes the handlers of the
cluster service with the DNS client of `DnsApi`, and `Scheduler` uses the volumes
and services of `ServiceSpecs`.

## Runs

| Run | Shows |
| --- | --- |
| `backend` | At most one reconnect task; an installed channel is live; no phase is left without somebody to end it; every `channel()` call returns; the backend implements `BackendLifecycle` and comes up again. |
| `tunnel` | No wake-up of a polling task is lost; a stream keeps its record, its slot and its data while it has an owner. |
| `tunnel_liveness` | The slot of a dropped stream comes back; a dial ends with the driver. |
| `caddy` | The Caddyfile on disk loads, unless its write broke off, and is the remembered one; the cached fingerprint is true; the last change is not lost. |
| `algorithms` | The functions, each on every input of a bounded set, and the machines with safety properties only. |
| `node` | Services of a machine: what they establish holds although steps failed before; none waits for ever. |
| `clients` | SSH, domains and subscriptions: nothing is reported that did not happen, no change is lost, every call ends. |
| `cluster_concurrent`, `cluster_truncated`, `change_stream_from_zero`, `tunnel_close`, `caddy_reload` | Violated: places where the code does not do what a comment or a document says; see `findings`. |

Components that share no state are checked side by side in one run, with a
variable `active` that says which of them takes the steps; the states are those
of the separate runs added up, not multiplied. In the initial state of a
component that is not active no fair action is enabled, so that fairness asks
nothing of it.

Deadlock is checked where a component has no end of its own. A tunnel that is
closed, a controller without changes, a returned call and an evaluated function
may stop.

## BackendConnection

State: the fields of `ConnectionState` (`channel`, `phase`, `reconnect_task`,
`closed`, `generation`) under their source names; `waiting`, the callers
registered with `connection_changed`; for every caller and reconnect task its
program counter `pc` and the generation `gen` it dials for; `tcp`, the live
`TrackedTcp` transports; `jobs`, what a `drop` or a failed connect still has to
do after it released the lock (wake the waiters, start a reconnect task);
`aborted`, tasks whose handle was aborted. A generation number identifies both
a dial and its transport.

Each step is one critical section or one await. `CreateNotified` and
`CheckAndWait` are separate because `notified()` is created before the lock is
taken. A reconnect task waits at its gate (`OpenGate`) until its handle is
stored. Any caller may be cancelled at an await (`CancelWait`,
`CancelConnect`), which runs `InitialConnectGuard`'s drop. tonic's part (dial,
handshake, dropping the stream before it reports an error) is modelled from how
`connect` uses it.

Not modelled: `local_channel`, which has no reconnect state; the drop of the
last `Arc` without `close`; the wrap of the 64-bit generation.

`BackendLifecycle` is what a user of the backend may rely on: `down`,
`connecting`, `up`, `retrying`, `closed` and the five transitions between them.
`status` maps the detailed state to it.

Run `backend`: two callers (an owner of the first connect and a waiter), two
task slots (so that two tasks could exist at once) and three faults
(cancellations, failed dials, lost transports). It checks the safety properties,
which are also proved for any number of callers and tasks, that every
`channel()` call returns (`CallReturns`), and that a retrying backend comes up
again or is closed (`ImplementsFairLifecycle`).

Fairness: the runtime polls every task that is ready, a dial ends because
`REMOTE_CONNECT_TIMEOUT` bounds it, a backoff sleep ends. The fault bound says
that the network is stable in the end; without it no reconnection can be
promised.

## IpPrefixes, Ipam

Addresses are numbers below `2^Width` instead of 32 or 128 bits; the mask
operations become arithmetic on powers of two. `FirstFit` is
`allocate_subnet_len`'s loop, including the check that stops it at the top of
the address space. The run `algorithms` (`Width` = 3) takes every network and every
sequence of the two operations, and compares the result with the set of free
aligned blocks computed from plain address sets; `AllocatorProofs` shows the same
for every `Width`, so for the 32 and 128 bits of the code. The stored subnets given
to `allocate_subnet` are masked, since `allocate_subnet_len` produced them.

## Cluster

`AddMachine`, `ListMachines`, `AllocateFreeSubnet`, `CreateMachine` are the stretches
of `add_machine` between its awaits on the store; `RemoveMachine` (container
records, best effort) and `DeleteMachine` those of `remove_machine`. A write may
fail before or after it took effect, and so may the deletion; its caller is told
"internal". `ListRows` lets a list query return a
prefix of the rows in name order, which is what `Store::query` does when the
stream ends with an error. A machine's key stands for the management address
derived from it. Requests without a name, for which a random one is chosen, are
left out.

- `algorithms` (`UniqueSubnets`, `MembersAreSound`): one adding and one removing
  handler, failing writes: subnets, names and keys are unique and the allocator
  always rebuilds. The network has two subnets, so that exhaustion is reached.
- `cluster_concurrent` (violated): with two adding handlers both list the same
  members and store the same subnet.
- `cluster_truncated` (violated): with one handler and one truncated list, a
  member that was not listed loses its subnet to the newcomer.

## ChangeStream

From the server to the consumer: `head` is the last change of the query,
`wire` the events in flight, `last_change_id`, `needs_resubscribe` and
`finished` the fields of the Rust `ChangeStream`, `worker`/`event`/`channel` the
thread and the channel of capacity one in `ChangeNotifications`, `seen` the head
when the consumer last listed the table. The server (Corrosion) is external: it
numbers changes consecutively, may drop an event of a lagging subscriber that
then gets a later one, may lose the connection with any suffix of the events in
flight, and may forget a subscription nobody is connected to. The retries of
one `resubscribe` are one step; running out of time is one of its outcomes.

- `clients` (snapshot ID 1, four more changes, three faults): every change
  is returned once and in order, an outdated consumer always has something
  coming, catches up in the end or is told that the subscription is over.
  Clients with and without resubscription are both initial states.
- `change_stream_from_zero` (violated): a subscription that is still at change
  0, as a new one is, resubscribes from 0; the replayed rows are discarded and
  the changes in them are never signalled.

Fairness: a connected server sends what it has, the worker's thread and the
consumer run, a request ends.

## Tunnel

One driver thread carries every TCP stream of the tunnel. A stream has a record
in the driver (`rec`, the `StreamLifecycle` with the two polls of `Aborting`
spelled out), a smoltcp socket (`sock`, `rx`, `txfull`: external) and a `Signal`
shared with its owner (`sig`, the fields of `SignalState`; `wakers` is the set
of registered halves). `phase` is the place in `Driver::run`; each turn of its
loops over the streams is a step, because other threads run between two
critical sections. `notes` are the wake-ups `sync_streams` has computed and not
yet sent. `poll` follows a task through `poll_read` or `poll_write`: attempt,
registration, second attempt. A health check is taken together with the attempt
that follows it: a failure in between has the effect of one after the attempt.
The network acts while the driver polls the stack. Buffers hold one unit. An Open
command is refused when the tunnel is full and also when the stack refuses the
connect; a dial whose time is over gives up whatever the driver has done with its
command.

Left out here: encryption and datagram queues (`TunnelPump` has the queues; their
errors are `TransferFails`), the
blocking `Read` and `Write` and the wait in `dial_context`, which look again
every tick, ports, and the capacity of the command channel.

- `tunnel`: one stream with a reading and a writing task. No wake-up is lost
  (`ParkedIsAttended`); the FIN follows all data, a record stays with its owner and
  no more than `MAX_STREAMS` are carried (`StreamsAreKept`; with one stream the limit
  is not reached here, the theorem `StreamsAlwaysKept` is for any number).
- `tunnel_liveness`: two streams, one slot, one command per turn, so that dials
  keep arriving at a full tunnel: the slot of a dropped stream comes back, a
  dial ends with the driver. Data flows in one direction on one stream, which is
  what delays a close.
- `tunnel_close` (violated): on the Stop path the streams are notified before
  the health is closed; a task that registers in between is never woken.

Fairness: the driver's thread runs, a dialing thread looks again every tick, a
woken task is polled, deadlines pass. Strong fairness of `Acknowledge` says that
a peer acknowledges data; without it a dropped stream with unsent data keeps its
slot, because the deadline starts only when the socket is closed. The system may
stop once the tunnel is closed, so deadlock is not checked.

## CaddyController

The controller handles one notification at a time: list the containers, see
whether Caddy's admin socket answers, skip if the fingerprint is that of the
last load, generate, load, write to disk (`pc`; one step per await or write).
`last_fingerprint` and `last_caddyfile` are its fields. `containers` is the list
of healthy containers in the store, reduced to what the services are and whether
Caddy's own container is listed; the latter follows `caddy` through
`ReportCaddy`. A Caddyfile is what it was generated from and whether the
user-defined configs are in it (`custom`), were rejected (`skipped`), or were
left out because Caddy was down (`unavailable`). Caddy is external: it starts
from the file on disk, and may accept a file in validation that it cannot load
(`Broken`). `write_mode` truncates the file and writes it in place, which is two
steps (`OpenFile`, `Write`): the controller may stop or fail between them and leave a
torn file (`Torn`), from which Caddy may come up or not. `restarted`, `failed` and
`unfinished` (a write was begun and has not ended) only serve the properties. The
notifications are the ones `ChangeStream` delivers, as one flag.

- `caddy` (two changes, two stops, one failed call or restart): the file on disk
  loads and is the one that the controller remembers, but for a write that broke off
  (`DiskIsSound`); the cache is right about a Caddy not started since; the last
  change is not lost.
- `caddy_reload` (violated, without any failed call): Caddy's container
  restarts. Its stop makes the controller write a file without user-defined
  configs; its start makes the list what it was at the last load, so the load is
  skipped and Caddy keeps that file.

Fairness: the controller's task runs, Caddy is started again, unless the file is
torn, and its container reported. The controller waits for ever when nothing
changes, so deadlock is not checked.

## The API proxy's calls: Director, Forward, Broadcast

`Director` has `route`, `map_machines` and the payload functions as operators.
`RouteIsExact` compares the targets with the machines that the keys name;
`MergedParses` reads the concatenated answers back with a decoder of the wire
format.

`Forward` is `one_to_one`: a task that copies requests (`copier`), one that
copies responses through a channel of capacity `FORWARD_BUFFER`, and
`DeadlineStream`. A frontend that sees its stream end without an error has got
everything (`CleanEndIsWhole`); a call whose frontend has left is let go.

`Broadcast` is `one_to_many`: a task per target, a pump with one bounded channel
per target, and the merge. A merged answer speaks for every machine
(`MergedSpeaksForAll`). A failure of a target may be fatal to the call or become an
entry of the answer. One of the two targets of the run is silent, the other
answers only when the request has ended; with buffers of one and two requests
the pump blocks. Fairness asks nothing of the frontend and nothing of a silent
target; the deadline passes.

## Domains, DnsApi

`DnsApi` has the client's functions: URLs as character sequences, JSON objects as
sequences of members, redirects and the decoding of answers. `Domains` runs the
four handlers over them; a step is an access to the store or one HTTP exchange.
A call of the store may take effect and report an error. `DomainsAreAccounted` says
where every domain that the service has reserved is: on its way to the store, or the
call was told of a failure, or it was told the name and the domain is stored, was
released, or was replaced by a call that overlapped it (`Overlapped`). So the code can
leave behind a domain that nobody holds the token of, but not after a success without
an overlap. `RecordsAreAccounted` says that a caller is told of the records that were
made. Handlers that are dropped when their client leaves are not modelled. The
client has no timeout of its own, so fairness asks the service to answer. A
redirect that turns the reservation into a GET may store a blank domain; the
properties leave the empty name out.

## Store, CorrosionApi, Backoff, CorrosionAdmin

`Store` has the tables `machines` and `containers`, the statements that change
them and the queries that list them; `newest` is a ghost. Rows of machines may
come from another node unfinished, unreadable or with another machine's ID
(`Replicate`). What is listed is what was last reported, of the rows that were
received: `query` drops the error of a stream that broke off (`ListIsCurrent`).
`list_machines` lists what `get_machine` returns, except that one unreadable
record fails the whole list and a record without a network, which `get_machine`
returns, panics there. A report that says nothing new changes no row
(`ResyncIsQuiet`).

`CorrosionApi` is functional: a body is a sequence of pieces in chunks, an event
two pieces long so that a chunk or the end may split it, and a request a sequence
of what its attempts meet. Rows end without an error exactly when the whole
result came; errors of statements are told; redirects, and attempts on one connection,
are bounded, all attempts are used before a refusal is the result, and nothing that
was answered is sent again (`RequestIsBounded`). Failed connects are retried until the
backoff gives up.

`Backoff` is the loop of an operation retried under one of the three policies,
with the wait drawn from around the interval. `MaxClock` bounds the time.

`CorrosionAdmin` reads frames as far as each read gives, while the caller
cancels `next` and calls it again; the answers stay in step. Also the state of
members and the statistics of round trips, with the rounding of `f64` at a small
mantissa. Two members with one address: the order of a hash map decides whose
state is shown, and any choice is allowed.

## Corroservice, DockerClient

A step of `Corroservice` is one request to the Docker engine, which may fail, act
and lose its answer, or be preceded by interference (`Meddle`, `PruneImage`).
`start` that returns Ok has established the container (`StartEstablishes`), and no
partial failure leaves a state that `start` cannot get past (`StartRecovers`).

`DockerClient` follows one operation through its awaits, each a biased select with
`Cancellation`; the flag and the `Notify` are separate steps of the cancelling
thread. The lookup of the registry's credentials is awaited without the
cancellation, so an operation may wait there for a helper program. A container is
created again only after a whole pull (`PullIsWhole`), and a cancelled operation
ends although the daemon owes no answer, unless it waits for that helper.

## WireGuard

The peers in memory, the device with its routes and addresses, and the ages of
handshakes and endpoint changes. `configure` is one step per netlink request, the
ticker's `run` follows; it may be cancelled, its reads of the device may fail, and
the daemon restarts anywhere. The daemon watches the endpoints with one watcher,
which a run that ends forgets; an event is lost when nobody watches, when the
watcher does not answer in a second, and when the run is cancelled during the
delivery (`missed`). `ConfigureConverges`: a configure that returns Ok leaves what
was asked for and nothing else, whatever failed before. A route that exists
already (EEXIST) is taken for the interface's own, as the code takes it: no other
interface has a route to the prefixes of a peer. Peers that can be reached come
up, and those whose latest event was delivered are recorded: in the run one peer
answers only at its second endpoint, the other has none and contacts us.

## TunnelPump

The loops of `Driver::run` that move packets: device, `Tunn` (external), queued
datagrams, socket. `PacketsInOrder`: packets leave in the order they were
written, only those of an expired session are lost, no queue outgrows its limit.
Queues of two, five packets and one expired session fill every queue.

## CaddyConfig

The generator as a function from container records to the blocks of a Caddyfile,
with its validation of user-defined configs, one by one against a Caddy that
accepts or rejects combinations of blocks. The file does not depend on the order
in which the store lists the containers, except between containers of one service
that were created at the same time, both here or both elsewhere: the first listed
configures the service, and their upstreams come in that order. Also the admin
client's adapt and load; the arguments of templates; the civil time in the header.
The text of Caddy's errors is one line.

## TcpProxy

`Proxy::run` from the permit through accept, spawn and join; handlers dial, copy,
meet the end, fail, panic or are cancelled; the future of `run` may be dropped.
Every permit is accounted for, and a run that returned left nothing behind
(`ProxyIsAccounted`). Three clients and two permits make one wait. Strong
fairness of `AcceptConnection`: the select polls the listener again and again;
idle peers owe nothing.

## MetricsServer, MetricsEncoding

The accept loop, the connections and the shutdown; the guard of a scrape moves
from the handler to the rendering task and into the body, and the client may
leave anywhere. The gauge and the counters agree with the guards
(`ScrapesAreAccounted`). Strong fairness of `MetricsStop`: `select!` chooses among
ready branches at random.

`MetricsEncoding` has the functions: routes, draining of bodies (a connection is
kept only when nothing of the body is left on it), negotiation, where a quality
may be NaN, with the port of Go's pdqsort (its thresholds 12, 8 and 50 are the
real ones, its random numbers have 27 bits; heap sort is also checked by itself),
escaping, validation and the text writers, and the counters with creation times,
which threads make concurrently. The encoders of the prometheus crate are
external. A panic of the program would be an error of evaluation.

## Journal

journalctl as a child process, the thread that scans its output, the rendezvous
with the iterator, cancellation and drop. Entries are the lines, however the pipe
cuts them, and the process has been waited for at the end (`JournalIsRead`).
Errors of `try_wait` and timestamps are left out. After a read error `next` waits
for the exit of journalctl, of which fairness asks nothing unless it was killed.

## SshCli, SshClient, Remote

`SshCli` is the loop that supervises a system ssh process with its pipes, grace
periods and writers. `SshClient` connects, authenticates and runs the task that
owns the connection, which opens one session at a time also when its caller gave
up; `channels` are those that are open. A channel that comes when the owner knows
of the cancellation is closed; one that was already sent is left open when its
caller chooses the cancellation that came at the same time (`ConnectionIsTidy`).
`Remote` is a command on a session: messages of the server, writes, cancellation
and drain. A call that reports success had it, with all its output
(`OutputIsWhole`, `OkMeansSuccess`), and a call that returned has closed its
session, unless a time limit of its clean up passed (`SessionIsClosed`); a
cancelled one ends although nothing is asked of the server, the process or the
writers.

## Scheduler, ServiceSpecs, Versions, Accounts

`Scheduler` compares `schedule` with the set of all placements that meet the
constraints: it succeeds exactly when there is one, and then every service has its
machines if it writes the drivers of its volumes like the service that they are made
for (`WritesAlike`). `VolumeScheduler` takes a driver without options for one
with empty options, and the empty name for "local"; the constraint of a machine
(`constraint.rs`) tells them apart, so that a service can be scheduled to a volume and
then have no machine. `ServiceSpecs` compares the equivalences with what
specifications mean (absent and empty driver options differ, as the tests of
`domain.rs` require) and reads formatted ports and times back; a host name that
holds a colon, with no published port, is outside the inputs. `Versions` has the
parser, the order (an order, except that numeric identifiers with leading zeros
are each below the other) and the checks of both sides of a call. `Accounts`
has the lookups in files and with the C library, and chown.

## Bounds

Every bound is a named constant of a `.cfg`. They are as small as they can be with
the cases still there: two callers (one owns, one waits), two streams for one
slot, three clients for two permits, buffers and channels of one so that they are
full, faults as many as one operation and its recovery can meet. In `algorithms`
the inputs of a function are enumerated in `MCAlgorithms` and `MCFormats`; numbers
that the code compares are taken on both sides of its limits, and sequences are
long enough for two elements to meet and a third to lie between them. Widths that
matter are scaled, not dropped: addresses of `Width` bits, ids modulo `IdModulus`,
a mantissa of `Mantissa` bits. `SYMMETRY` (keys and ids of members) is used only
in `algorithms`, which checks no liveness.

## Proofs

| Module | Theorems | Assumption |
| --- | --- | --- |
| `BackendConnectionProofs` | `AtMostOneReconnectTask`, `ChannelsAreLive`, `PhaseAlwaysAttended`, `GuardIsOwn`, `LifecycleRefinement` | `ConstantsAssumption`: callers and tasks are disjoint, `NoTask` is neither |
| `TrafficProofs` | `PacketsAlwaysInOrder`, `DiskAlwaysSound`, `CacheAlwaysTrue` | `PumpAssumption`: limits of at least one; `CaddyAssumption` |
| `BroadcastProofs` | `AnswersAlwaysWhole`, from `MergedAlwaysSpeaksForAll` and `CleanEndAlwaysWhole` | `BroadcastAssumption`: finitely many machines |
| `ServiceProofs` | `ServicesAlwaysEstablished`, from `ConfigureAlwaysConverges`, `StartAlwaysEstablishes` and `PullAlwaysWhole`; `ScrapesAlwaysAccounted`, `JournalctlAlwaysReaped`, `BackoffIsBounded` | `MetricsAssumption`: finitely many clients; `PoliciesAssumption`: initial is at most maximum |
| `AllocatorProofs` | `SubnetsAlwaysSound`, `MembersAlwaysUnique`, `ProxyAlwaysAccounted` | `WidthAssumption`: a positive width; `PowersOfTwo`: what `2^n` is; `ProxyAssumption`: finitely many clients, at least one permit |
| `SessionProofs` | `CommandsAlwaysTrue`, `EveryChangeReturned`, `StaleConsumerIsNotified` | `CliAssumption`: the limit of reads is a number; `StreamAssumption` |
| `TunnelStepProofs`, `TunnelProofs` | `ParkedAlwaysAttended`, `StreamsAlwaysKept` | `TunnelAssumption`: finitely many streams, limits of at least one |

Each is for every value of the constants, and rests on an inductive invariant.

`BackendConnectionProofs`: `Safe` adds that generations in use do not exceed the
current one and are not shared by two dials (`GenerationsOrdered`, without which a
late dial could pass for the current one), that a transport that is up has a
channel or a dial that will take it (`TransportsTracked`), what the phases say
about channel, task and pending jobs (`InitialPhase`, `ReconnectOwned`,
`NoChannelInBackoff`), and that nothing is undone after `close`
(`ClosedIsFinal`). `LifecycleRefinement` is the safety part of the refinement.

`TrafficProofs`. Caddy: the file in hand was generated from the list in hand
(`FileOfList`), so that loading it makes the new fingerprint true, and a file about
to be written loads (`WritesLoadable`). Packets: a packet is on the wire, queued,
kept by `Tunn` or with the stack, and all that are further on are older (`Carried`).
This is not inductive alone: once there is a session, a new packet could be
encrypted while older ones are still kept. `DrainsFirst` rules it out: from
`receive_datagrams` on, what a session still keeps was left by a drain that ended at
a full queue, and `send_plaintext` encrypts only with room in the queue. Every
packet is in one of the four places, lost with a session, or was for another
destination (`NoneForgotten`).

`BroadcastProofs`: what a machine was told lies in the merged entries, on the way
and in its task's outbox; `completed` counts the tasks whose last event was
collected, so that an answer given when all are counted misses nothing. Forwarded
calls: what the backend sent lies, without a gap, in what the frontend has, in the
channel and in the message in hand (`ForwardInv`).

`ServiceProofs`: one invariant for each service, with what its steps have
established so far (the peers applied to the device, the container found, the
bytes of a pull read, the scrapes under way, the state of journalctl). Retries: the
last wait is in the past, so that the next one, at least half the initial interval
long, ends later.

`AllocatorProofs`, for every address width. The provers know no powers, so what
`2^n` is stands as an assumption of `IpPrefixes`, which TLC evaluates. The search of
`allocate_subnet_len` is a loop; that it has a result and finds the first free block
(`SearchIsFirst`) takes an induction over addresses, from the least number at which
the claim would fail (`LeastNumber`, from the library's well-founded relations).
Block sizes divide each other (`SizesNest`), so the comparison of two masked
addresses in `overlaps` is an exact test for a shared address (`OverlapsIsExact`),
and the two ends that `allocate_subnet` looks at stand for the whole subnet
(`FitsWhole`). `MembersAlwaysUnique` then follows `add_machine`: what it has listed
holds every member until it writes, because nobody else adds rows and removals only
take some away (`AdderKnows`). It has two hypotheses, one adding handler and no
truncated listing; the runs `cluster_concurrent` and `cluster_truncated` show what
happens without the one and without the other. `ClusterConstants` says that the
subnet size lies between that of the network and a single address, as
`allocate_subnet_len` demands, and that machine IDs are not names of program
counters. TCP proxy: the loop holds a permit exactly while it accepts and none once
it stopped (`StoppedIsClosed`), nothing is alive outside of `run`
(`NothingOutside`), and the result tells of a panic (`PanicIsTold`). The count of
live handlers changes by one with a finite set.

`SessionProofs`. Commands: what the messages, the pipes and the transports have
shown so far decides what may be reported. That an open channel was sent to its
caller needs the place of every request (`QueueInv`): it has not been sent, waits
in the mailbox or is served and has no answer, or its answer is in the letter, so
that none is answered twice. Subscriptions: no ID in flight is beyond the server's
head (`NothingInvented`), so that a new change is always ahead of the stream, and
a worker that stopped left its error in the channel (`EndInOrder`).

`TunnelProofs`: `ParkedIsAttended` needs that a waiter is registered until it is
woken (`WaitersAreRegistered`) and that the notes of one pass are gone before the
next pass looks at the stream (`LoopsAreOrdered`). `StreamsAreKept` needs that an
Open command has a caller of its own (`OpensAreWaitedFor`), that records and
owners match (`OwnersMatch`), that a FIN closes the write half (`FinIsShut`), and
that health is lost only when the loop is left (`HealthyUntilOver`). `TunnelInv`
has one lemma per action; the longer ones are in `TunnelStepProofs`.

The theorems of services and of calls are about the specifications of the
components. That a step of `MCNode` is a step or a stutter of each of them can be read
off its next-state relation, and is left to TLC.

Only model-checked: all liveness, since the prover does not reason about fairness;
the functions without state, which are RECURSIVE operators or folds over sequences
(routing, placement, Caddyfiles, encodings, versions), where a proof for all inputs
is an induction over an operator; `Domains` and `CorrosionAdmin`, which are built on
such functions; `ListIsCurrent`, which is about a sorted list; and the
lines of `JournalIsRead` (that journalctl is reaped is proved,
`JournalctlAlwaysReaped`).

## Not modelled

- Generated code (the protocol buffers and what `api.rs` derives from them),
  embedded scripts, constants, build metadata.
- What is on a terminal: prompts, spinners, progress, the formatting of logs.
- Single calls of the system with no order to get wrong: the configuration file
  of the command line, secrets, git and operating system information.
- In the modelled parts: local channels and the cache of backends in the proxy,
  `Init` of the cluster, key-value pairs and version vectors of the store, values
  of single columns, the Docker types and image references, the TCP stack and the
  cryptography of the tunnel (external).
- An interrupt in `ssh_cli.rs` may be sent to the id of a process that was reaped
  meanwhile; the comment there says that the id is live. The hazard is listed
  without a property, since the reuse of ids is the operating system's.
