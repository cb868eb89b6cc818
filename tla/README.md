# Vodkinnet AWG-RT: a TLA+ verification of the panel and its node-agents

The repository runs a small fleet of AmneziaWG servers.  A **panel** (FastAPI, Postgres,
Redis) is what administrators use; on every **node** a **node-agent** (FastAPI) changes the
WireGuard interface of a second container, **amnezia-awg2**, with `docker exec`.  This
directory models that system in TLA+, checks the models with TLC on small instances, and
proves the main results with TLAPS for instances of any size.

Paths below are relative to the repository root.

## 1. Inventory

### Node (`node-agent/`)

| component | state | operations | interacts with |
|---|---|---|---|
| amnezia-awg2 container (`amnezia-awg2/Dockerfile`, `docker-compose.yml`) | running or stopped; the kernel interface `awg0` (key, obfuscation parameters, peers and their addresses); the file `CONFIG_PATH` | stop, restart, recreate; `awg set`, `awg show dump`, `awg syncconf`, `awg-quick up`, `awg-quick strip`, `cat >` | executed into by the agent and by operators |
| peer routes (`src/api/peers.py`, `src/wg/interface.py`, `src/wg/config_builder.py`) | none of its own but a handler's locals: the new key, the private key and the peers read by two dumps | `POST /peers`, `DELETE`, `PATCH /peers/{key}`, each followed by `_persist` | exec calls; answers to the panel |
| server routes (`src/api/server.py`) | the same | `POST /server/init`, `GET /server/status` | exec calls |
| exec wrapper and keys (`src/docker_control/executor.py`, `src/wg/keygen.py`) | a cached Docker client | `run_awg_command`, `generate_keypair` | Docker |
| authentication, routing, catch-all (`src/core/auth.py`, `src/main.py`) | the token | 401, the router's 404, 500 | |
| health, logging | none that changes | | |
| settings (`src/core/config.py`) | none: a token that is too short stops the agent | | installer |

### Panel (`panel/`)

| component | state | operations | interacts with |
|---|---|---|---|
| peer life cycle (`services/peer_service.py`, `api/peers.py`) | rows of `peers` (key, address, router, `revoked_at`) | create, revoke, download the configuration, list | agent, Postgres, Redis |
| nodes (`services/node_service.py`, `api/nodes.py`) | rows of `nodes` (key, status) | create (with `server/init`), retry-init, delete (cascades to peers) | agent, Postgres |
| routers (`services/router_service.py`, `api/routers.py`) | rows of `routers` (link status) | create, update, delete (peers keep a NULL) | Postgres |
| configuration cache (`db/redis_client.py`) | one entry per peer, with a TTL | set, get, delete | Redis |
| agent client (`services/agent_client.py`) | none | one HTTP call with a timeout; no retry | agent |
| monitoring loop (`services/monitoring.py`) | one task; `nodes.status`, traffic counters, `routers.awg_link_status` | poll every node, sleep | agent, Postgres |
| administrators (`api/auth.py`, `api/dependencies.py`, `core/security.py`, `scripts/create_admin.py`) | rows of `admins`; signed tokens | login, check of a token, creation | Postgres |
| web pages (`api/web.py`) | a cookie with a token | login, logout, pages behind the cookie | Postgres |
| settings, start-up, schemas | none: secrets that are too short stop the panel; the lifespan starts and ends the monitoring loop | | installer |
| installers (`panel/install.sh`, `node-agent/install.sh`) | on the machine: Docker, an account, files, `.env`; in postgres or at the panel: the secret in `.env` | one run from the first command to the last; another run after a failure | the operator |

### What is hard here

* **Steps of several actors.**  An agent handler is a chain of up to six exec calls; the
  container can stop or restart, an operator can run `awg-quick`, and the agent can die
  between any two.  Handlers exclude each other only because they are `async def` bodies
  without an `await`.  Panel handlers do `await`, and interleave at every database, agent
  and Redis call, with each other and with the monitoring loop.
* **Three stores, no transaction.**  A peer lives on the node, in Postgres and, for 48
  hours, in Redis.  Every handler changes them one after the other and any of the calls can
  fail, time out after having taken effect, or be lost with the process.
* **State that vanishes.**  The interface does not survive a container restart; the file is
  there to bring it back.
* **Stale state.**  The monitoring loop writes what it learned before an `await`, and what it
  loaded may be gone by then; a token outlives the row it was issued for.
* **Locks.**  A poll is one database transaction over many awaits.  It locks rows in another order than
  the handlers that delete nodes and routers.
* **Being cut off.**  The installers may end between any two commands and are run again.

PROJECT.json lists these as hazards, each at its line.

### What makes each component correct

* agent: what it saves is what is live; success means the change is live and saved; a 4xx
  means nothing was changed; `server/init` never replaces the key of a live interface; every
  request is answered.
* panel peers: a peer the panel calls revoked has no access; a live peer whose configuration was
  handed out has the row a revoke starts from, and a delete the agent answers takes its access away; a cached private key belongs to a peer that is not revoked.
* nodes and monitoring: the status of a node, and that of a router behind one peer, become what the
  agent says and stay so; every node is polled again and again; no row is locked while somebody waits for
  an agent; what was deleted is not brought back.
* administrators: an account that was reported created can log in; nobody gets in with a token of a deleted
  account; sessions end.
* installers: no re-run replaces a secret that somebody else remembers; re-running completes the
  installation, from every state but those the runs' section names.

## 2. Modules

| module | models |
|---|---|
| `AwgNode` | the agent's handlers exec by exec, the container, operators |
| `AgentContract` | what the panel may rely on: the abstract specification of an agent |
| `AwgNodeRefinement` | the refinement mapping from the first to the second |
| `AwgNodeProofs` | the inductive invariant of `AwgNode` and six theorems |
| `AwgNodeRefinementProofs` | `AwgNode` implements `AgentContract`; what its deletes take away |
| `PanelPeers` | the panel's peer and node handlers over the contract, Postgres and Redis |
| `PanelPeersProofs` | the inductive invariant of `PanelPeers` and two theorems |
| `PanelRevocationProofs` | that invariant with the history of each create and revoke, three theorems, and `PanelPeers` implements `PeerLife` |
| `PeerLife` | what an administrator is promised of a peer: the abstract specification of the panel |
| `PanelLife` | the refinement mapping from `PanelPeers` to it |
| `Fleet` | the panel over the agent itself: `PanelPeers` and `AwgNode` composed |
| `FleetProofs` | the composition implements `PanelPeers`, and so has its theorems |
| `Monitoring` | the monitoring loop and the handlers that write the same rows, with their transactions |
| `MonitoringProofs` | the inductive invariant of `Monitoring` and four theorems |
| `Admins`, `AdminsProofs` | `create_admin.py`, the two logins, the checks of tokens; three theorems |
| `Install`, `InstallProofs` | the two installers and what outlives their runs; three theorems |
| `MCAwgNode`, `MCPanelPeers`, `MCFleet`, `MCMonitoring` | instances for TLC |

Four of them are levels of one specification:

    Fleet  (panel, agent and container, exec by exec)
      implements  PanelPeers over AgentContract  (the panel, and what it may rely on)
        implements  PeerLife  (what becomes of a peer)

`PanelPeers` is written over the contract, which `AwgNode` implements; `Fleet` puts `AwgNode` in the
contract's place, and what was shown of the panel holds with the agent it really has.  `Monitoring` looks at the same
handlers from the other side: what matters there is which rows they lock and when they commit, so the
agent is only up, down, unreachable or not to be understood, and the handlers that commit once (`AddPeer`, `Revoke`, `AddRouter`)
are one action each.  Their awaits are in `PanelPeers`.

### AwgNode

`container`, `iface`, `disk` are the container; `loop` is the request whose handler owns the
agent's event loop; `pc[r]` names the exec the handler of request `r` makes next and `reg[r]`
holds its locals (`made`: the generated key, `key`: the private key the first dump of
`_persist` returned, `peers`: what the second one returned, `text`: what `awg-quick strip`
printed).  `handed` is the last text given to `write_server_config`, `minted` the keys
generated so far, and `epoch` counts stops and operator interventions.

One exec is one action: `AddPeer` is the `awg set` of `add_peer`, `PersistKey` and
`PersistDump` are the two dumps of `_persist`, `PersistWrite` is `write_server_config`, and so
on (PROJECT.json's `map` gives the lines of each).  Both outcomes of an exec are in its action: the
container does not run (`AwgContainerUnavailable`, or Docker's own error), or the command
fails (`AgentCommandError`), or it succeeds; what follows is what the code does next, up to
the answer.  Three abstractions are worth naming:

* an exec is atomic, and `generate_keypair`'s two execs, which touch nothing shared, are one;
* a key pair is its public key, so the private key a dump returns is `iface.key`;
* the file is either missing, or a configuration, or `Unexpanded`: `write_server_config` pipes
  through a *quoted* heredoc, so the shell writes the word `$CONFIG_CONTENT` and not its
  value.  The model does what the code does; `handed` is kept to talk about what the code
  meant to write.

External, modelled from how the code uses them: `awg set` gives an address to one peer and so
takes it from any other (cryptokey routing), ignores a peer with the interface's own key, and
succeeds when it removes a peer that is not there; `awg-quick` and `awg syncconf` refuse a
text with `AllowedIPs = (none)`; a stop of the container destroys the interface.

Two directories for `CONFIG_PATH` are possible, because the image creates only
`/opt/amnezia`: `ImageDisk` says whether `/opt/amnezia/awg` exists (`NoFile`) or not (`NoDir`,
where every write fails).

### AgentContract and AwgNodeRefinement

The contract has no exec, file or dump.  A request is sent, takes its one effect on the peers
at one instant (`Apply`), and is answered; success only after the effect, a refusal (4xx)
only without one, a failure (5xx) or a loss at any time; at most one effect is unanswered at
a time.  The mapping reads the contract's phase of a request off its program counter: the
effect is the `awg set`, everything after it is `_persist`.  `made[r]` is the key pair the handler has
generated, from `Mint` on.

The contract describes the code as it is.  The key that `BringUp` gives to the interface is the file's, and not
always the one that was generated for the request.  `server/init` brings an interface up
only on a node without peers, and an interface that is brought up has none: since
`write_server_config` never writes a configuration, only an operator's file, which has no peers, can
be brought up.  Whoever repairs the heredoc has to let `Operate` and `BringUp` restore the saved
peers, and to look at `RevokedIsGone` again: a file saved before a revoke whose `_persist` failed would
bring a revoked peer back.

### PanelPeers

One node, the panel's handlers, and the three stores they write: the node (`live`, `server` and the
other variables of `AgentContract`, instantiated with the calls the panel makes), Postgres
(`nodeRow`, `nodeKey`, `peers`) and Redis (`cache`).  A handler is a coroutine: `pc[r]` is the
await it is at, and an action runs to its next one.  `snap[r]` is the row the handler has loaded
(`session.get`; SQLAlchemy writes only what differs from it, which is why `StampPeer` and
`SaveKey` compare with it), `wire[r]` the call it has made, `body[r]` the key in the agent's
answer, `answer[r]` its status code.  A request makes at most one call and at most one row, so
requests name peers and calls as well.

The network is the `phase` of the contract: a call that was sent arrives at any later time
(`Deliver`) or never, even when its handler has timed out, and the panel may give up at any time
(`HearFailure`), whatever the agent does.  `StoreFails` is an exception of Postgres or Redis at any
await; `PanelCrash` ends every handler; `Expire` is the TTL.  `StoreFails` changes no store: a commit
that took effect although its answer was lost is what a crash after the commit looks like to
everyone but the administrator, who is told 500 instead of nothing.

Abstractions: one node row, and it is registered once (a second row for the same agent is an
operator's mistake that the code does not look for); the address is chosen by the administrator; routers
are left out, but for the foreign key's effect, an insert that fails (`StoreFails`); the `status` column
is in `Monitoring`.

`given[r]` is a history variable, which no action reads: the keys with access that were generated for the request r
(`Remember`).  The contract forgets that when it answers, and `OrphansComeFromFailedCreates` is about it.

The key in a successful answer (`AgentSucceeds`) is the one the handler generated, or for a `server/init` that found
the interface up, the interface's.

### PeerLife and PanelLife

`PeerLife` has no handlers and no calls.  A key is fresh, given or lost, and never goes back; a row is recorded once,
with a key that was given and that no other row names, and is revoked once, after its key was lost; a
configuration is handed out once, and a revocation that was answered stays true.  `PanelLife` reads this off
`PanelPeers`: a key is fresh while it is not generated or a call that has not been carried out holds it
(`Fresh`), given while the interface has it, lost otherwise; the answers are the 201 of a create and the 204 of a
revoke; what is stored is Redis.  Deleting a node closes everything: its rows go, the keys keep the access they had,
and whoever holds a configuration keeps it.  That is the code's cascade, and what the panel promises ends there.

### Fleet

The variables are those of `AwgNode` and of the panel; nothing is shared but the HTTP calls.  `Deliver(r)` is the
arrival of the call in `wire[r]`, with or without the agent's token (the panel sends what the row of the node has,
which an operator typed); what arrives is `call[r]`, and `Asked` is that call as the panel made it, the token left out.
The answer's status and key, `reply[r]`, are what the panel may hear (`Bodies`).  `Handle(r)` is the panel's step, with
the phase of each request as `AwgNodeRefinement` reads it off the agent.  `NodeStep` is everything that happens at the
node: each exec of a handler, crashes, stops, operators.

A node starts as its image leaves it, or provisioned by an operator (`ProvisionedInit`): a configuration with a key and no
peers, the interface up, and the key in the panel's database.

### Monitoring

`nodes`, `peers` and `links` are the three tables, by primary key: a key is never used again, so a row is
"none" before it was inserted and "deleted" after.  `agent[n]` and `shown[p]` are what the agent of a node
would answer now; `Drift` changes them at any time.

`pc` is the await the loop is at.  `Tick` lists the nodes in a session of its own; `BeginPoll` loads one in a
new session; `AgentSilent` and `AgentAnswers` are the two outcomes of the calls; `MarkUnknown`,
`LoadPeers` and `LookAtPeer` are the queries that follow; `Commit` ends the transaction.  What the ORM
does between them is part of the actions, because it decides what is locked:

* an assignment only makes a row `dirty`.  The next query, or the commit, flushes it: an UPDATE, which
  needs the row (`Exists`) and locks it (`held`) until the transaction ends.  A column is written only if its
  value differs from the one that was loaded;
* `session.get` of a router issues a query the first time only (`LooksUp`), and for a router that was deleted
  since its peer was loaded (`LookForRouter`);
* an UPDATE that matches no row raises `StaleDataError`; and an answer that cannot be read ("garbled": some other
  service listens at the address and answers 200, a field is missing, a date does not parse) raises, on every poll, what
  `poll_node_once` does not catch (`PollRaises`).  `PollFails` is the `except` that logs it; the session is rolled back
  and the loop goes on to the next node of the tick.

The handlers: `AddNode` and `RetryInit` commit or load, wait for the agent, and write the status
(`SaveOnline`, which writes nothing when the status was loaded as online).  `Delete` loads the peers of a node
or of a router, `LockPeers` deletes or updates them, `LockRow` deletes the row, `CommitDelete` is the rest of
the cascade and the commit.  A poll locks its node first and peers and routers after it; a delete locks peers first and its
row after them.  They can block each other, three of them in a ring as well (a poll, the delete of a router and
the delete of a node), so `BreakDeadlock`, PostgreSQL's detector, looks for rings of any length and rolls
back one member.

Abstractions: `LockPeers` locks its rows at once, where PostgreSQL takes them one by one; a listed peer
with a handshake has moved bytes since the last poll, so its counters are always written; the order of the
peers of a poll is free, as the query has no ORDER BY; `update_router` writes only columns that nothing here reads.

### Admins

`admins` has one place for each run of `create_admin.py`, the only code that inserts a row; `removed` are the
rows an operator has deleted in the database (the panel deletes none).  A run prompts, checks and inserts
(`Prompt`, `Check`, `Insert`), and another run may come in between: the unique index then refuses the
insert.  A token is who it names, which `JWT_SECRET` signed it and how long it is good for; `Tick` ages all
of them.  `ApiLogin` gives a client a token for its header, `LoginSubmit` one in a cookie; `Ask` takes
the header before the cookie for the API and only the cookie for pages, and `LookUp` is the
`session.get` that comes after the signature was checked, with the refusal each kind of request gets.
`Rotate` is an operator who replaces `JWT_SECRET`.

Abstractions: names are what the script has stripped; bcrypt compares passwords; a signature is
right exactly when its key is the current one.

### Install

Both scripts, parameterised by which it is.  `at[s]` is the command, `generated[s]` the shell variable with the
secret, everything else is what stays on the machine when the shell is gone.  `Interrupt` ends a run before any
command; `GiveUp` is a command that cannot work on the machine as it is; `Start` runs the script again.

`docker[s]` is what the machine has of Docker: the command, the compose plugin, the running daemon.  It starts with any
part of it or none.  `FindDocker` looks for the command alone; when there is none, `GetDocker` installs the packages one
after the other and `EnableDocker` starts the daemon.  `CheckCompose` looks for the plugin, on every run, and `BuildImages`
needs the daemon.  `RepairDocker` is the operator, who may do what the scripts' messages ask and need not.

The other thing that can go wrong for good is `.env`.  `OpenEnv` creates it when it is not there, empty (`Torn`), since the shell opens
the redirection before the `date` and the `cat` that fill it; `WriteEnv` fills it.  `knows[s]` is who remembers
the secret: the volume postgres initialised with the password (`ComposeUp`), or the panel where the operator
registered the node with its token (`Register`).  `PanelStarts` and `AgentStarts` are the checks of `Settings` and,
for the panel, of postgres.  The database and the panel of one compose file start as one step.

## 3. Runs

### The agent

These runs are of `MCAwgNode` with three keys (one of which has a `/`), one address and one
malformed address.  One address is enough for two peers to collide over it; three keys are
what a node key, a created peer and a named peer need.  `MaxEpoch` bounds stops plus operator
interventions: bringing an interface up takes one, so 2 gives a disturbance of a live node
and 3 one that is brought up again with the file that survived.  `agent_contract` stops at 2 because a third would use up the
keys: a handler that finds none left would wait for one, which no real `awg genkey` does.  No run checks deadlock: when
all requests are answered and the bound is used up, there is nothing left to do.

| run | instance | shows |
|---|---|---|
| `agent_handlers` | 3 requests that change the node, `MaxEpoch` 3, requests symmetric | type invariant, the inductive invariant, `RendersLive`, `InitOnlyWhenDown`, `AcknowledgedIsSaved`, `AcknowledgedIsLive`, `DeletesTakeBack` |
| `agent_contract` | 2 requests of every kind, `MaxEpoch` 2, image without the directory | the contract is kept (a refinement); every request ends, under fairness |

`DeletesTakeBack` is the agent's half of a revoke.  What a delete is answered says little of what it did (200 for
a peer that was not there, 404 for a node that is down, 500 when only the saving failed), but whenever one that carries the
token is answered, its key has no access.  A key with a `/` is excepted: the route does not match it, and the router's 404
comes from a node that still has the peer.

Three requests are enough for one that makes a change, one that would disturb it and one that
is waiting; the proofs are for any number.

Fairness: `FairSpec` asks for weak fairness of `Serve(r)`, the agent's own steps for each
request.  uvicorn's event loop runs a handler that is ready, and `exec_run` is assumed to
return.  That last assumption is not enforced by the code (`DOCKER_EXEC_TIMEOUT_SECONDS` is never
used), and PROJECT.json has it as a hazard.  Nothing is assumed of the container, the operators or
the panel.

### The panel

Both runs have one address, so that two peers collide over it.

| run | instance | shows |
|---|---|---|
| `panel_peers` | 3 keys, 3 requests of which at most one neither creates nor revokes (`OneOther`), keys and requests symmetric | `TypeOK`, `RevokedIsGone`, `HandedOutHasRow`, `OrphansComeFromFailedCreates`, `RevokeMeansGone`, `KeepsPeerLife` |
| `fleet` | of `MCFleet`, over the agent itself: 2 keys, one with a `/`, 2 requests of every kind, with and without the token, `MaxEpoch` 1 | `KeepsPanel`; `EveryAdminRequestEnds`, under fairness |

`panel_peers` is of `MCPanelPeers`.  Three keys are the node's and those of two peers; three requests are two creates
and a revoke, a create and two revokes, or a create and a revoke with the node registered, initialised or
deleted meanwhile (`fleet` has two requests of the last kinds).  Nothing else is bounded: calls may arrive at any time and the agent, the node and the panel may fail as often as they like.  Handlers
that finished never restart, so every behaviour ends, and deadlock is not checked.

In `fleet` the state has every exec of the agent in it, and two requests with one stop or intervention are what TLC
checks in its time (200 000 states).  Two requests are a create with the revoke of its peer, two creates for one address, or either with
the node registered, initialised or deleted meanwhile.  A node has to be brought up before anything else is of
interest; starting from a provisioned one leaves the one disturbance for later.

`KeepsPeerLife` is the refinement of `PeerLife`.  It is the strongest statement about the panel: among other
things, a revoke that was recorded is never taken back, whichever of two overlapping ones writes last, and no two rows
name one key.

`HandedOutHasRow` and `OrphansComeFromFailedCreates` say together which peers can be left live with no row
a revoke could start from: never one whose configuration was handed out, and each that is was generated for a
create which was itself answered 5xx, was lost with the panel or is unfinished.  A row is where a revoke starts and not yet
its success: of a key with a `/`, about half of all keys, every revoke is answered 502 and the peer stays as it is.
`RevokeMeansGone` is an action property of the
step that answers 204; its last conjunct has an exception, which is a race the code has: a revoke that
comes between the commit of `create_peer` and its write to Redis deletes nothing there, and the
configuration of the revoked peer is then cached for its TTL.

Fairness: `FairFleet` asks for weak fairness of `Handle(r)`: the panel's event loop runs on, Postgres
and Redis answer or fail, and the HTTP client gives up after `AGENT_REQUEST_TIMEOUT_SECONDS`.
Nothing is asked of the agent, the network or the administrators.

### The monitoring loop

These runs are of `MCMonitoring`.  `monitoring_status` has two nodes, so that the polls of one can fail while the other
waits for its turn in the tick; the others have one, since polls of different nodes share nothing but the loop.

| run | instance | shows |
|---|---|---|
| `monitoring_status` | 2 nodes whose agents are up, down, unreachable or not to be understood, 1 request that adds, initialises or deletes either | `StatusConverges`, `EveryNodePolled` |
| `monitoring_links` | 1 router, 1 peer that comes and goes, thresholds 1 and 2, ages -1, 1 and 2, no handshake, not listed, 1 restart | `LinkConverges` |
| `monitoring_shared` | 2 peers behind 1 router, 1 request that deletes the router, no fairness | `LinksFollowAPeer` |
| `monitoring_deletes` | 1 peer, 1 router, 2 requests that delete the node or the router | `TypeOK`, `NobodyWaitsLocked`, `GoneStaysGone`, `RequestsEnd` |

`EveryNodePolled` is the promise of `monitoring.py:153-156`.  Were the inner `try` not there, the one around the tick
(lines 165-168) would catch the exception, and the nodes that come after the failing one in the tick would not be polled on
any tick: that is the mutant.  A node whose polls fail for ever keeps the status it had; nothing in the repository says what it
should show, and `StatusConverges` does not speak of it.

In `monitoring_deletes` two requests and the poll are the three members of the longest ring of locks; with one peer and one
router each lock is there that a poll and a delete can dispute.  The ages are one in the future, one at
each threshold, and both ways of having none.

The two convergence properties assume that from some time on nobody is deleting anything (`NoDeletes`): each
of endless deletes may have the poll rolled back that would write the status.  `LinkConverges` is about routers with one active peer: with
several, the peer that comes last in an unordered query decides, which the code does not define.  `LinksFollowAPeer` says
what is left then: a poll writes only what one of the peers behind the router calls for, even when peers and router are
deleted or revoked in the middle of it.

Fairness: strong fairness of `PollStep` and of `HandlerStep(r)`, weak fairness of `BreakDeadlock`.  A step that waits
for a row lock is enabled and disabled as others take the row; PostgreSQL queues those who wait, so one that could have had it
infinitely often gets it.  The loop's sleeps end and the agent client has a timeout.  Nothing is asked of the agents
and of those who make requests.  Restarts are bounded by `MaxCrashes`.  Deadlock is checked in these runs and in
those below: the loop never ends, nor do clocks, and an installation can be started again.

### Administrators and installers

| run | instance | shows |
|---|---|---|
| `admins` | 2 runs of the script for 1 name, 2 passwords, 1 client, tokens that live 2 ticks, 2 values of `JWT_SECRET` | `TypeOK`, `CreatedCanLogIn`, `RemovedStayOut`, `SessionsEnd` |
| `install` | both scripts, on machines with any part of Docker, 3 secrets, at most 3 failures | `TypeOK`, `SecretsFit`, `CompleteServes`, `RerunCompletes` |

Two runs for one name are those that can collide, and one of them may create the account again that was deleted; a
life of 2 has a tick at which a token is used and still good.  Three failures let a script fail, fail again on
what the first left, and fail once more on what the second left; three secrets let it draw a new one each time.

`RerunCompletes` has two exceptions, states that no further run gets out of: an empty `.env`, and a docker command
without its plugin or its daemon.  The first is left by a run that is cut off between the creation of the file and the
writing of it, the second by one that is cut off in `get.docker.com` or before `systemctl enable`, or by whoever set the
machine up.

Fairness: clocks run (`Admins`); in `Install` a shell goes on to its next command, and an operator
whose script has not completed runs it again.

### What the documents say and the code does not do

Two of these have a run that finds the property violated; PROJECT.json quotes the lines.

| run | property | the document | the code |
|---|---|---|---|
| `doc_disk` | `ChangeReachesDisk` | the file has every acknowledged change | the quoted heredoc writes `$CONFIG_CONTENT` |
| `doc_missing` | `MissingMeansDown` | the router of a peer missing from the response is down | a revoked peer is not looked at: its router keeps its status |

The following are stated in `AwgNode` and `PanelPeers`, are false as well, and are checked by no run:

| property | the document | the code |
|---|---|---|
| `UnavailableIs503` | an unavailable container is answered 503 | only `GET /server/status` does; the others answer 500 |
| `NotFoundMeansAbsent` | 404 means the peer is not on the node | the route does not match a key with a `/` |
| `SavedTextParses` | the saved text can bring the interface up | a peer whose address moved is saved as `(none)` |
| `PersistsFromLive` | the file is rewritten from the live interface | a failing dump is saved as "no peers" |
| `NullMeansUninitialised` | a node without `public_key` is not initialised | the call may be executed after the panel gave up |
| `FirstRevocationKept` | `revoked_at` is history | of two overlapping revokes the later time is kept |

More disagreements can be read off the actions.  A reachable agent is not enough for "online": an interface
that is down makes its node offline (`AgentAnswers`, `panel/src/services/monitoring.py:97`; its docstring, line 10,
says otherwise).  The routers of a node that does not answer become "unknown" (`MarkUnknown`); line 57 of
`docs/architecture.md` says "down", line 60 "unknown".  "Safe to re-run" (`panel/install.sh:22-26`,
`docs/deployment.md:116`) has the exceptions `RerunCompletes` names: a run that is cut off between the creation of `.env`
and the writing of it leaves an empty file, which every later run uses as it is; and one that is cut off while it installs
Docker leaves the command, which is all that later runs look for before they skip the installation and the start of
the daemon (`FindDocker`, `panel/install.sh:64`, `node-agent/install.sh:58`).  With the
quoted heredoc, `server/init` never brings an interface up (`InitUp`; `node-agent/src/api/server.py:72-74` says
it does).  `_persist` passes `{}` for the node's obfuscation parameters, so the saved text has none
(`PersistWrite`; the comment at `node-agent/src/api/peers.py:78-79` says it uses the server's).  Deleting
an unknown peer is answered 200 (`RemovePeerStep`; `docs/api-contract.md:84` says 404).  `server/init` answers with the
key it has generated even when an operator's `awg-quick up` has meanwhile brought the interface up with another
(`InitUp`).

## 4. Proofs

`AwgNodeProofs` proves, for any sets of keys, addresses, requests and calls and any bound:

* `TypeCorrect`: `Spec => []TypeOK`.  `TypeOK` alone is not inductive: what `PersistWrite` hands
  over is a configuration only if the handler's `key` local is a key.  `TypeInv` adds, for each
  step, which locals are set.
* `HandlersStayConsistent`: `Spec => []HandlersConsistent`.  `HandlersConsistent` says that the
  handlers exclude each other, that each is at a step of the call it serves, and that a handler
  which nobody disturbed (its epoch is the current one) knows the state of the node:
  after the `awg set` the change is live; after the first dump the key it holds is the live
  one; after the second, so are the peers; after `server/init`'s check the interface is down.
  It is what makes the next four true, none of which is inductive alone, because each
  speaks of one step only.  `KeysMinted` (a key in use was generated) is in it because
  `AddPeer` would be ignored by an interface whose own key it was given.
* `SavedTextIsLive`, `InitSparesLiveNode`, `AcknowledgedChangesAreSaved` and
  `AcknowledgedChangesAreLive` follow from it, the last two as action properties.

`AwgNodeRefinementProofs` proves `AgentKeepsContract`: `Spec => KeepsContract`.  It adds to the
invariant that an interface that is down has no peers, that a request not being served has
no locals, that a file which can be brought up has no peers in it, and that a node which `server/init` is
about to bring up has none, and that a handler holds a generated key exactly from the step that generates it to its
answer (`KeyMade`); it maps each action to an action of the contract or a stutter, one lemma per
group of actions, and combines them.  `DeletesTakePeersBack`: `Spec => DeletesTakeBack`, with `Removed`: a handler that has
removed its key and is now persisting leaves it removed, because nobody else's handler runs meanwhile (`StaysAway`).

`PanelPeersProofs` proves, for any sets of keys, addresses, requests and jobs:

* `PanelTypeCorrect`: `Spec => []TypeOK`.  Needs that a row is only inserted with a key the agent
  answered, which is a fact about the agent's calls.
* `RevokedStaysGone`: `Spec => []RevokedIsGone`.  The hard part is the future: a key without access
  must not get it back from a call that is still on its way.  The invariant says that a key is
  `Settled` once its create has succeeded (it was generated, and no call holds it any more, so nothing
  will add it), that a delete is only ever sent for a settled key, and that what a handler holds is what
  its row had: a revoke that hears of a success names the key its row names.  `AgentInv` is about the
  calls, `RowInv` about the rows, `HandlerInv` about the locals of the handlers; each needs the
  others.  Steps of the agent are treated together (`AgentKeepsPInv`: a settled key without access
  gets none), and each step of a handler is an answer, a continuation or a call
  (`ReplyKeeps`, `GotoKeeps`, `CallKeeps`).

`PanelRevocationProofs` adds to it what the creates and the revokes have done (`RInv`), and proves

* `OrphansAreFailedCreates`: `Spec => []OrphansComeFromFailedCreates`.  `BroughtByCreates` says of every key with
  access for which create it was generated, by the history `given`, and that this create is still unanswered, or was
  answered with that very key, or failed; `CreateKnows` says what such a create has left.
* `HandedOutKeepsRow`: `Spec => []HandedOutHasRow`.  A create that answered 201 has a row, unless the node
  was deleted: that needs that the node is registered once (`RegisteredOnce`) and that its rows go with it
  (`RowsGoneWithNode`).
* `RevokedMeansGone`: `Spec => RevokeMeansGone`.  `RevokeKnows` says that a revoke which is about to answer 204 holds the
  key of its row, that this key has no access, and that the row is stamped or gone with the node.

* `PanelKeepsPeerLife`: `Spec => KeepsPeerLife`.  `LInv` adds three facts to `RInv`: what has access was generated and no
  call holds it (`AccessUsed`), only a call that is under way holds a key (`MadePending`), and no two
  answers name one key (`DistinctBodies`), so neither do two rows.  Each step of the agent only takes access away
  or gives it to one fresh key (`Losing`, `Giving`); each step of a handler changes a row, an answer or the cache as one
  action of `PeerLife`.

`FleetProofs` proves, for any instance of the composition:

* `FleetKeepsPanel`: `FleetSpec => KeepsPanel`.  That the node's steps are steps of the contract is
  `AwgNodeRefinementProofs`; what the panel sees besides is which calls arrive and which key an answer has.
  `HandlerAnswers` says that a success has the key `AgentSucceeds` asks for (`KeyMade` is needed here) and that
  other answers have none (`NoKeyYet`); `WireInv` says that only the panel's calls arrive.  `NodeStepMaps`, `DeliverMaps` and
  `PanelStepMaps` map each action of the composition to one of `PanelPeers` or a stutter.
* `FleetTakesBack` and `FleetKeepsPeerLife`: the theorems of `PanelRevocationProofs` and `PanelPeersProofs`, with the agent and
  the container in the contract's place, and `DeletesTakeBack` of the agent among the panel's calls.  They are taken from an instance of those modules (`Proved`), whose
  assumptions about the constants are proved from those of `Fleet` and `AwgNode` (`PanelConstants`, `PanelJobs`).

`MonitoringProofs` proves, for any sets of nodes, peers, routers, requests and ages:

* `MonitoringTypeCorrect`, `NobodyEverWaitsLocked` and `DeletedStaysGone`.  The last says that no step brings a row
  back, and each of `Commit` and `SaveOnline` could: `HeldInv` says that what a poll has locked is there and locked by
  nobody else, and `Knows` the same of the requests, so that a delete waits for whoever has the row; `PendingInv` and
  `PolledInv` say which rows a poll is going to write.
* `LinksAlwaysFollowAPeer`: `Spec => LinksFollowAPeer`.  `SourceInv` says of each status that was assigned which peer called
  for it, that this peer is still behind the router unless the router is gone, and that nothing is assigned
  before the agent has answered or failed to.

`AdminsProofs` proves, for any runs, names, passwords, clients and lives:

* `AdminsTypeCorrect`.
* `CreatedMeansLogin`: `Spec => []CreatedCanLogIn`.  `RowsOK`: a name has at most one row, a row holds what was typed into
  its run, and a run that said so has created its row.
* `DeletedAdminsStayOut`: `Spec => RemovedStayOut`.  `RowsOK` says as well that a deleted row never comes back, since no
  run inserts twice; `VisitsOK` that a request whose token was accepted names a row.

`InstallProofs` proves, for any secrets and any number of failures:

* `InstallTypeCorrect` and `RerunsKeepSecrets`: `Spec => []SecretsFit`, with `WritingOK`: while `.env` is empty, and so
  as long as it is still to be written, nobody remembers a secret.
* `CompletedServes`: `Spec => []CompleteServes`.  `ServingOK`: what serves does so with the secret the volume was initialised
  with, so that a further run which starts the containers again does not take it down.

What Docker's state decides is which runs go on, so that no proof needs more of it than its type.

The assumptions are the named ones of `AwgNode` (`BoundAssumption`, `CallsAssumption`,
`ValuesAssumption`, `DiskAssumption`), `PanelPeers` (`PanelAssumption`, `JobAssumption`), `Fleet` (`FleetAssumption`), `Monitoring`
(`MonitoringAssumption`), `Admins` (`AdminsAssumption`) and `Install` (`InstallAssumption`): the special values
are distinct, the calls are calls, the jobs are jobs, the lives are positive.  TLC evaluates them on every run.

Every invariant and every action property of the runs that pass is proved.  Only model-checked are the
properties of liveness, which under fairness are outside the prover's reach: `EveryRequestEnds`, `EveryAdminRequestEnds`,
`StatusConverges`, `LinkConverges`, `RequestsEnd`, `EveryNodePolled`, `SessionsEnd`, `RerunCompletes`.

## 5. Plan

Done: the agent with its contract; the panel's peers and nodes over the contract; the abstract life of a peer; the panel
over the agent itself; the monitoring loop with the handlers it races; the administrators; the installers; proofs of every
safety property and of the three refinements.  What is left, in this order:

1. **Several peers per router, and two requests among two nodes**, in the liveness runs of `Monitoring`.  Such instances
   have about a million states and more, which is more than TLC checks for liveness in a few minutes.
2. **Two disturbances or three requests in `fleet`**, which are beyond TLC's few minutes as well; the safety half is proved
   for any number.
3. **SQLAlchemy's connection pool**: a handler keeps its connection while it waits for the agent, so a node that hangs for its
   whole timeout, asked often enough, leaves none for the others.  `NobodyWaitsLocked` says only that such a connection has no row
   locked.

## 6. Not modelled, and why

* What a web page shows: reads of the tables, rendered.  Who may see it is in `Admins`.
* Schemas, logging, application start: wiring; the handlers' inputs in the models are what the schemas accept.  Of the
  settings, the models have those that are read by what they model, as constants, and the checks that decide whether the panel and
  the agent start.
* The agent's health route: a read.
* `agent_client.update_peer` and the panel side of `PATCH /peers`: nothing in the panel calls it.  The
  agent's route is modelled.
* The audit log: its table exists and no code writes it.  Alembic's own steps: one migration, which creates the tables.
* Text of configurations, beyond which fields are there and whether `awg-quick` accepts them.
