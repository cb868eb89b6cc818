------------------------------ MODULE AwgNode ------------------------------
(***************************************************************************)
(* One AmneziaWG node: the node-agent process (node-agent/src) and the     *)
(* AmneziaWG container it drives with `docker exec`.                        *)
(*                                                                         *)
(* A handler of the agent is a chain of exec calls.  Each exec is one      *)
(* action here, because a container stop, an operator at the container's   *)
(* shell or a crash of the agent can fall between any two of them.  The    *)
(* handlers are `async def` bodies with no await in them, so a handler     *)
(* keeps the event loop from its first exec to its answer: `loop' is the   *)
(* request that owns it.                                                   *)
(*                                                                         *)
(* Keys, addresses, obfuscation parameters and file texts are abstract     *)
(* values; what each exec reads, changes and returns, and every error      *)
(* branch, is the code's.                                                  *)
(***************************************************************************)
EXTENDS Naturals, FiniteSets

CONSTANTS
    Keys,        \* public keys `awg genkey | awg pubkey' can return
    Slashed,     \* the keys whose base64 text contains a "/"
    Ips,         \* well-formed allowed_ips values
    Requests,    \* identities of the HTTP requests the panel sends
    Calls,       \* the calls those requests may carry
    MaxEpoch,    \* bound on container stops plus operator interventions
    ImageDisk,   \* what a fresh container holds at CONFIG_PATH
    NoKey, Absent, NoIps, BadIps, Idle, NoCall,
    NoDir,       \* the directory of CONFIG_PATH does not exist
    NoFile,      \* the directory exists, the file does not
    Unexpanded   \* the file holds the five words `$CONFIG_CONTENT', literally

\* A peer table: absent, present without an address ("(none)"), or with one.
Table == [Keys -> Ips \cup {NoIps, Absent}]

Empty == [k \in Keys |-> Absent]

\* [Interface]-level obfuscation parameters: the node's own, or none at all.
Params == {"node", "none"}

\* The text of a server configuration file, as render_server_config builds it.
Conf == [key : Keys, params : Params, peers : Table]

CallType ==
         [op : {"init", "status"}, token : BOOLEAN]
    \cup [op : {"create"}, token : BOOLEAN, ips : Ips \cup {BadIps}]
    \cup [op : {"delete"}, token : BOOLEAN, key : Keys]
    \cup [op : {"patch"}, token : BOOLEAN, key : Keys,
          ips : Ips \cup {BadIps, NoIps}]

ASSUME BoundAssumption == MaxEpoch \in Nat

ASSUME CallsAssumption == Calls \subseteq CallType /\ NoCall \notin CallType

ASSUME ValuesAssumption ==
    /\ Slashed \subseteq Keys
    /\ NoKey \notin Keys
    /\ Idle \notin Requests
    /\ Ips \cap {NoIps, Absent, BadIps} = {}
    /\ Cardinality({NoIps, Absent, BadIps}) = 3

ASSUME DiskAssumption ==
    /\ {NoDir, NoFile, Unexpanded} \cap Conf = {}
    /\ NoDir # NoFile /\ NoDir # Unexpanded /\ NoFile # Unexpanded
    /\ ImageDisk \in {NoDir, NoFile}

VARIABLES
    container,  \* "running" or "stopped", as Docker reports it
    iface,      \* the kernel's view of awg0
    disk,       \* what CONFIG_PATH holds
    epoch,      \* number of stops and operator interventions so far
    minted,     \* keys generated so far
    handed,     \* the text last passed to write_server_config
    loop,       \* the request whose handler owns the event loop
    pc,         \* where each request is
    call,       \* what each request asks for
    reg,        \* the local variables of each request's handler
    reply       \* status code and public key answered

node == <<container, iface, disk, epoch, minted, handed>>
agent == <<loop, pc, call, reg, reply>>
vars == <<node, agent>>
----------------------------------------------------------------------------
Interface == [up : BOOLEAN, key : Keys \cup {NoKey}, params : Params, peers : Table]

Down == [up |-> FALSE, key |-> NoKey, params |-> "none", peers |-> Empty]

UpWith(conf) ==
    [up |-> TRUE, key |-> conf.key, params |-> conf.params, peers |-> conf.peers]

Registers ==
    [epoch : Nat, made : Keys \cup {NoKey}, key : Keys \cup {NoKey},
     peers : Table, text : Conf \cup {NoDir, NoFile, Unexpanded}]

Blank == [epoch |-> 0, made |-> NoKey, key |-> NoKey, peers |-> Empty,
          text |-> NoFile]

Answers == [code : {0, 200, 201, 400, 401, 404, 500, 503}, key : Keys \cup {NoKey}]

NoAnswer == [code |-> 0, key |-> NoKey]

\* The program counters at which a handler is running, by the exec it makes next.
CreateSteps == {"create_key", "create_add", "create_status"}
PersistSteps == {"persist_key", "persist_dump", "persist_write"}
InitSteps == {"init_status", "init_key", "init_write", "init_strip",
              "init_sync", "init_up"}
Steps == CreateSteps \cup PersistSteps \cup InitSteps \cup {"delete", "patch",
                                                 "status", "status_exec"}

Finished == {"done", "lost"}

TypeOK ==
    /\ container \in {"running", "stopped"}
    /\ iface \in Interface
    /\ disk \in Conf \cup {NoDir, NoFile, Unexpanded}
    /\ epoch \in Nat
    /\ minted \subseteq Keys
    /\ handed \in Conf \cup {NoFile}
    /\ loop \in Requests \cup {Idle}
    /\ pc \in [Requests -> Steps \cup {"unsent", "queued"} \cup Finished]
    /\ call \in [Requests -> Calls \cup {NoCall}]
    /\ reg \in [Requests -> Registers]
    /\ reply \in [Requests -> Answers]

Init ==
    /\ container \in {"running", "stopped"}
    /\ iface = Down
    /\ disk = ImageDisk
    /\ epoch = 0
    /\ minted = {}
    /\ handed = NoFile
    /\ loop = Idle
    /\ pc = [r \in Requests |-> "unsent"]
    /\ call = [r \in Requests |-> NoCall]
    /\ reg = [r \in Requests |-> Blank]
    /\ reply = [r \in Requests |-> NoAnswer]
----------------------------------------------------------------------------
(* What the commands run inside the container do.                          *)

Running == container = "running"

\* `awg show dump' exits 0: the container runs and the interface exists.
DumpWorks == Running /\ iface.up

\* `awg set awg0 peer .. allowed-ips ips' exits 0.
SetWorks(ips) == Running /\ iface.up /\ ips \in Ips

\* Cryptokey routing: an address belongs to one peer, so giving it to k takes it
\* from whoever had it.  The interface ignores a peer with its own key.
SetPeer(i, k, ips) ==
    IF k = i.key THEN i
    ELSE [i EXCEPT !.peers = [j \in Keys |-> IF j = k THEN ips
                                             ELSE IF i.peers[j] = ips THEN NoIps
                                             ELSE i.peers[j]]]

\* Removing a peer that is not there is not an error.
RemovePeer(i, k) == [i EXCEPT !.peers[k] = Absent]

\* The text parses as a configuration; a peer whose dump shows no address is rendered
\* `AllowedIPs = (none)', which does not.
Parses(text) == text \in Conf /\ \A k \in Keys : text.peers[k] # NoIps

\* `awg show dump' as get_interface_status reads it: a failing command means
\* "down, no peers"; a container that is not running raises instead.
StatusPeers == IF iface.up THEN iface.peers ELSE Empty
StatusKey == IF iface.up THEN iface.key ELSE NoKey

\* `cat > CONFIG_PATH << "EOF"' with a quoted delimiter: the shell does not expand
\* the body, so whatever text it is handed the file gets the variable's name.
WriteWorks == Running /\ disk # NoDir

WriteServerConfig(text) ==
    /\ handed' = text
    /\ disk' = Unexpanded

RenderServerConfig(key, params, peers) ==
    [key |-> key, params |-> params, peers |-> peers]
----------------------------------------------------------------------------
(* Requests and the event loop.                                            *)

Goto(r, step) == pc' = [pc EXCEPT ![r] = step]

\* The handler returns or raises: answer sent, locals gone, event loop free.
Answer(r, code, key) ==
    /\ Goto(r, "done")
    /\ reply' = [reply EXCEPT ![r] = [code |-> code, key |-> key]]
    /\ reg' = [reg EXCEPT ![r] = Blank]
    /\ loop' = Idle

\* Any exception no route catches becomes a 500.
Raise(r) == Answer(r, 500, NoKey)

Send(r) ==
    /\ pc[r] = "unsent"
    /\ \E c \in Calls : call' = [call EXCEPT ![r] = c]
    /\ Goto(r, "queued")
    /\ UNCHANGED <<node, loop, reg, reply>>

\* `/peers/{public_key}' does not match a path with one more "/" in it.
RouteMatches(c) == c.op \in {"delete", "patch"} => c.key \notin Slashed

FirstStep(op) ==
    CASE op = "create" -> "create_key"
      [] op = "init" -> "init_status"
      [] OTHER -> op

\* What the router, verify_agent_token and the first lines of patch_peer refuse.
Refusal(c) ==
    IF ~RouteMatches(c) THEN 404
    ELSE IF ~c.token THEN 401
    ELSE IF c.op = "patch" /\ c.ips = NoIps THEN 400
    ELSE 0

Refuse(r) ==
    /\ pc[r] = "queued" /\ loop = Idle
    /\ Refusal(call[r]) # 0
    /\ Answer(r, Refusal(call[r]), NoKey)
    /\ UNCHANGED <<node, call>>

\* Mutant: `def' handlers, which FastAPI runs in a thread pool.
DispatchInThread(r) ==
    /\ pc[r] = "queued"
    /\ Refusal(call[r]) = 0
    /\ loop' = r
    /\ Goto(r, FirstStep(call[r].op))
    /\ reg' = [reg EXCEPT ![r].epoch = epoch]
    /\ UNCHANGED <<node, call, reply>>

Dispatch(r) ==
    /\ pc[r] = "queued" /\ loop = Idle
    /\ Refusal(call[r]) = 0
    /\ loop' = r
    /\ Goto(r, FirstStep(call[r].op))
    /\ reg' = [reg EXCEPT ![r].epoch = epoch]
    /\ UNCHANGED <<node, call, reply>>
----------------------------------------------------------------------------
(* generate_keypair: two execs that touch nothing the agent shares.        *)

GenerateKeypair(r, step, next) ==
    /\ pc[r] = step
    /\ UNCHANGED <<container, iface, disk, epoch, handed, call>>
    /\ \/ /\ Running
          /\ \E k \in Keys \ minted :
                /\ minted' = minted \cup {k}
                /\ reg' = [reg EXCEPT ![r].made = k]
          /\ Goto(r, next)
          /\ UNCHANGED <<loop, reply>>
       \/ /\ ~Running
          /\ Raise(r)
          /\ UNCHANGED minted

(* POST /peers                                                             *)

CreateKey(r) == GenerateKeypair(r, "create_key", "create_add")

\* Mutant: the failure of `awg set' is logged and not raised.
AddPeerUnchecked(r) ==
    /\ pc[r] = "create_add"
    /\ iface' = IF SetWorks(call[r].ips)
                  THEN SetPeer(iface, reg[r].made, call[r].ips) ELSE iface
    /\ Goto(r, "persist_key")
    /\ UNCHANGED <<container, disk, epoch, minted, handed, call, loop, reg, reply>>

AddPeer(r) ==
    /\ pc[r] = "create_add"
    /\ \/ /\ SetWorks(call[r].ips)
          /\ iface' = SetPeer(iface, reg[r].made, call[r].ips)
          /\ Goto(r, "persist_key")
          /\ UNCHANGED <<loop, reg, reply>>
       \/ /\ ~SetWorks(call[r].ips)
          /\ Raise(r)
          /\ UNCHANGED iface
    /\ UNCHANGED <<container, disk, epoch, minted, handed, call>>

\* Mutant: the two public keys of the answer are swapped.
CreateStatusSwapped(r) ==
    /\ pc[r] = "create_status"
    /\ IF DumpWorks THEN Answer(r, 201, iface.key) ELSE Raise(r)
    /\ UNCHANGED <<node, call>>

\* get_interface_status once more, for the server's public key.
CreateStatus(r) ==
    /\ pc[r] = "create_status"
    /\ IF DumpWorks THEN Answer(r, 201, reg[r].made) ELSE Raise(r)
    /\ UNCHANGED <<node, call>>

(* DELETE and PATCH /peers/{public_key}: a failing command is answered 404, *)
(* a container that is not running 500.                                     *)

\* Mutant: delete_peer without the call of _persist.
RemovePeerUnsaved(r) ==
    /\ pc[r] = "delete"
    /\ \/ /\ DumpWorks
          /\ iface' = RemovePeer(iface, call[r].key)
          /\ Answer(r, 200, NoKey)
       \/ /\ ~DumpWorks
          /\ IF Running THEN Answer(r, 404, NoKey) ELSE Raise(r)
          /\ UNCHANGED iface
    /\ UNCHANGED <<container, disk, epoch, minted, handed, call>>

\* Mutant: a failed removal is taken for a peer already gone, and persisted.
RemovePeerUnchecked(r) ==
    /\ pc[r] = "delete"
    /\ iface' = IF DumpWorks THEN RemovePeer(iface, call[r].key) ELSE iface
    /\ Goto(r, "persist_key")
    /\ UNCHANGED <<container, disk, epoch, minted, handed, call, loop, reg, reply>>

RemovePeerStep(r) ==
    /\ pc[r] = "delete"
    /\ \/ /\ DumpWorks
          /\ iface' = RemovePeer(iface, call[r].key)
          /\ Goto(r, "persist_key")
          /\ UNCHANGED <<loop, reg, reply>>
       \/ /\ ~DumpWorks
          /\ IF Running THEN Answer(r, 404, NoKey) ELSE Raise(r)
          /\ UNCHANGED iface
    /\ UNCHANGED <<container, disk, epoch, minted, handed, call>>

UpdatePeer(r) ==
    /\ pc[r] = "patch"
    /\ \/ /\ SetWorks(call[r].ips)
          /\ iface' = SetPeer(iface, call[r].key, call[r].ips)
          /\ Goto(r, "persist_key")
          /\ UNCHANGED <<loop, reg, reply>>
       \/ /\ ~SetWorks(call[r].ips)
          /\ IF Running THEN Answer(r, 404, NoKey) ELSE Raise(r)
          /\ UNCHANGED iface
    /\ UNCHANGED <<container, disk, epoch, minted, handed, call>>
----------------------------------------------------------------------------
(* _persist: two separate dumps, then the write.                           *)

\* Mutant: the key is read like the status, "down" when the command fails.
PersistKeyUnchecked(r) ==
    /\ pc[r] = "persist_key"
    /\ \/ /\ Running
          /\ reg' = [reg EXCEPT ![r].key = StatusKey]
          /\ Goto(r, "persist_dump")
          /\ UNCHANGED <<loop, reply>>
       \/ ~Running /\ Raise(r)
    /\ UNCHANGED <<node, call>>

\* get_own_private_key_for_persistence: errors are not caught.
PersistKey(r) ==
    /\ pc[r] = "persist_key"
    /\ \/ /\ DumpWorks
          /\ reg' = [reg EXCEPT ![r].key = iface.key]
          /\ Goto(r, "persist_dump")
          /\ UNCHANGED <<loop, reply>>
       \/ ~DumpWorks /\ Raise(r)
    /\ UNCHANGED <<node, call>>

\* persist_current_peers reads the peers with get_interface_status.
PersistDump(r) ==
    /\ pc[r] = "persist_dump"
    /\ \/ /\ Running
          /\ reg' = [reg EXCEPT ![r].peers = StatusPeers]
          /\ Goto(r, "persist_write")
          /\ UNCHANGED <<loop, reply>>
       \/ ~Running /\ Raise(r)
    /\ UNCHANGED <<node, call>>

\* Mutant: the write inside the `try' that answers 404.
PersistWriteCaught(r) ==
    /\ pc[r] = "persist_write"
    /\ \/ /\ WriteWorks
          /\ WriteServerConfig(RenderServerConfig(reg[r].key, "none", reg[r].peers))
          /\ IF call[r].op = "create"
               THEN Goto(r, "create_status") /\ UNCHANGED <<loop, reg, reply>>
               ELSE Answer(r, 200, NoKey)
       \/ /\ ~WriteWorks
          /\ Answer(r, 404, NoKey)
          /\ UNCHANGED <<disk, handed>>
    /\ UNCHANGED <<container, iface, epoch, minted, call>>

\* The routes pass awg_params = {}: no obfuscation parameter is rendered.
PersistWrite(r) ==
    /\ pc[r] = "persist_write"
    /\ \/ /\ WriteWorks
          /\ WriteServerConfig(RenderServerConfig(reg[r].key, "none", reg[r].peers))
          /\ IF call[r].op = "create"
               THEN Goto(r, "create_status") /\ UNCHANGED <<loop, reg, reply>>
               ELSE Answer(r, 200, NoKey)
       \/ /\ ~WriteWorks
          /\ Raise(r)
          /\ UNCHANGED <<disk, handed>>
    /\ UNCHANGED <<container, iface, epoch, minted, call>>
----------------------------------------------------------------------------
(* POST /server/init                                                       *)

\* Mutant: server/init without the look at the existing interface.
InitStatusUnchecked(r) ==
    /\ pc[r] = "init_status"
    /\ \/ /\ Running
          /\ Goto(r, "init_key")
          /\ UNCHANGED <<loop, reg, reply>>
       \/ ~Running /\ Raise(r)
    /\ UNCHANGED <<node, call>>

InitStatus(r) ==
    /\ pc[r] = "init_status"
    /\ \/ /\ Running /\ StatusKey = NoKey
          /\ Goto(r, "init_key")
          /\ UNCHANGED <<loop, reg, reply>>
       \/ /\ Running /\ StatusKey # NoKey
          /\ Answer(r, 200, StatusKey)
       \/ ~Running /\ Raise(r)
    /\ UNCHANGED <<node, call>>

InitKey(r) == GenerateKeypair(r, "init_key", "init_write")

InitWrite(r) ==
    /\ pc[r] = "init_write"
    /\ \/ /\ WriteWorks
          /\ WriteServerConfig(RenderServerConfig(reg[r].made, "node", Empty))
          /\ Goto(r, "init_strip")
          /\ UNCHANGED <<loop, reg, reply>>
       \/ /\ ~WriteWorks
          /\ Raise(r)
          /\ UNCHANGED <<disk, handed>>
    /\ UNCHANGED <<container, iface, epoch, minted, call>>

\* reload_interface, first exec: `awg-quick strip' prints what the file holds.
InitStrip(r) ==
    /\ pc[r] = "init_strip"
    /\ IF Running /\ disk \notin {NoDir, NoFile}
         THEN /\ reg' = [reg EXCEPT ![r].text = disk]
              /\ Goto(r, "init_sync")
         ELSE /\ Goto(r, "init_up")
              /\ UNCHANGED reg
    /\ UNCHANGED <<node, call, loop, reply>>

\* reload_interface, second exec: `awg syncconf' wants a live interface and a text
\* that parses.  Every exception leads to `awg-quick up'.
InitSync(r) ==
    /\ pc[r] = "init_sync"
    /\ \/ /\ DumpWorks /\ Parses(reg[r].text)
          /\ iface' = UpWith(reg[r].text)
          /\ Answer(r, 200, reg[r].made)
       \/ /\ ~(DumpWorks /\ Parses(reg[r].text))
          /\ Goto(r, "init_up")
          /\ UNCHANGED <<iface, loop, reg, reply>>
    /\ UNCHANGED <<container, disk, epoch, minted, handed, call>>

\* `awg-quick up' wants no interface and a file that parses; its failure is not caught.
UpWorks == Running /\ ~iface.up /\ Parses(disk)

\* Mutant: a failed `awg-quick up' is tried again.
InitUpRetrying(r) ==
    /\ pc[r] = "init_up"
    /\ \/ /\ UpWorks
          /\ iface' = UpWith(disk)
          /\ Answer(r, 200, reg[r].made)
       \/ /\ ~UpWorks
          /\ Goto(r, "init_strip")
          /\ UNCHANGED <<iface, loop, reg, reply>>
    /\ UNCHANGED <<container, disk, epoch, minted, handed, call>>

InitUp(r) ==
    /\ pc[r] = "init_up"
    /\ \/ /\ UpWorks
          /\ iface' = UpWith(disk)
          /\ Answer(r, 200, reg[r].made)
       \/ /\ ~UpWorks
          /\ Raise(r)
          /\ UNCHANGED iface
    /\ UNCHANGED <<container, disk, epoch, minted, handed, call>>

(* GET /server/status                                                      *)

\* get_awg_container says whether the container runs ...
StatusLookup(r) ==
    /\ pc[r] = "status"
    /\ \/ /\ Running
          /\ Goto(r, "status_exec")
          /\ UNCHANGED <<loop, reg, reply>>
       \/ ~Running /\ Answer(r, 503, NoKey)
    /\ UNCHANGED <<node, call>>

\* ... and exec_run raises, if it stopped since, what the route does not catch.
StatusExec(r) ==
    /\ pc[r] = "status_exec"
    /\ IF Running THEN Answer(r, 200, StatusKey) ELSE Raise(r)
    /\ UNCHANGED <<node, call>>
----------------------------------------------------------------------------
(* What happens around the agent.                                          *)

\* The agent process dies (restart: always); the requests it had are lost.
AgentCrash ==
    LET pending == {r \in Requests : pc[r] \notin Finished \cup {"unsent"}}
    IN  /\ pending # {}
        /\ pc' = [r \in Requests |-> IF r \in pending THEN "lost" ELSE pc[r]]
        /\ reg' = [r \in Requests |-> IF r \in pending THEN Blank ELSE reg[r]]
        /\ loop' = Idle
        /\ UNCHANGED <<node, call, reply>>

\* The container stops: its network namespace, and awg0 with it, is gone.
ContainerStop ==
    /\ Running
    /\ epoch < MaxEpoch
    /\ container' = "stopped"
    /\ iface' = Down
    /\ epoch' = epoch + 1
    /\ UNCHANGED <<disk, minted, handed, agent>>

\* It comes back with its files, or recreated from the image.  Its entry point is
\* `tail -f /dev/null': nothing brings the interface up.
ContainerStart ==
    /\ ~Running
    /\ container' = "running"
    /\ disk' \in {disk, ImageDisk}
    /\ UNCHANGED <<iface, epoch, minted, handed, agent>>

\* An operator in the container writes a configuration and brings it up.
Provision ==
    /\ Running /\ ~iface.up
    /\ epoch < MaxEpoch
    /\ \E k \in Keys \ minted :
          /\ minted' = minted \cup {k}
          /\ disk' = RenderServerConfig(k, "node", Empty)
          /\ iface' = UpWith(disk')
    /\ epoch' = epoch + 1
    /\ UNCHANGED <<container, handed, agent>>

\* An operator runs `awg-quick up CONFIG_PATH', as node-agent/README.md suggests.
ManualUp ==
    /\ UpWorks
    /\ epoch < MaxEpoch
    /\ iface' = UpWith(disk)
    /\ epoch' = epoch + 1
    /\ UNCHANGED <<container, disk, minted, handed, agent>>

HandlerStep(r) ==
    \/ CreateKey(r) \/ AddPeer(r) \/ CreateStatus(r)
    \/ RemovePeerStep(r) \/ UpdatePeer(r)
    \/ PersistKey(r) \/ PersistDump(r) \/ PersistWrite(r)
    \/ InitStatus(r) \/ InitKey(r) \/ InitWrite(r)
    \/ InitStrip(r) \/ InitSync(r) \/ InitUp(r)
    \/ StatusLookup(r) \/ StatusExec(r)

Serve(r) == Refuse(r) \/ Dispatch(r) \/ HandlerStep(r)

Next ==
    \/ \E r \in Requests : Send(r) \/ Serve(r)
    \/ AgentCrash
    \/ ContainerStop \/ ContainerStart
    \/ Provision \/ ManualUp

Spec == Init /\ [][Next]_vars

\* The event loop runs every handler on: an exec that was started returns.
FairSpec == Spec /\ \A r \in Requests : WF_vars(Serve(r))
----------------------------------------------------------------------------
(* Properties.                                                             *)

Success == {200, 201}

Mutations == {"create", "delete", "patch"}

\* Neither a stop nor an operator came between the handler's start and now.
Undisturbed(r) == reg[r].epoch = epoch

\* The event loop belongs to the one request whose handler is under way: no handler
\* starts while another is between two of its exec calls, and every return and raise
\* gives the loop back (the `async def' bodies of api/peers.py and api/server.py).
OneHandler == \A r \in Requests : pc[r] \in Steps <=> loop = r

\* The text a peer handler is about to write renders the live interface, although
\* the private key and the peers come from two dumps taken after the change
\* (_persist, persist_current_peers): nothing was added or lost in between.
RendersLive ==
    \A r \in Requests :
        pc[r] = "persist_write" /\ Undisturbed(r) =>
            reg[r].key = iface.key /\ reg[r].peers = iface.peers

\* server/init never goes on to generate a key and rewrite the configuration of a
\* node whose interface is up: between the status check and the last exec that the
\* check protects, the interface stays down (init_server's check-then-act).
InitOnlyWhenDown ==
    \A r \in Requests :
        pc[r] \in InitSteps \ {"init_status"} /\ Undisturbed(r) => ~iface.up

\* r is answered with success in this step, with no disturbance since it started.
Succeeds(r) ==
    /\ pc[r] \in Steps /\ pc'[r] = "done"
    /\ reply'[r].code \in Success
    /\ reg[r].epoch = epoch'

SavedOnSuccess ==
    \A r \in Requests :
        Succeeds(r) /\ call[r].op \in Mutations =>
            handed' \in Conf /\ handed'.key = iface'.key /\ handed'.peers = iface'.peers

\* A change of the peers is acknowledged only when the text last handed to
\* write_server_config has exactly the live peers and key, however many other
\* requests were served since the change was made.
AcknowledgedIsSaved == [][SavedOnSuccess]_vars

LiveOnSuccess ==
    \A r \in Requests :
        Succeeds(r) =>
            CASE call[r].op = "create" -> iface'.peers[reply'[r].key] = call[r].ips
              [] call[r].op = "delete" -> iface'.peers[call[r].key] = Absent
              [] call[r].op = "patch"  -> \/ iface'.peers[call[r].key] = call[r].ips
                                          \/ iface'.key = call[r].key
              [] call[r].op = "init"   -> iface'.up /\ reply'[r].key = iface'.key
              [] OTHER -> TRUE

\* When success is answered the effect is there: the created key holds the address
\* asked for, the deleted one is gone, the patched one has its address (or is the
\* node's own), and server/init names the key the interface really has.
AcknowledgedIsLive == [][LiveOnSuccess]_vars

\* r's handler, or the router in its place, answers in this step.
Ends(r) == pc[r] \in Steps \cup {"queued"} /\ pc'[r] = "done"

GoneOnceAnswered ==
    \A r \in Requests :
        /\ Ends(r) /\ call[r].op = "delete"
        /\ call[r].token /\ call[r].key \notin Slashed
        => iface'.peers[call[r].key] = Absent

\* A delete that carries the token and names a key without a "/" takes the key's access
\* away, whatever it is answered and whatever else fails or restarts meanwhile: a 404 to
\* it comes from a node that is down, and a 500 from a node that is down or from
\* persisting what is already done.  This is what a repeated revoke relies on; a key
\* with a "/" has no delete route (peers.py:134) and no such promise.
DeletesTakeBack == [][GoneOnceAnswered]_vars

\* Every request the agent has received is answered, or lost with the process:
\* no branch of a handler leaves the event loop taken.
EveryRequestEnds ==
    \A r \in Requests : pc[r] = "queued" ~> pc[r] \in Finished
----------------------------------------------------------------------------
(* The inductive invariant behind the safety properties.                   *)

\* Steps at which the change of a peer request has been made and not yet answered.
AppliedSteps == PersistSteps \cup {"create_status"}

\* Between InitStatus having found the interface down and the answer.
BringUpSteps == InitSteps \ {"init_status"}

\* Each handler is at a step of the call it serves.
StepsOfCall ==
    \A r \in Requests :
        /\ pc[r] \in InitSteps => call[r].op = "init"
        /\ pc[r] \in CreateSteps => call[r].op = "create"
        /\ pc[r] \in PersistSteps => call[r].op \in Mutations
        /\ pc[r] = "delete" => call[r].op = "delete"
        /\ pc[r] = "patch" => call[r].op = "patch"
        /\ pc[r] \in {"status", "status_exec"} => call[r].op = "status"

\* No handler comes from the future: an epoch that ends never comes back.
EpochsPast == \A r \in Requests : pc[r] \in Steps => reg[r].epoch <= epoch

\* A key in use anywhere was generated, and so is not generated again.
KeysMinted ==
    /\ iface.up => iface.key \in minted
    /\ disk \in Conf => disk.key \in minted
    /\ \A r \in Requests : pc[r] = "init_sync" /\ reg[r].text \in Conf =>
                               reg[r].text.key \in minted

DownWhenStopped == container = "stopped" => ~iface.up

\* The change r asks for, as the interface shows it.
Done(r) ==
    CASE call[r].op = "create" -> iface.peers[reg[r].made] = call[r].ips
      [] call[r].op = "delete" -> iface.peers[call[r].key] = Absent
      [] call[r].op = "patch"  -> \/ iface.peers[call[r].key] = call[r].ips
                                  \/ iface.key = call[r].key

\* What an undisturbed handler knows at each of its steps.
HandlerKnows(r) ==
    /\ pc[r] = "create_add" => reg[r].made \in Keys /\ (iface.up => reg[r].made # iface.key)
    /\ pc[r] \in AppliedSteps => iface.up /\ Done(r)
    /\ pc[r] \in {"persist_dump", "persist_write"} => reg[r].key = iface.key
    /\ pc[r] = "persist_write" => reg[r].peers = iface.peers
    /\ pc[r] = "create_status" =>
           handed \in Conf /\ handed.key = iface.key /\ handed.peers = iface.peers
    /\ pc[r] \in BringUpSteps => Running /\ ~iface.up
    /\ pc[r] \in {"init_strip", "init_sync", "init_up"} => disk \notin Conf

\* The invariant: one handler at a time, and what it has read of the node is still so
\* unless the container stopped or an operator intervened since it started.
HandlersConsistent ==
    /\ OneHandler /\ StepsOfCall /\ EpochsPast
    /\ KeysMinted /\ DownWhenStopped
    /\ \A r \in Requests : pc[r] \in Steps /\ Undisturbed(r) => HandlerKnows(r)
----------------------------------------------------------------------------
(* What the documents say and the code does not do.  A run finds the first *)
(* of these violated; the others are stated for the reader, and false too. *)

\* config_builder.py:13-17, the file at CONFIG_PATH is "the single source of truth",
\* rewritten in full on every change: an acknowledged change is in the file.
ChangeReachesDisk ==
    [][\A r \in Requests :
          Succeeds(r) /\ call[r].op \in Mutations =>
              Parses(disk') /\ disk'.peers = iface'.peers]_vars

\* docs/api-contract.md:99 and tests/test_executor.py:55-58, a container that is not
\* running is answered 503, not 500.
UnavailableIs503 ==
    [][\A r \in Requests :
          pc[r] \in Steps /\ pc'[r] = "done" /\ ~Running => reply'[r].code = 503]_vars

\* peers.py:142-145, a DELETE answered 404 "Peer not found on this node" names a peer
\* that is not on this node.
NotFoundMeansAbsent ==
    [][\A r \in Requests :
          pc[r] # "done" /\ pc'[r] = "done" /\ call[r].op = "delete"
          /\ reply'[r].code = 404 => iface'.peers[call[r].key] = Absent]_vars

\* config_builder.py:8-11, every change must be in the file "or a node reboot silently
\* drops every client": the text handed to the file is one `awg-quick up' can read.
SavedTextParses == handed = NoFile \/ Parses(handed)

\* config_builder.py:143-148, the file is rewritten "from the live interface state so a
\* container restart doesn't lose the change": the peers come from a live interface.
PersistsFromLive ==
    [][\A r \in Requests :
          pc[r] = "persist_dump" /\ pc'[r] = "persist_write" => iface.up]_vars
============================================================================
