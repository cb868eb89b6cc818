--------------------------- MODULE AwgNodeProofs ---------------------------
(***************************************************************************)
(* Theorems about AwgNode, for every set of keys, addresses, requests and  *)
(* calls and every bound.                                                  *)
(***************************************************************************)
EXTENDS AwgNode, TLAPS

PCs == Steps \cup {"unsent", "queued"} \cup Finished

\* What the handlers' local variables hold where a typed result depends on it.
LocalsSet ==
    /\ iface.up => iface.key \in Keys
    /\ \A r \in Requests :
          /\ pc[r] \in Steps \cup {"queued"} => call[r] \in Calls
          /\ pc[r] \in {"persist_dump", "persist_write"} => reg[r].key \in Keys
          /\ pc[r] = "init_write" => reg[r].made \in Keys

TypeInv == TypeOK /\ LocalsSet

----------------------------------------------------------------------------
\* The table without peers is a table.
LEMMA EmptyIsTable == Empty \in Table
BY DEF Empty, Table

\* An interface that is down is an interface.
LEMMA DownIsInterface == Down \in Interface
BY EmptyIsTable DEF Down, Interface, Params

\* The locals of a request with no handler are typed.
LEMMA BlankIsRegisters == Blank \in Registers
BY EmptyIsTable DEF Blank, Registers

\* Bringing up a configuration gives a typed interface that has its key.
LEMMA UpWithType ==
    ASSUME NEW conf \in Conf
    PROVE  UpWith(conf) \in Interface /\ UpWith(conf).key \in Keys /\ UpWith(conf).up
BY DEF UpWith, Interface, Conf

\* What render_server_config builds from typed parts is a configuration.
LEMMA RenderType ==
    ASSUME NEW key \in Keys, NEW params \in Params, NEW peers \in Table
    PROVE  RenderServerConfig(key, params, peers) \in Conf
BY DEF RenderServerConfig, Conf

\* Giving a peer an address yields a table, and never changes the interface's own key.
LEMMA SetPeerType ==
    ASSUME NEW i \in Interface, NEW k, NEW ips \in Ips
    PROVE  /\ SetPeer(i, k, ips) \in Interface
           /\ SetPeer(i, k, ips).key = i.key
           /\ SetPeer(i, k, ips).up = i.up
<1> DEFINE t == [j \in Keys |-> IF j = k THEN ips
                                ELSE IF i.peers[j] = ips THEN NoIps ELSE i.peers[j]]
<1>1. i.peers \in Table
  BY DEF Interface
<1>2. t \in Table
  BY <1>1 DEF Table
<1>3. [i EXCEPT !.peers = t] \in Interface
  BY <1>2 DEF Interface
<1> QED
  BY <1>3 DEF SetPeer, Interface

\* Removing a peer yields an interface, with the same key.
LEMMA RemovePeerType ==
    ASSUME NEW i \in Interface, NEW k
    PROVE  /\ RemovePeer(i, k) \in Interface
           /\ RemovePeer(i, k).key = i.key
           /\ RemovePeer(i, k).up = i.up
<1>1. i.peers \in Table
  BY DEF Interface
<1>2. [i.peers EXCEPT ![k] = Absent] \in Table
  BY <1>1 DEF Table
<1>3. RemovePeer(i, k) = [i EXCEPT !.peers = [i.peers EXCEPT ![k] = Absent]]
  BY DEF RemovePeer, Interface
<1> QED
  BY <1>2, <1>3 DEF Interface
----------------------------------------------------------------------------
(* Type correctness.                                                       *)

\* What a handler leaves behind when it answers is typed.
LEMMA AnswerType ==
    ASSUME TypeInv, NEW r \in Requests,
           NEW code \in {200, 201, 400, 401, 404, 500, 503},
           NEW key \in Keys \cup {NoKey},
           Answer(r, code, key)
    PROVE  /\ pc' \in [Requests -> PCs]
           /\ pc' = [pc EXCEPT ![r] = "done"]
           /\ reg' \in [Requests -> Registers]
           /\ \A q \in Requests : q # r => reg'[q] = reg[q]
           /\ reply' \in [Requests -> Answers]
           /\ loop' \in Requests \cup {Idle}
<1>1. [code |-> code, key |-> key] \in Answers
  BY DEF Answers
<1>2. pc' \in [Requests -> PCs] /\ pc' = [pc EXCEPT ![r] = "done"]
  BY DEF Answer, Goto, TypeInv, TypeOK, PCs, Finished
<1>3. reg' \in [Requests -> Registers] /\ \A q \in Requests : q # r => reg'[q] = reg[q]
  BY BlankIsRegisters DEF Answer, TypeInv, TypeOK
<1>4. reply' \in [Requests -> Answers]
  BY <1>1 DEF Answer, TypeInv, TypeOK
<1>5. loop' \in Requests \cup {Idle}
  BY DEF Answer
<1> QED
  BY <1>2, <1>3, <1>4, <1>5

\* An answer that changes none of the calls keeps the local-variable invariant,
\* whatever it does to an interface that has a key when it is up.
LEMMA AnswerKeepsTypes ==
    ASSUME TypeInv, NEW r \in Requests,
           NEW code \in {200, 201, 400, 401, 404, 500, 503},
           NEW key \in Keys \cup {NoKey},
           Answer(r, code, key), UNCHANGED <<container, epoch, call>>,
           iface' \in Interface, iface'.up => iface'.key \in Keys,
           disk' \in Conf \cup {NoDir, NoFile, Unexpanded},
           minted' \subseteq Keys, handed' \in Conf \cup {NoFile}
    PROVE  TypeInv'
<1>1. TypeOK'
  BY AnswerType DEF TypeInv, TypeOK, PCs
<1>2. LocalsSet'
  <2> SUFFICES ASSUME NEW q \in Requests
               PROVE  /\ pc'[q] \in Steps \cup {"queued"} => call'[q] \in Calls
                      /\ pc'[q] \in {"persist_dump", "persist_write"} => reg'[q].key \in Keys
                      /\ pc'[q] = "init_write" => reg'[q].made \in Keys
    BY DEF LocalsSet
  <2>1. pc' = [pc EXCEPT ![r] = "done"] /\ \A p \in Requests : p # r => reg'[p] = reg[p]
    BY AnswerType
  <2>2. pc \in [Requests -> PCs]
    BY DEF TypeInv, TypeOK, PCs
  <2>3. CASE q = r
    <3>1. pc'[q] = "done"
      BY <2>1, <2>2, <2>3
    <3> QED
      BY <3>1 DEF Steps, CreateSteps, PersistSteps, InitSteps
  <2>4. CASE q # r
    <3>1. pc'[q] = pc[q] /\ reg'[q] = reg[q] /\ call'[q] = call[q]
      BY <2>1, <2>2, <2>4
    <3> QED
      BY <3>1 DEF TypeInv, LocalsSet
  <2> QED
    BY <2>3, <2>4
<1> QED
  BY <1>1, <1>2 DEF TypeInv

\* So does a handler that goes on to its next exec.
LEMMA GotoKeepsTypes ==
    ASSUME TypeInv, NEW r \in Requests, NEW step \in Steps \cup {"queued"},
           Goto(r, step), UNCHANGED <<container, epoch, reply>>,
           loop' \in Requests \cup {Idle},
           call' \in [Requests -> Calls \cup {NoCall}],
           reg' \in [Requests -> Registers],
           \A q \in Requests : q # r => reg'[q] = reg[q] /\ call'[q] = call[q],
           call'[r] \in Calls,
           step \in {"persist_dump", "persist_write"} => reg'[r].key \in Keys,
           step = "init_write" => reg'[r].made \in Keys,
           iface' \in Interface, iface'.up => iface'.key \in Keys,
           disk' \in Conf \cup {NoDir, NoFile, Unexpanded},
           minted' \subseteq Keys, handed' \in Conf \cup {NoFile}
    PROVE  TypeInv'
<1>1. pc \in [Requests -> PCs] /\ step \in PCs
  BY DEF TypeInv, TypeOK, PCs
<1>2. pc' = [pc EXCEPT ![r] = step] /\ pc' \in [Requests -> PCs]
  BY <1>1 DEF Goto
<1>3. TypeOK'
  BY <1>2 DEF TypeInv, TypeOK, PCs
<1>4. LocalsSet'
  <2> SUFFICES ASSUME NEW q \in Requests
               PROVE  /\ pc'[q] \in Steps \cup {"queued"} => call'[q] \in Calls
                      /\ pc'[q] \in {"persist_dump", "persist_write"} => reg'[q].key \in Keys
                      /\ pc'[q] = "init_write" => reg'[q].made \in Keys
    BY DEF LocalsSet
  <2>1. CASE q = r
    <3>1. pc'[q] = step
      BY <1>1, <1>2, <2>1
    <3> QED
      BY <2>1, <3>1
  <2>2. CASE q # r
    <3>1. pc'[q] = pc[q] /\ reg'[q] = reg[q] /\ call'[q] = call[q]
      BY <1>1, <1>2, <2>2
    <3> QED
      BY <3>1 DEF TypeInv, LocalsSet
  <2> QED
    BY <2>1, <2>2
<1> QED
  BY <1>3, <1>4 DEF TypeInv

\* The typing invariant holds initially.
LEMMA TypeInit == Init => TypeInv
<1> SUFFICES ASSUME Init PROVE TypeInv
  OBVIOUS
<1>1. TypeOK
  BY EmptyIsTable, DownIsInterface, BlankIsRegisters, DiskAssumption
  DEF Init, TypeOK, NoAnswer, Answers
<1>2. LocalsSet
  BY DEF Init, LocalsSet, Down, Steps, CreateSteps, PersistSteps, InitSteps
<1> QED
  BY <1>1, <1>2 DEF TypeInv

\* The facts every handler step starts from.
LEMMA HandlerFacts ==
    ASSUME TypeInv, NEW r \in Requests, pc[r] \in Steps \cup {"queued"}
    PROVE  /\ call[r] \in Calls
           /\ call[r] \in CallType
           /\ iface \in Interface
           /\ iface.up => iface.key \in Keys
           /\ StatusKey \in Keys \cup {NoKey}
           /\ StatusPeers \in Table
           /\ reg[r] \in Registers
           /\ epoch \in Nat
<1>1. call[r] \in Calls
  BY DEF TypeInv, LocalsSet
<1>2. iface \in Interface /\ reg[r] \in Registers /\ epoch \in Nat
      /\ (iface.up => iface.key \in Keys)
  BY DEF TypeInv, TypeOK, LocalsSet
<1>3. iface.key \in Keys \cup {NoKey} /\ iface.peers \in Table
  BY <1>2 DEF Interface
<1> QED
  BY <1>1, <1>2, <1>3, EmptyIsTable, CallsAssumption DEF StatusKey, StatusPeers

\* Sending a request keeps the typing invariant.
LEMMA SendType == ASSUME TypeInv, NEW r \in Requests, Send(r) PROVE TypeInv'
<1>1. PICK c \in Calls : call' = [call EXCEPT ![r] = c]
  BY DEF Send
<1>2. call \in [Requests -> Calls \cup {NoCall}]
  BY DEF TypeInv, TypeOK
<1>3. call' \in [Requests -> Calls \cup {NoCall}] /\ call'[r] \in Calls
      /\ \A q \in Requests : q # r => call'[q] = call[q]
  BY <1>1, <1>2
<1> QED
  BY <1>3, GotoKeepsTypes DEF Send, node, TypeInv, TypeOK, LocalsSet

\* Refusing a request keeps it.
LEMMA RefuseType == ASSUME TypeInv, NEW r \in Requests, Refuse(r) PROVE TypeInv'
<1>1. Refusal(call[r]) \in {404, 401, 400}
  BY DEF Refuse, Refusal
<1> QED
  BY <1>1, AnswerKeepsTypes DEF Refuse, node, TypeInv, TypeOK, LocalsSet

\* Starting a handler keeps it.
LEMMA DispatchType == ASSUME TypeInv, NEW r \in Requests, Dispatch(r) PROVE TypeInv'
<1>1. call[r] \in Calls /\ call[r] \in CallType /\ reg[r] \in Registers /\ epoch \in Nat
  BY HandlerFacts DEF Dispatch
<1>2. call[r].op \in {"init", "status", "create", "delete", "patch"}
  BY <1>1 DEF CallType
<1>3. /\ FirstStep(call[r].op) \in Steps
      /\ FirstStep(call[r].op) \notin {"persist_dump", "persist_write", "init_write"}
  BY <1>2 DEF FirstStep, Steps, CreateSteps, PersistSteps, InitSteps
<1>4. [reg[r] EXCEPT !.epoch = epoch] \in Registers
  BY <1>1 DEF Registers
<1>5. reg' \in [Requests -> Registers] /\ \A q \in Requests : q # r => reg'[q] = reg[q]
  BY <1>4 DEF Dispatch, TypeInv, TypeOK
<1> QED
  BY <1>1, <1>3, <1>5, GotoKeepsTypes DEF Dispatch, node, TypeInv, TypeOK, LocalsSet

\* Generating a key keeps it, and sets the local `made' of the handler that goes on.
LEMMA GenerateKeypairType ==
    ASSUME TypeInv, NEW r \in Requests, NEW step \in Steps,
           NEW next \in {"create_add", "init_write"},
           GenerateKeypair(r, step, next)
    PROVE  TypeInv'
<1>0. call[r] \in Calls /\ reg[r] \in Registers
  BY HandlerFacts DEF GenerateKeypair
<1>1. CASE Running
  <2>1. PICK k \in Keys \ minted :
           minted' = minted \cup {k} /\ reg' = [reg EXCEPT ![r].made = k]
    BY <1>1 DEF GenerateKeypair
  <2>2. [reg[r] EXCEPT !.made = k] \in Registers /\ [reg[r] EXCEPT !.made = k].made = k
    BY <1>0 DEF Registers
  <2>3. reg' \in [Requests -> Registers] /\ reg'[r].made \in Keys
        /\ \A q \in Requests : q # r => reg'[q] = reg[q]
    BY <2>1, <2>2 DEF TypeInv, TypeOK
  <2>4. next \in Steps /\ next \notin {"persist_dump", "persist_write"}
    BY DEF Steps, CreateSteps, InitSteps
  <2>5. minted' \subseteq Keys
    BY <2>1 DEF TypeInv, TypeOK
  <2> QED
    BY <1>0, <1>1, <2>3, <2>4, <2>5, GotoKeepsTypes
    DEF GenerateKeypair, TypeInv, TypeOK, LocalsSet
<1>2. CASE ~Running
  BY <1>2, AnswerKeepsTypes DEF GenerateKeypair, Raise, TypeInv, TypeOK, LocalsSet
<1> QED
  BY <1>1, <1>2

\* The `awg set' of POST /peers keeps it.
LEMMA AddPeerType == ASSUME TypeInv, NEW r \in Requests, AddPeer(r) PROVE TypeInv'
<1>0. call[r] \in Calls /\ iface \in Interface /\ (iface.up => iface.key \in Keys)
  BY HandlerFacts DEF AddPeer, Steps, CreateSteps
<1>1. CASE SetWorks(call[r].ips)
  <2>1. iface' \in Interface /\ (iface'.up => iface'.key \in Keys)
    BY <1>0, <1>1, SetPeerType DEF AddPeer, SetWorks
  <2>2. "persist_key" \in Steps
    BY DEF Steps, PersistSteps
  <2> QED
    BY <1>0, <1>1, <2>1, <2>2, GotoKeepsTypes DEF AddPeer, TypeInv, TypeOK, LocalsSet
<1>2. CASE ~SetWorks(call[r].ips)
  BY <1>0, <1>2, AnswerKeepsTypes DEF AddPeer, Raise, TypeInv, TypeOK, LocalsSet
<1> QED
  BY <1>1, <1>2

\* The final status read of POST /peers keeps it.
LEMMA CreateStatusType == ASSUME TypeInv, NEW r \in Requests, CreateStatus(r) PROVE TypeInv'
<1>1. reg[r].made \in Keys \cup {NoKey}
  BY HandlerFacts DEF CreateStatus, Steps, CreateSteps, Registers
<1> QED
  BY <1>1, AnswerKeepsTypes DEF CreateStatus, Raise, node, TypeInv, TypeOK, LocalsSet

\* The removal of DELETE /peers keeps it.
LEMMA RemovePeerStepType ==
    ASSUME TypeInv, NEW r \in Requests, RemovePeerStep(r) PROVE TypeInv'
<1>0. call[r] \in Calls /\ iface \in Interface /\ (iface.up => iface.key \in Keys)
  BY HandlerFacts DEF RemovePeerStep, Steps
<1>1. CASE DumpWorks
  <2>1. iface' \in Interface /\ (iface'.up => iface'.key \in Keys)
    BY <1>0, <1>1, RemovePeerType DEF RemovePeerStep
  <2>2. "persist_key" \in Steps
    BY DEF Steps, PersistSteps
  <2> QED
    BY <1>0, <1>1, <2>1, <2>2, GotoKeepsTypes
    DEF RemovePeerStep, TypeInv, TypeOK, LocalsSet
<1>2. CASE ~DumpWorks
  BY <1>0, <1>2, AnswerKeepsTypes DEF RemovePeerStep, Raise, TypeInv, TypeOK, LocalsSet
<1> QED
  BY <1>1, <1>2

\* The `awg set' of PATCH /peers keeps it.
LEMMA UpdatePeerType == ASSUME TypeInv, NEW r \in Requests, UpdatePeer(r) PROVE TypeInv'
<1>0. call[r] \in Calls /\ iface \in Interface /\ (iface.up => iface.key \in Keys)
  BY HandlerFacts DEF UpdatePeer, Steps
<1>1. CASE SetWorks(call[r].ips)
  <2>1. iface' \in Interface /\ (iface'.up => iface'.key \in Keys)
    BY <1>0, <1>1, SetPeerType DEF UpdatePeer, SetWorks
  <2>2. "persist_key" \in Steps
    BY DEF Steps, PersistSteps
  <2> QED
    BY <1>0, <1>1, <2>1, <2>2, GotoKeepsTypes DEF UpdatePeer, TypeInv, TypeOK, LocalsSet
<1>2. CASE ~SetWorks(call[r].ips)
  BY <1>0, <1>2, AnswerKeepsTypes DEF UpdatePeer, Raise, TypeInv, TypeOK, LocalsSet
<1> QED
  BY <1>1, <1>2

\* The first dump of _persist keeps it: a key it reads is a key.
LEMMA PersistKeyType == ASSUME TypeInv, NEW r \in Requests, PersistKey(r) PROVE TypeInv'
<1>0. call[r] \in Calls /\ reg[r] \in Registers /\ (iface.up => iface.key \in Keys)
  BY HandlerFacts DEF PersistKey, Steps, PersistSteps
<1>1. CASE DumpWorks
  <2>1. [reg[r] EXCEPT !.key = iface.key] \in Registers
        /\ [reg[r] EXCEPT !.key = iface.key].key \in Keys
    BY <1>0, <1>1 DEF Registers, DumpWorks
  <2>2. reg' \in [Requests -> Registers] /\ reg'[r].key \in Keys
        /\ \A q \in Requests : q # r => reg'[q] = reg[q]
    BY <1>1, <2>1 DEF PersistKey, TypeInv, TypeOK
  <2>3. "persist_dump" \in Steps
    BY DEF Steps, PersistSteps
  <2> QED
    BY <1>0, <1>1, <2>2, <2>3, GotoKeepsTypes DEF PersistKey, node, TypeInv, TypeOK, LocalsSet
<1>2. CASE ~DumpWorks
  BY <1>2, AnswerKeepsTypes DEF PersistKey, Raise, node, TypeInv, TypeOK, LocalsSet
<1> QED
  BY <1>1, <1>2

\* The second dump of _persist keeps it.
LEMMA PersistDumpType == ASSUME TypeInv, NEW r \in Requests, PersistDump(r) PROVE TypeInv'
<1>0. call[r] \in Calls /\ reg[r] \in Registers /\ StatusPeers \in Table /\ reg[r].key \in Keys
  BY HandlerFacts DEF PersistDump, Steps, PersistSteps, TypeInv, LocalsSet
<1>1. CASE Running
  <2>1. [reg[r] EXCEPT !.peers = StatusPeers] \in Registers
        /\ [reg[r] EXCEPT !.peers = StatusPeers].key = reg[r].key
    BY <1>0 DEF Registers
  <2>2. reg' \in [Requests -> Registers] /\ reg'[r].key \in Keys
        /\ \A q \in Requests : q # r => reg'[q] = reg[q]
    BY <1>0, <1>1, <2>1 DEF PersistDump, TypeInv, TypeOK
  <2>3. "persist_write" \in Steps
    BY DEF Steps, PersistSteps
  <2> QED
    BY <1>0, <1>1, <2>2, <2>3, GotoKeepsTypes DEF PersistDump, node, TypeInv, TypeOK, LocalsSet
<1>2. CASE ~Running
  BY <1>2, AnswerKeepsTypes DEF PersistDump, Raise, node, TypeInv, TypeOK, LocalsSet
<1> QED
  BY <1>1, <1>2

\* The write of _persist keeps it: what is handed over is a configuration.
LEMMA PersistWriteType == ASSUME TypeInv, NEW r \in Requests, PersistWrite(r) PROVE TypeInv'
<1>0. call[r] \in Calls /\ reg[r].key \in Keys /\ reg[r].peers \in Table
  BY HandlerFacts DEF PersistWrite, Steps, PersistSteps, TypeInv, LocalsSet, Registers
<1>1. CASE WriteWorks
  <2>1. handed' \in Conf /\ disk' = Unexpanded
    BY <1>0, <1>1, RenderType DEF PersistWrite, WriteServerConfig, Params
  <2>2. CASE call[r].op = "create"
    <3>1. "create_status" \in Steps
      BY DEF Steps, CreateSteps
    <3> QED
      BY <1>0, <1>1, <2>1, <2>2, <3>1, GotoKeepsTypes
      DEF PersistWrite, TypeInv, TypeOK, LocalsSet
  <2>3. CASE call[r].op # "create"
    BY <1>1, <2>1, <2>3, AnswerKeepsTypes DEF PersistWrite, TypeInv, TypeOK, LocalsSet
  <2> QED
    BY <2>2, <2>3
<1>2. CASE ~WriteWorks
  BY <1>2, AnswerKeepsTypes DEF PersistWrite, Raise, TypeInv, TypeOK, LocalsSet
<1> QED
  BY <1>1, <1>2

\* The status check of server/init keeps it.
LEMMA InitStatusType == ASSUME TypeInv, NEW r \in Requests, InitStatus(r) PROVE TypeInv'
<1>0. call[r] \in Calls /\ StatusKey \in Keys \cup {NoKey}
  BY HandlerFacts DEF InitStatus, Steps, InitSteps
<1>1. CASE Running /\ StatusKey = NoKey
  <2>1. "init_key" \in Steps
    BY DEF Steps, InitSteps
  <2> QED
    BY <1>0, <1>1, <2>1, GotoKeepsTypes DEF InitStatus, node, TypeInv, TypeOK, LocalsSet
<1>2. CASE Running /\ StatusKey # NoKey
  BY <1>0, <1>2, AnswerKeepsTypes DEF InitStatus, node, TypeInv, TypeOK, LocalsSet
<1>3. CASE ~Running
  BY <1>3, AnswerKeepsTypes DEF InitStatus, Raise, node, TypeInv, TypeOK, LocalsSet
<1> QED
  BY <1>1, <1>2, <1>3

\* The write of server/init keeps it.
LEMMA InitWriteType == ASSUME TypeInv, NEW r \in Requests, InitWrite(r) PROVE TypeInv'
<1>0. call[r] \in Calls /\ reg[r].made \in Keys
  BY HandlerFacts DEF InitWrite, Steps, InitSteps, TypeInv, LocalsSet
<1>1. CASE WriteWorks
  <2>1. handed' \in Conf /\ disk' = Unexpanded
    BY <1>0, <1>1, RenderType, EmptyIsTable DEF InitWrite, WriteServerConfig, Params
  <2>2. "init_strip" \in Steps
    BY DEF Steps, InitSteps
  <2> QED
    BY <1>0, <1>1, <2>1, <2>2, GotoKeepsTypes DEF InitWrite, TypeInv, TypeOK, LocalsSet
<1>2. CASE ~WriteWorks
  BY <1>2, AnswerKeepsTypes DEF InitWrite, Raise, TypeInv, TypeOK, LocalsSet
<1> QED
  BY <1>1, <1>2

\* The strip of reload_interface keeps it.
LEMMA InitStripType == ASSUME TypeInv, NEW r \in Requests, InitStrip(r) PROVE TypeInv'
<1>0. call[r] \in Calls /\ reg[r] \in Registers
  BY HandlerFacts DEF InitStrip, Steps, InitSteps
<1>1. "init_sync" \in Steps /\ "init_up" \in Steps
  BY DEF Steps, InitSteps
<1>2. CASE Running /\ disk \notin {NoDir, NoFile}
  <2>1. [reg[r] EXCEPT !.text = disk] \in Registers
    BY <1>0 DEF Registers, TypeInv, TypeOK
  <2>2. reg' \in [Requests -> Registers] /\ \A q \in Requests : q # r => reg'[q] = reg[q]
    BY <1>2, <2>1 DEF InitStrip, TypeInv, TypeOK
  <2> QED
    BY <1>0, <1>1, <1>2, <2>2, GotoKeepsTypes DEF InitStrip, node, TypeInv, TypeOK, LocalsSet
<1>3. CASE ~(Running /\ disk \notin {NoDir, NoFile})
  BY <1>0, <1>1, <1>3, GotoKeepsTypes DEF InitStrip, node, TypeInv, TypeOK, LocalsSet
<1> QED
  BY <1>2, <1>3

\* The syncconf of reload_interface keeps it.
LEMMA InitSyncType == ASSUME TypeInv, NEW r \in Requests, InitSync(r) PROVE TypeInv'
<1>0. call[r] \in Calls /\ reg[r].made \in Keys \cup {NoKey}
  BY HandlerFacts DEF InitSync, Steps, InitSteps, Registers
<1>1. CASE DumpWorks /\ Parses(reg[r].text)
  <2>1. iface' \in Interface /\ iface'.key \in Keys
    BY <1>1, UpWithType DEF InitSync, Parses
  <2> QED
    BY <1>0, <1>1, <2>1, AnswerKeepsTypes DEF InitSync, TypeInv, TypeOK, LocalsSet
<1>2. CASE ~(DumpWorks /\ Parses(reg[r].text))
  <2>1. "init_up" \in Steps
    BY DEF Steps, InitSteps
  <2> QED
    BY <1>0, <1>2, <2>1, GotoKeepsTypes DEF InitSync, TypeInv, TypeOK, LocalsSet
<1> QED
  BY <1>1, <1>2

\* The awg-quick up of server/init keeps it.
LEMMA InitUpType == ASSUME TypeInv, NEW r \in Requests, InitUp(r) PROVE TypeInv'
<1>0. reg[r].made \in Keys \cup {NoKey}
  BY HandlerFacts DEF InitUp, Steps, InitSteps, Registers
<1>1. CASE UpWorks
  <2>1. iface' \in Interface /\ iface'.key \in Keys
    BY <1>1, UpWithType DEF InitUp, UpWorks, Parses
  <2> QED
    BY <1>0, <1>1, <2>1, AnswerKeepsTypes DEF InitUp, TypeInv, TypeOK, LocalsSet
<1>2. CASE ~UpWorks
  BY <1>2, AnswerKeepsTypes DEF InitUp, Raise, TypeInv, TypeOK, LocalsSet
<1> QED
  BY <1>1, <1>2

\* Both steps of server/status keep it.
LEMMA StatusType ==
    ASSUME TypeInv, NEW r \in Requests, StatusLookup(r) \/ StatusExec(r)
    PROVE  TypeInv'
<1>0. call[r] \in Calls /\ StatusKey \in Keys \cup {NoKey}
  BY HandlerFacts DEF StatusLookup, StatusExec, Steps
<1>1. CASE StatusLookup(r) /\ Running
  <2>1. "status_exec" \in Steps
    BY DEF Steps
  <2> QED
    BY <1>0, <1>1, <2>1, GotoKeepsTypes DEF StatusLookup, node, TypeInv, TypeOK, LocalsSet
<1>2. CASE StatusLookup(r) /\ ~Running
  BY <1>2, AnswerKeepsTypes DEF StatusLookup, node, TypeInv, TypeOK, LocalsSet
<1>3. CASE StatusExec(r)
  BY <1>0, <1>3, AnswerKeepsTypes DEF StatusExec, Raise, node, TypeInv, TypeOK, LocalsSet
<1> QED
  BY <1>1, <1>2, <1>3

\* A crash of the agent keeps it.
LEMMA CrashType == ASSUME TypeInv, AgentCrash PROVE TypeInv'
<1> DEFINE pending == {r \in Requests : pc[r] \notin Finished \cup {"unsent"}}
<1>1. /\ pc' = [r \in Requests |-> IF r \in pending THEN "lost" ELSE pc[r]]
      /\ reg' = [r \in Requests |-> IF r \in pending THEN Blank ELSE reg[r]]
      /\ loop' = Idle /\ UNCHANGED <<node, call, reply>>
  BY DEF AgentCrash
<1>2. TypeOK'
  BY <1>1, BlankIsRegisters DEF TypeInv, TypeOK, node, Finished
<1>3. LocalsSet'
  <2> SUFFICES ASSUME NEW q \in Requests
               PROVE  pc'[q] \notin Steps \cup {"queued"}
    BY <1>1 DEF TypeInv, LocalsSet, node, Steps, PersistSteps, InitSteps
  <2> QED
    BY <1>1 DEF Finished, Steps, CreateSteps, PersistSteps, InitSteps
<1> QED
  BY <1>2, <1>3 DEF TypeInv

\* Stops, starts and operators keep it.
LEMMA EnvironmentType ==
    ASSUME TypeInv, ContainerStop \/ ContainerStart \/ Provision \/ ManualUp
    PROVE  TypeInv'
<1>1. CASE ContainerStop
  BY <1>1, DownIsInterface DEF ContainerStop, TypeInv, TypeOK, LocalsSet, agent, Down
<1>2. CASE ContainerStart
  BY <1>2, DiskAssumption DEF ContainerStart, TypeInv, TypeOK, LocalsSet, agent
<1>3. CASE Provision
  <2>1. PICK k \in Keys \ minted :
           /\ minted' = minted \cup {k}
           /\ disk' = RenderServerConfig(k, "node", Empty)
           /\ iface' = UpWith(disk')
    BY <1>3 DEF Provision
  <2>2. disk' \in Conf
    BY <2>1, RenderType, EmptyIsTable DEF Params
  <2>3. iface' \in Interface /\ iface'.key \in Keys
    BY <2>1, <2>2, UpWithType
  <2> QED
    BY <1>3, <2>1, <2>2, <2>3 DEF Provision, TypeInv, TypeOK, LocalsSet, agent
<1>4. CASE ManualUp
  <2>1. iface' \in Interface /\ iface'.key \in Keys
    BY <1>4, UpWithType DEF ManualUp, UpWorks, Parses
  <2> QED
    BY <1>4, <2>1 DEF ManualUp, TypeInv, TypeOK, LocalsSet, agent
<1> QED
  BY <1>1, <1>2, <1>3, <1>4

\* Every step keeps the typing invariant.
LEMMA TypeStep == TypeInv /\ [Next]_vars => TypeInv'
<1> SUFFICES ASSUME TypeInv, [Next]_vars PROVE TypeInv'
  OBVIOUS
<1>1. ASSUME NEW r \in Requests, Send(r) \/ Refuse(r) \/ Dispatch(r) PROVE TypeInv'
  BY <1>1, SendType, RefuseType, DispatchType
<1>2. ASSUME NEW r \in Requests, HandlerStep(r) PROVE TypeInv'
  <2>1. CASE CreateKey(r)
    <3>1. "create_key" \in Steps
      BY DEF Steps, CreateSteps
    <3> QED
      BY <2>1, <3>1, GenerateKeypairType DEF CreateKey
  <2>2. CASE InitKey(r)
    <3>1. "init_key" \in Steps
      BY DEF Steps, InitSteps
    <3> QED
      BY <2>2, <3>1, GenerateKeypairType DEF InitKey
  <2> QED
    BY <1>2, <2>1, <2>2, AddPeerType, CreateStatusType, RemovePeerStepType, UpdatePeerType,
       PersistKeyType, PersistDumpType, PersistWriteType, InitStatusType, InitWriteType,
       InitStripType, InitSyncType, InitUpType, StatusType
    DEF HandlerStep
<1>3. CASE AgentCrash \/ ContainerStop \/ ContainerStart \/ Provision \/ ManualUp
  BY <1>3, CrashType, EnvironmentType
<1>4. CASE UNCHANGED vars
  BY <1>4 DEF vars, node, agent, TypeInv, TypeOK, LocalsSet
<1> QED
  BY <1>1, <1>2, <1>3, <1>4 DEF Next, Serve

\* Every state of the node and its agent is typed, for every choice of the constants.
THEOREM TypeCorrect == Spec => []TypeOK
<1>1. TypeInv => TypeOK
  BY DEF TypeInv
<1> QED
  BY <1>1, TypeInit, TypeStep, PTL DEF Spec
----------------------------------------------------------------------------
(* Safety.                                                                 *)

IInv == TypeInv /\ HandlersConsistent

\* The names of the steps, expanded once.
LEMMA StepNames ==
    /\ {"done", "lost", "unsent", "queued"} \cap Steps = {}
    /\ {"create_key", "create_add", "create_status", "persist_key", "persist_dump",
        "persist_write", "init_status", "init_key", "init_write", "init_strip",
        "init_sync", "init_up", "delete", "patch", "status", "status_exec"} \subseteq Steps
BY DEF Steps, CreateSteps, PersistSteps, InitSteps

\* While r's handler runs, no other one does.
LEMMA Alone ==
    ASSUME IInv, NEW r \in Requests, pc[r] \in Steps
    PROVE  loop = r /\ \A q \in Requests : q # r => pc[q] \notin Steps
BY DEF IInv, HandlersConsistent, OneHandler

\* While nobody owns the event loop, no handler runs.
LEMMA NoneRuns ==
    ASSUME IInv, loop = Idle
    PROVE  \A q \in Requests : pc[q] \notin Steps
BY ValuesAssumption DEF IInv, HandlersConsistent, OneHandler

\* With no handler left running, only what concerns the node remains to be shown.
LEMMA QuietConsistent ==
    ASSUME TypeInv', loop' = Idle, \A q \in Requests : pc'[q] \notin Steps,
           iface'.up => iface'.key \in minted',
           disk' \in Conf => disk'.key \in minted',
           DownWhenStopped'
    PROVE  HandlersConsistent'
<1>1. OneHandler'
  BY ValuesAssumption DEF OneHandler
<1>2. StepsOfCall' /\ EpochsPast'
  BY DEF StepsOfCall, EpochsPast, Steps
<1>3. KeysMinted'
  BY StepNames DEF KeysMinted
<1> QED
  BY <1>1, <1>2, <1>3 DEF HandlersConsistent

\* An answer leaves the event loop free and no handler running.
LEMMA AnswerConsistent ==
    ASSUME IInv, TypeInv', NEW r \in Requests, NEW code, NEW key,
           pc[r] \in Steps \/ loop = Idle,
           Answer(r, code, key),
           iface'.up => iface'.key \in minted',
           disk' \in Conf => disk'.key \in minted',
           DownWhenStopped'
    PROVE  HandlersConsistent'
<1>1. \A q \in Requests : q # r => pc[q] \notin Steps
  BY Alone, NoneRuns
<1>2. pc \in [Requests -> PCs]
  BY DEF IInv, TypeInv, TypeOK, PCs
<1>3. \A q \in Requests : pc'[q] \notin Steps
  BY <1>1, <1>2, StepNames DEF Answer, Goto
<1> QED
  BY <1>3, QuietConsistent DEF Answer

\* A handler that goes on remains the only one; what it knows next is to be shown.
LEMMA GotoConsistent ==
    ASSUME IInv, TypeInv', NEW r \in Requests, NEW step \in Steps,
           pc[r] \in Steps \/ loop = Idle,
           Goto(r, step), loop' = r, call' = call,
           step \in InitSteps => call[r].op = "init",
           step \in CreateSteps => call[r].op = "create",
           step \in PersistSteps => call[r].op \in Mutations,
           step = "delete" => call[r].op = "delete",
           step = "patch" => call[r].op = "patch",
           step \in {"status", "status_exec"} => call[r].op = "status",
           reg'[r].epoch <= epoch',
           iface'.up => iface'.key \in minted',
           disk' \in Conf => disk'.key \in minted',
           step = "init_sync" /\ reg'[r].text \in Conf => reg'[r].text.key \in minted',
           DownWhenStopped',
           Undisturbed(r)' => HandlerKnows(r)'
    PROVE  HandlersConsistent'
<1>1. \A q \in Requests : q # r => pc[q] \notin Steps
  BY Alone, NoneRuns
<1>2. pc \in [Requests -> PCs]
  BY DEF IInv, TypeInv, TypeOK, PCs
<1>3. pc'[r] = step /\ \A q \in Requests : q # r => pc'[q] \notin Steps
  BY <1>1, <1>2 DEF Goto
<1>4. OneHandler' /\ EpochsPast'
  BY <1>3 DEF OneHandler, EpochsPast
<1>5. StepsOfCall'
  BY <1>3 DEF StepsOfCall, Steps
<1>6. KeysMinted'
  BY <1>3, StepNames DEF KeysMinted
<1>7. \A q \in Requests : pc'[q] \in Steps /\ Undisturbed(q)' => HandlerKnows(q)'
  BY <1>3
<1> QED
  BY <1>4, <1>5, <1>6, <1>7 DEF HandlersConsistent

\* What r's handler starts its next exec from.
LEMMA StepFacts ==
    ASSUME IInv, NEW r \in Requests, pc[r] \in Steps
    PROVE  /\ TypeInv
           /\ loop = r
           /\ reg[r].epoch <= epoch
           /\ reg[r] \in Registers /\ reg \in [Requests -> Registers]
           /\ call[r] \in CallType
           /\ iface \in Interface
           /\ iface.up => iface.key \in minted
           /\ disk \in Conf => disk.key \in minted
           /\ DownWhenStopped
           /\ Undisturbed(r) => HandlerKnows(r)
<1>1. TypeInv /\ HandlersConsistent
  BY DEF IInv
<1>2. call[r] \in CallType
  BY <1>1, HandlerFacts
<1> QED
  BY <1>1, <1>2, Alone
  DEF HandlersConsistent, EpochsPast, KeysMinted, TypeInv, TypeOK

\* The consistency invariant holds initially.
LEMMA ConsistentInit == Init => HandlersConsistent
<1> SUFFICES ASSUME Init PROVE HandlersConsistent
  OBVIOUS
<1>1. \A r \in Requests : pc[r] \notin Steps
  BY StepNames DEF Init
<1>2. OneHandler /\ StepsOfCall /\ EpochsPast
  BY <1>1, ValuesAssumption DEF Init, OneHandler, StepsOfCall, EpochsPast, Steps
<1>3. KeysMinted /\ DownWhenStopped
  BY DiskAssumption DEF Init, KeysMinted, DownWhenStopped, Down
<1> QED
  BY <1>1, <1>2, <1>3 DEF HandlersConsistent

\* Goto moves the request it names.
LEMMA GotoSets ==
    ASSUME TypeInv, NEW r \in Requests, NEW step, Goto(r, step)
    PROVE  pc'[r] = step
BY DEF TypeInv, TypeOK, Goto

\* What HandlerKnows says of each step, expanded once.
LEMMA KnowsAt ==
    ASSUME NEW r \in Requests
    PROVE  /\ pc'[r] \in {"create_key", "delete", "patch", "status", "status_exec",
                          "init_status"} => HandlerKnows(r)'
           /\ pc'[r] = "create_add" /\ reg'[r].made \in Keys
              /\ (iface'.up => reg'[r].made # iface'.key) => HandlerKnows(r)'
           /\ pc'[r] = "persist_key" /\ iface'.up /\ Done(r)' => HandlerKnows(r)'
           /\ pc'[r] = "persist_dump" /\ iface'.up /\ Done(r)'
              /\ reg'[r].key = iface'.key => HandlerKnows(r)'
           /\ pc'[r] = "persist_write" /\ iface'.up /\ Done(r)'
              /\ reg'[r].key = iface'.key /\ reg'[r].peers = iface'.peers => HandlerKnows(r)'
           /\ pc'[r] = "create_status" /\ iface'.up /\ Done(r)' /\ handed' \in Conf
              /\ handed'.key = iface'.key /\ handed'.peers = iface'.peers => HandlerKnows(r)'
           /\ pc'[r] \in {"init_key", "init_write"} /\ Running' /\ ~iface'.up
              => HandlerKnows(r)'
           /\ pc'[r] \in {"init_strip", "init_sync", "init_up"} /\ Running' /\ ~iface'.up
              /\ disk' \notin Conf => HandlerKnows(r)'
BY DEF HandlerKnows, AppliedSteps, PersistSteps, BringUpSteps, InitSteps

\* A request that arrives disturbs no handler.
LEMMA SendConsistent ==
    ASSUME IInv, TypeInv', NEW r \in Requests, Send(r) PROVE HandlersConsistent'
<1>1. pc[r] \notin Steps /\ pc'[r] \notin Steps
  BY GotoSets, StepNames DEF IInv, Send
<1>2. \A q \in Requests : q # r => pc'[q] = pc[q] /\ call'[q] = call[q]
  BY DEF Send, Goto, IInv, TypeInv, TypeOK
<1>3. UNCHANGED <<container, iface, disk, epoch, minted, handed, loop, reg>>
  BY DEF Send, node
<1>4. OneHandler'
  BY <1>1, <1>2, <1>3 DEF IInv, HandlersConsistent, OneHandler
<1>5. EpochsPast'
  BY <1>1, <1>2, <1>3 DEF IInv, HandlersConsistent, EpochsPast
<1>6. StepsOfCall'
  BY <1>1, <1>2, <1>3 DEF IInv, HandlersConsistent, StepsOfCall, Steps
<1>7. KeysMinted' /\ DownWhenStopped'
  BY <1>1, <1>2, <1>3, StepNames DEF IInv, HandlersConsistent, KeysMinted, DownWhenStopped
<1>8. ASSUME NEW q \in Requests, pc'[q] \in Steps, Undisturbed(q)'
      PROVE  HandlerKnows(q)'
  <2>1. q # r /\ pc[q] \in Steps /\ Undisturbed(q)
    BY <1>1, <1>2, <1>3, <1>8 DEF Undisturbed
  <2>2. HandlerKnows(q)
    BY <2>1 DEF IInv, HandlersConsistent
  <2> QED
    BY <1>2, <1>3, <2>1, <2>2 DEF HandlerKnows, Done, Running
<1> QED
  BY <1>4, <1>5, <1>6, <1>7, <1>8 DEF HandlersConsistent

\* A refusal disturbs none.
LEMMA RefuseConsistent ==
    ASSUME IInv, TypeInv', NEW r \in Requests, Refuse(r) PROVE HandlersConsistent'
BY AnswerConsistent
DEF Refuse, node, IInv, HandlersConsistent, KeysMinted, DownWhenStopped

\* A handler starts only when no other runs, and knows nothing yet.
LEMMA DispatchConsistent ==
    ASSUME IInv, TypeInv', NEW r \in Requests, Dispatch(r) PROVE HandlersConsistent'
<1> DEFINE first == FirstStep(call[r].op)
<1>1. call[r] \in CallType /\ reg[r] \in Registers /\ epoch \in Nat
  BY HandlerFacts DEF Dispatch, IInv
<1>2. call[r].op \in {"init", "status", "create", "delete", "patch"}
  BY <1>1 DEF CallType
<1>3. /\ first \in {"create_key", "delete", "patch", "status", "init_status"}
      /\ first \in InitSteps => call[r].op = "init"
      /\ first \in CreateSteps => call[r].op = "create"
      /\ first \notin PersistSteps
      /\ first \in {"delete", "patch", "status"} => call[r].op = first
  BY <1>2 DEF FirstStep, InitSteps, CreateSteps, PersistSteps
<1>4. reg'[r].epoch = epoch /\ epoch <= epoch /\ epoch' = epoch
  BY <1>1 DEF Dispatch, IInv, TypeInv, TypeOK, Registers, node
<1>5. Goto(r, first) /\ loop = Idle /\ loop' = r /\ call' = call
      /\ UNCHANGED <<container, iface, disk, minted>>
  BY DEF Dispatch, node
<1>6. HandlerKnows(r)'
  BY <1>3, <1>5, GotoSets, KnowsAt DEF IInv
<1>7. KeysMinted /\ DownWhenStopped
  BY DEF IInv, HandlersConsistent
<1>8. first \in Steps
  BY <1>3, StepNames
<1>9. /\ iface'.up => iface'.key \in minted'
      /\ disk' \in Conf => disk'.key \in minted'
      /\ DownWhenStopped'
  BY <1>5, <1>7 DEF KeysMinted, DownWhenStopped
<1> HIDE DEF first
<1> QED
  BY <1>3, <1>4, <1>5, <1>6, <1>8, <1>9, GotoConsistent

\* A fresh key is none of the node's, and generating it changes nothing else.
LEMMA CreateKeyConsistent ==
    ASSUME IInv, TypeInv', NEW r \in Requests, CreateKey(r) PROVE HandlersConsistent'
<1>0. pc[r] = "create_key" /\ pc[r] \in Steps /\ pc[r] \in CreateSteps
  BY StepNames DEF CreateKey, GenerateKeypair, CreateSteps
<1>1. call[r].op = "create"
  BY <1>0 DEF IInv, HandlersConsistent, StepsOfCall
<1>2. UNCHANGED <<container, iface, disk, epoch, handed, call>>
  BY DEF CreateKey, GenerateKeypair
<1>3. CASE Running
  <2>1. PICK k \in Keys \ minted :
           minted' = minted \cup {k} /\ reg' = [reg EXCEPT ![r].made = k]
    BY <1>3 DEF CreateKey, GenerateKeypair
  <2>2. Goto(r, "create_add") /\ loop' = loop
    BY <1>3 DEF CreateKey, GenerateKeypair
  <2>3. reg'[r].made = k /\ reg'[r].epoch = reg[r].epoch
    BY <1>0, <2>1, StepFacts DEF Registers
  <2>4. iface'.up => reg'[r].made # iface'.key
    BY <1>0, <1>2, <2>1, <2>3, StepFacts
  <2>5. pc'[r] = "create_add"
    BY <2>2, GotoSets DEF IInv
  <2>6. HandlerKnows(r)'
    BY <2>1, <2>3, <2>4, <2>5, KnowsAt
  <2>7. "create_add" \notin InitSteps /\ "create_add" \notin PersistSteps
    BY DEF InitSteps, PersistSteps
  <2>8. DownWhenStopped' /\ reg'[r].epoch <= epoch'
        /\ (iface'.up => iface'.key \in minted') /\ (disk' \in Conf => disk'.key \in minted')
    BY <1>0, <1>2, <2>1, <2>3, StepFacts DEF DownWhenStopped
  <2>9. loop' = r /\ "create_add" \in Steps
    BY <1>0, <2>2, StepFacts, StepNames
  <2> QED
    BY <1>0, <1>1, <1>2, <2>2, <2>6, <2>7, <2>8, <2>9, GotoConsistent
<1>4. CASE ~Running
  BY <1>0, <1>2, <1>4, StepFacts, AnswerConsistent
  DEF CreateKey, GenerateKeypair, Raise, DownWhenStopped
<1> QED
  BY <1>3, <1>4

\* The address given is held afterwards; the peer removed is absent.
LEMMA SetPeerEntry ==
    ASSUME NEW i \in Interface, NEW k \in Keys, NEW ips \in Ips
    PROVE  SetPeer(i, k, ips).peers[k] = ips \/ SetPeer(i, k, ips).key = k
BY DEF SetPeer, Interface

\* After a removal the key is absent and the other peers are as they were.
LEMMA RemovePeerEntry ==
    ASSUME NEW i \in Interface, NEW k \in Keys
    PROVE  RemovePeer(i, k).peers[k] = Absent
BY DEF RemovePeer, Interface, Table

\* After the exec that makes the change, the handler goes on to save it.
LEMMA AppliedConsistent ==
    ASSUME IInv, TypeInv', NEW r \in Requests, pc[r] \in {"create_add", "delete", "patch"},
           Goto(r, "persist_key"), UNCHANGED <<loop, reg, container, disk, epoch, minted, call>>,
           iface.up, iface'.up, iface'.key = iface.key,
           Undisturbed(r) => Done(r)'
    PROVE  HandlersConsistent'
<1>1. pc[r] \in Steps
  BY StepNames
<1>2. call[r].op \in Mutations
  BY DEF IInv, HandlersConsistent, StepsOfCall, CreateSteps, Mutations
<1>3. "persist_key" \notin InitSteps /\ "persist_key" \notin CreateSteps
      /\ "persist_key" \in Steps
  BY StepNames DEF InitSteps, CreateSteps
<1>4. Undisturbed(r)' => HandlerKnows(r)'
  <2>1. pc'[r] = "persist_key"
    BY GotoSets DEF IInv
  <2> QED
    BY <2>1, KnowsAt DEF Undisturbed
<1>5. DownWhenStopped'
  BY <1>1, StepFacts DEF DownWhenStopped
<1> QED
  BY <1>1, <1>2, <1>3, <1>4, <1>5, StepFacts, GotoConsistent

\* After `awg set' the created key has its address: the handler knows its change is live.
LEMMA AddPeerConsistent ==
    ASSUME IInv, TypeInv', NEW r \in Requests, AddPeer(r) PROVE HandlersConsistent'
<1>0. pc[r] = "create_add" /\ pc[r] \in Steps /\ pc[r] \in CreateSteps
  BY StepNames DEF AddPeer, CreateSteps
<1>1. call[r].op = "create"
  BY <1>0 DEF IInv, HandlersConsistent, StepsOfCall
<1>2. CASE SetWorks(call[r].ips)
  <2>1. iface' = SetPeer(iface, reg[r].made, call[r].ips) /\ iface.up /\ call[r].ips \in Ips
    BY <1>2 DEF AddPeer, SetWorks
  <2>2. iface'.up /\ iface'.key = iface.key
    BY <1>0, <2>1, StepFacts, SetPeerType
  <2>3. ASSUME Undisturbed(r) PROVE Done(r)'
    <3>1. reg[r].made \in Keys /\ reg[r].made # iface.key
      BY <1>0, <2>1, <2>3, StepFacts DEF HandlerKnows
    <3>2. iface'.peers[reg[r].made] = call[r].ips
      BY <1>0, <2>1, <2>2, <3>1, StepFacts, SetPeerEntry
    <3> QED
      BY <1>1, <1>2, <3>2 DEF AddPeer, Done
  <2> QED
    BY <1>0, <1>2, <2>1, <2>2, <2>3, AppliedConsistent DEF AddPeer
<1>3. CASE ~SetWorks(call[r].ips)
  BY <1>0, <1>3, StepFacts, AnswerConsistent DEF AddPeer, Raise, DownWhenStopped
<1> QED
  BY <1>2, <1>3

\* After the removal the handler knows its change is live.
LEMMA RemovePeerStepConsistent ==
    ASSUME IInv, TypeInv', NEW r \in Requests, RemovePeerStep(r) PROVE HandlersConsistent'
<1>0. pc[r] = "delete" /\ pc[r] \in Steps
  BY StepNames DEF RemovePeerStep
<1>1. call[r].op = "delete" /\ call[r] \in CallType
  BY <1>0, StepFacts DEF IInv, HandlersConsistent, StepsOfCall
<1>2. CASE DumpWorks
  <2>1. iface' = RemovePeer(iface, call[r].key) /\ iface.up /\ call[r].key \in Keys
    BY <1>1, <1>2 DEF RemovePeerStep, DumpWorks, CallType
  <2>2. iface'.up /\ iface'.key = iface.key /\ iface'.peers[call[r].key] = Absent
    BY <1>0, <2>1, StepFacts, RemovePeerType, RemovePeerEntry
  <2>3. Done(r)'
    BY <1>1, <1>2, <2>2 DEF RemovePeerStep, Done
  <2> QED
    BY <1>0, <1>2, <2>1, <2>2, <2>3, AppliedConsistent DEF RemovePeerStep
<1>3. CASE ~DumpWorks
  BY <1>0, <1>3, StepFacts, AnswerConsistent DEF RemovePeerStep, Raise, DownWhenStopped
<1> QED
  BY <1>2, <1>3

\* After the update the handler knows its change is live, or the key is the node's own.
LEMMA UpdatePeerConsistent ==
    ASSUME IInv, TypeInv', NEW r \in Requests, UpdatePeer(r) PROVE HandlersConsistent'
<1>0. pc[r] = "patch" /\ pc[r] \in Steps
  BY StepNames DEF UpdatePeer
<1>1. call[r].op = "patch" /\ call[r] \in CallType
  BY <1>0, StepFacts DEF IInv, HandlersConsistent, StepsOfCall
<1>2. CASE SetWorks(call[r].ips)
  <2>1. /\ iface' = SetPeer(iface, call[r].key, call[r].ips)
        /\ iface.up /\ call[r].ips \in Ips /\ call[r].key \in Keys
    BY <1>1, <1>2 DEF UpdatePeer, SetWorks, CallType
  <2>2. /\ iface'.up /\ iface'.key = iface.key
        /\ iface'.peers[call[r].key] = call[r].ips \/ iface'.key = call[r].key
    BY <1>0, <2>1, StepFacts, SetPeerType, SetPeerEntry
  <2>3. Done(r)'
    BY <1>1, <1>2, <2>2 DEF UpdatePeer, Done
  <2> QED
    BY <1>0, <1>2, <2>1, <2>2, <2>3, AppliedConsistent DEF UpdatePeer
<1>3. CASE ~SetWorks(call[r].ips)
  BY <1>0, <1>3, StepFacts, AnswerConsistent DEF UpdatePeer, Raise, DownWhenStopped
<1> QED
  BY <1>2, <1>3

\* POST /peers ends with nothing left to know.
LEMMA CreateStatusConsistent ==
    ASSUME IInv, TypeInv', NEW r \in Requests, CreateStatus(r) PROVE HandlersConsistent'
<1>0. pc[r] \in Steps
  BY StepNames DEF CreateStatus
<1> QED
  BY <1>0, StepFacts, AnswerConsistent DEF CreateStatus, Raise, DownWhenStopped, node

\* server/status knows nothing that could become false.
LEMMA StatusConsistent ==
    ASSUME IInv, TypeInv', NEW r \in Requests, StatusLookup(r) \/ StatusExec(r)
    PROVE  HandlersConsistent'
<1>0. pc[r] \in Steps /\ pc[r] \in {"status", "status_exec"}
  BY StepNames DEF StatusLookup, StatusExec
<1>1. CASE StatusLookup(r) /\ Running
  <2>1. call[r].op = "status"
    BY <1>0 DEF IInv, HandlersConsistent, StepsOfCall
  <2>2. "status_exec" \in Steps /\ "status_exec" \notin InitSteps
        /\ "status_exec" \notin CreateSteps /\ "status_exec" \notin PersistSteps
    BY StepNames DEF InitSteps, CreateSteps, PersistSteps
  <2>3. Goto(r, "status_exec") /\ UNCHANGED <<loop, reg, node, call>>
    BY <1>1 DEF StatusLookup
  <2>4. HandlerKnows(r)'
    BY <2>3, GotoSets, KnowsAt DEF IInv
  <2> QED
    BY <1>0, <2>1, <2>2, <2>3, <2>4, StepFacts, GotoConsistent DEF node, DownWhenStopped
<1>2. CASE StatusLookup(r) /\ ~Running
  BY <1>0, <1>2, StepFacts, AnswerConsistent DEF StatusLookup, DownWhenStopped, node
<1>3. CASE StatusExec(r)
  BY <1>0, <1>3, StepFacts, AnswerConsistent DEF StatusExec, Raise, DownWhenStopped, node
<1> QED
  BY <1>1, <1>2, <1>3

\* Saving reads the node and leaves what was applied alone.
LEMMA PersistKeyConsistent ==
    ASSUME IInv, TypeInv', NEW r \in Requests, PersistKey(r) PROVE HandlersConsistent'
<1>0. pc[r] = "persist_key" /\ pc[r] \in Steps /\ pc[r] \in AppliedSteps
  BY StepNames DEF PersistKey, AppliedSteps, PersistSteps
<1>1. call[r].op \in Mutations
  BY <1>0 DEF IInv, HandlersConsistent, StepsOfCall, PersistSteps
<1>2. CASE DumpWorks
  <2>1. /\ Goto(r, "persist_dump") /\ UNCHANGED <<node, call, loop>>
        /\ reg' = [reg EXCEPT ![r].key = iface.key]
    BY <1>2 DEF PersistKey
  <2>2. /\ reg'[r].key = iface.key /\ reg'[r].epoch = reg[r].epoch
        /\ reg'[r].made = reg[r].made
    BY <1>0, <2>1, StepFacts DEF Registers
  <2>3. ASSUME Undisturbed(r)' PROVE HandlerKnows(r)'
    <3>1. HandlerKnows(r)
      BY <1>0, <2>1, <2>2, <2>3, StepFacts DEF Undisturbed, node
    <3>2. iface'.up /\ Done(r)'
      BY <1>0, <2>1, <2>2, <3>1 DEF HandlerKnows, Done, node
    <3>3. pc'[r] = "persist_dump"
      BY <2>1, GotoSets DEF IInv
    <3> QED
      BY <2>1, <2>2, <3>2, <3>3, KnowsAt DEF node
  <2>4. "persist_dump" \in Steps /\ "persist_dump" \notin InitSteps
        /\ "persist_dump" \notin CreateSteps
    BY StepNames DEF InitSteps, CreateSteps
  <2> QED
    BY <1>0, <1>1, <2>1, <2>2, <2>3, <2>4, StepFacts, GotoConsistent
    DEF node, DownWhenStopped
<1>3. CASE ~DumpWorks
  BY <1>0, <1>3, StepFacts, AnswerConsistent DEF PersistKey, Raise, DownWhenStopped, node
<1> QED
  BY <1>2, <1>3

\* The second dump finds what the first one left: the same key, and the live peers.
LEMMA PersistDumpConsistent ==
    ASSUME IInv, TypeInv', NEW r \in Requests, PersistDump(r) PROVE HandlersConsistent'
<1>0. pc[r] = "persist_dump" /\ pc[r] \in Steps /\ pc[r] \in AppliedSteps
  BY StepNames DEF PersistDump, AppliedSteps, PersistSteps
<1>1. call[r].op \in Mutations
  BY <1>0 DEF IInv, HandlersConsistent, StepsOfCall, PersistSteps
<1>2. CASE Running
  <2>1. /\ Goto(r, "persist_write") /\ UNCHANGED <<node, call, loop>>
        /\ reg' = [reg EXCEPT ![r].peers = StatusPeers]
    BY <1>2 DEF PersistDump
  <2>2. /\ reg'[r].peers = StatusPeers /\ reg'[r].epoch = reg[r].epoch
        /\ reg'[r].made = reg[r].made /\ reg'[r].key = reg[r].key
    BY <1>0, <2>1, StepFacts DEF Registers
  <2>3. ASSUME Undisturbed(r)' PROVE HandlerKnows(r)'
    <3>1. HandlerKnows(r)
      BY <1>0, <2>1, <2>2, <2>3, StepFacts DEF Undisturbed, node
    <3>2. iface'.up /\ Done(r)' /\ reg'[r].key = iface'.key
      BY <1>0, <2>1, <2>2, <3>1 DEF HandlerKnows, Done, node
    <3>3. reg'[r].peers = iface'.peers
      BY <2>1, <2>2, <3>2 DEF StatusPeers, node
    <3>4. pc'[r] = "persist_write"
      BY <2>1, GotoSets DEF IInv
    <3> QED
      BY <3>2, <3>3, <3>4, KnowsAt
  <2>4. "persist_write" \in Steps /\ "persist_write" \notin InitSteps
        /\ "persist_write" \notin CreateSteps
    BY StepNames DEF InitSteps, CreateSteps
  <2> QED
    BY <1>0, <1>1, <2>1, <2>2, <2>3, <2>4, StepFacts, GotoConsistent
    DEF node, DownWhenStopped
<1>3. CASE ~Running
  BY <1>0, <1>3, StepFacts, AnswerConsistent DEF PersistDump, Raise, DownWhenStopped, node
<1> QED
  BY <1>2, <1>3

\* What is handed over is the live key and the live peers.
LEMMA PersistWriteConsistent ==
    ASSUME IInv, TypeInv', NEW r \in Requests, PersistWrite(r) PROVE HandlersConsistent'
<1>0. pc[r] = "persist_write" /\ pc[r] \in Steps /\ pc[r] \in AppliedSteps
  BY StepNames DEF PersistWrite, AppliedSteps, PersistSteps
<1>1. UNCHANGED <<container, iface, epoch, minted, call>>
  BY DEF PersistWrite
<1>2. reg[r].key \in Keys /\ reg[r].peers \in Table
  BY <1>0, StepFacts DEF TypeInv, LocalsSet, Registers
<1>3. CASE WriteWorks
  <2>1. /\ handed' = RenderServerConfig(reg[r].key, "none", reg[r].peers)
        /\ disk' = Unexpanded
    BY <1>3 DEF PersistWrite, WriteServerConfig
  <2>2. handed' \in Conf /\ handed'.key = reg[r].key /\ handed'.peers = reg[r].peers
    BY <1>2, <2>1, RenderType DEF RenderServerConfig, Params
  <2>3. disk' \notin Conf
    BY <2>1, DiskAssumption
  <2>4. CASE call[r].op = "create"
    <3>1. Goto(r, "create_status") /\ UNCHANGED <<loop, reg>>
      BY <1>3, <2>4 DEF PersistWrite
    <3>2. ASSUME Undisturbed(r)' PROVE HandlerKnows(r)'
      <4>1. HandlerKnows(r)
        BY <1>0, <1>1, <3>1, <3>2, StepFacts DEF Undisturbed
      <4>2. /\ iface'.up /\ Done(r)'
            /\ handed'.key = iface'.key /\ handed'.peers = iface'.peers
        BY <1>0, <1>1, <2>2, <3>1, <4>1 DEF HandlerKnows, Done
      <4>3. pc'[r] = "create_status"
        BY <3>1, GotoSets DEF IInv
      <4> QED
        BY <2>2, <4>2, <4>3, KnowsAt
    <3>3. "create_status" \in Steps /\ "create_status" \notin InitSteps
          /\ "create_status" \notin PersistSteps
      BY StepNames DEF InitSteps, PersistSteps
    <3> QED
      BY <1>0, <1>1, <2>3, <2>4, <3>1, <3>2, <3>3, StepFacts, GotoConsistent
      DEF DownWhenStopped
  <2>5. CASE call[r].op # "create"
    BY <1>0, <1>1, <1>3, <2>3, <2>5, StepFacts, AnswerConsistent
    DEF PersistWrite, DownWhenStopped
  <2> QED
    BY <2>4, <2>5
<1>4. CASE ~WriteWorks
  BY <1>0, <1>1, <1>4, StepFacts, AnswerConsistent DEF PersistWrite, Raise, DownWhenStopped
<1> QED
  BY <1>3, <1>4

\* server/init goes on only from a node that is down, and stays on one.
LEMMA InitStatusConsistent ==
    ASSUME IInv, TypeInv', NEW r \in Requests, InitStatus(r) PROVE HandlersConsistent'
<1>0. pc[r] = "init_status" /\ pc[r] \in Steps /\ pc[r] \in InitSteps
  BY StepNames DEF InitStatus, InitSteps
<1>1. call[r].op = "init" /\ UNCHANGED <<node, call>>
  BY <1>0 DEF IInv, HandlersConsistent, StepsOfCall, InitStatus
<1>2. CASE Running /\ StatusKey = NoKey
  <2>1. Goto(r, "init_key") /\ UNCHANGED <<loop, reg>>
    BY <1>2 DEF InitStatus
  <2>2. ~iface.up
    BY <1>2, ValuesAssumption DEF StatusKey, IInv, TypeInv, LocalsSet
  <2>3. HandlerKnows(r)'
    BY <1>1, <1>2, <2>1, <2>2, GotoSets, KnowsAt DEF IInv, node, Running
  <2>4. "init_key" \in Steps /\ "init_key" \notin CreateSteps /\ "init_key" \notin PersistSteps
    BY StepNames DEF CreateSteps, PersistSteps
  <2> QED
    BY <1>0, <1>1, <2>1, <2>3, <2>4, StepFacts, GotoConsistent DEF node, DownWhenStopped
<1>3. CASE ~(Running /\ StatusKey = NoKey)
  BY <1>0, <1>1, <1>3, StepFacts, AnswerConsistent DEF InitStatus, Raise, DownWhenStopped, node
<1> QED
  BY <1>2, <1>3

\* The key server/init generates was in use nowhere; the interface is still down.
LEMMA InitKeyConsistent ==
    ASSUME IInv, TypeInv', NEW r \in Requests, InitKey(r) PROVE HandlersConsistent'
<1>0. pc[r] = "init_key" /\ pc[r] \in Steps /\ pc[r] \in InitSteps /\ pc[r] \in BringUpSteps
  BY StepNames DEF InitKey, GenerateKeypair, InitSteps, BringUpSteps
<1>1. call[r].op = "init" /\ UNCHANGED <<container, iface, disk, epoch, call>>
  BY <1>0 DEF IInv, HandlersConsistent, StepsOfCall, InitKey, GenerateKeypair
<1>2. CASE Running
  <2>1. PICK k \in Keys \ minted :
           minted' = minted \cup {k} /\ reg' = [reg EXCEPT ![r].made = k]
    BY <1>2 DEF InitKey, GenerateKeypair
  <2>2. Goto(r, "init_write") /\ loop' = loop
    BY <1>2 DEF InitKey, GenerateKeypair
  <2>3. reg'[r].epoch = reg[r].epoch
    BY <1>0, <2>1, StepFacts DEF Registers
  <2>4. ASSUME Undisturbed(r)' PROVE HandlerKnows(r)'
    <3>1. Running /\ ~iface.up
      BY <1>0, <1>1, <2>3, <2>4, StepFacts DEF Undisturbed, HandlerKnows
    <3> QED
      BY <1>1, <2>2, <3>1, GotoSets, KnowsAt DEF IInv, Running
  <2>5. "init_write" \in Steps /\ "init_write" \notin CreateSteps
        /\ "init_write" \notin PersistSteps
    BY StepNames DEF CreateSteps, PersistSteps
  <2>6. DownWhenStopped' /\ reg'[r].epoch <= epoch' /\ loop' = r
        /\ (iface'.up => iface'.key \in minted') /\ (disk' \in Conf => disk'.key \in minted')
    BY <1>0, <1>1, <2>1, <2>2, <2>3, StepFacts DEF DownWhenStopped
  <2> QED
    BY <1>0, <1>1, <2>2, <2>4, <2>5, <2>6, GotoConsistent
<1>3. CASE ~Running
  BY <1>0, <1>1, <1>3, StepFacts, AnswerConsistent
  DEF InitKey, GenerateKeypair, Raise, DownWhenStopped
<1> QED
  BY <1>2, <1>3

\* Once server/init has written, the file is no configuration any more.
LEMMA InitWriteConsistent ==
    ASSUME IInv, TypeInv', NEW r \in Requests, InitWrite(r) PROVE HandlersConsistent'
<1>0. pc[r] = "init_write" /\ pc[r] \in Steps /\ pc[r] \in InitSteps /\ pc[r] \in BringUpSteps
  BY StepNames DEF InitWrite, InitSteps, BringUpSteps
<1>1. call[r].op = "init" /\ UNCHANGED <<container, iface, epoch, minted, call>>
  BY <1>0 DEF IInv, HandlersConsistent, StepsOfCall, InitWrite
<1>2. CASE WriteWorks
  <2>1. Goto(r, "init_strip") /\ UNCHANGED <<loop, reg>>
    BY <1>2 DEF InitWrite
  <2>2. disk' \notin Conf
    BY <1>2, DiskAssumption DEF InitWrite, WriteServerConfig
  <2>3. ASSUME Undisturbed(r)' PROVE HandlerKnows(r)'
    <3>1. Running /\ ~iface.up
      BY <1>0, <1>1, <2>1, <2>3, StepFacts DEF Undisturbed, HandlerKnows
    <3> QED
      BY <1>1, <2>1, <2>2, <3>1, GotoSets, KnowsAt DEF IInv, Running
  <2>4. "init_strip" \in Steps /\ "init_strip" \notin CreateSteps
        /\ "init_strip" \notin PersistSteps
    BY StepNames DEF CreateSteps, PersistSteps
  <2> QED
    BY <1>0, <1>1, <2>1, <2>2, <2>3, <2>4, StepFacts, GotoConsistent DEF DownWhenStopped
<1>3. CASE ~WriteWorks
  BY <1>0, <1>1, <1>3, StepFacts, AnswerConsistent DEF InitWrite, Raise, DownWhenStopped
<1> QED
  BY <1>2, <1>3

\* The text that strip prints is the file's.
LEMMA InitStripConsistent ==
    ASSUME IInv, TypeInv', NEW r \in Requests, InitStrip(r) PROVE HandlersConsistent'
<1>0. /\ pc[r] = "init_strip" /\ pc[r] \in Steps /\ pc[r] \in InitSteps
      /\ pc[r] \in BringUpSteps
  BY StepNames DEF InitStrip, InitSteps, BringUpSteps
<1>1. call[r].op = "init" /\ UNCHANGED <<node, call, loop>>
  BY <1>0 DEF IInv, HandlersConsistent, StepsOfCall, InitStrip
<1>2. \/ Goto(r, "init_sync") /\ reg' = [reg EXCEPT ![r].text = disk]
      \/ Goto(r, "init_up") /\ reg' = reg
  BY DEF InitStrip
<1>3. reg'[r].epoch = reg[r].epoch
  BY <1>0, <1>2, StepFacts DEF Registers
<1>4. ASSUME Undisturbed(r)' PROVE HandlerKnows(r)'
  <2>1. Running /\ ~iface.up /\ disk \notin Conf
    BY <1>0, <1>1, <1>3, <1>4, StepFacts DEF Undisturbed, HandlerKnows, node
  <2>2. pc'[r] \in {"init_sync", "init_up"}
    BY <1>2, GotoSets DEF IInv
  <2> QED
    BY <1>1, <2>1, <2>2, KnowsAt DEF node, Running
<1>5. \A step \in {"init_sync", "init_up"} :
        step \in Steps /\ step \notin CreateSteps /\ step \notin PersistSteps
  BY StepNames DEF CreateSteps, PersistSteps
<1>6. CASE Goto(r, "init_sync") /\ reg' = [reg EXCEPT ![r].text = disk]
  <2>1. reg'[r].text = disk
    BY <1>0, <1>6, StepFacts DEF Registers
  <2> QED
    BY <1>0, <1>1, <1>3, <1>4, <1>5, <1>6, <2>1, StepFacts, GotoConsistent
    DEF node, DownWhenStopped
<1>7. CASE Goto(r, "init_up") /\ reg' = reg
  BY <1>0, <1>1, <1>3, <1>4, <1>5, <1>7, StepFacts, GotoConsistent DEF node, DownWhenStopped
<1> QED
  BY <1>2, <1>6, <1>7

\* syncconf fails when the handler is undisturbed, and the handler goes on.
LEMMA InitSyncConsistent ==
    ASSUME IInv, TypeInv', NEW r \in Requests, InitSync(r) PROVE HandlersConsistent'
<1>0. /\ pc[r] = "init_sync" /\ pc[r] \in Steps /\ pc[r] \in InitSteps
      /\ pc[r] \in BringUpSteps
  BY StepNames DEF InitSync, InitSteps, BringUpSteps
<1>1. call[r].op = "init" /\ UNCHANGED <<container, disk, epoch, minted, call>>
  BY <1>0 DEF IInv, HandlersConsistent, StepsOfCall, InitSync
<1>2. CASE DumpWorks /\ Parses(reg[r].text)
  <2>1. iface' = UpWith(reg[r].text) /\ reg[r].text \in Conf
    BY <1>2 DEF InitSync, Parses
  <2>2. iface'.key \in minted
    BY <1>0, <2>1 DEF UpWith, IInv, HandlersConsistent, KeysMinted
  <2>3. DownWhenStopped'
    BY <1>1, <1>2 DEF DumpWorks, Running, DownWhenStopped
  <2> QED
    BY <1>0, <1>1, <1>2, <2>2, <2>3, StepFacts, AnswerConsistent DEF InitSync
<1>3. CASE ~(DumpWorks /\ Parses(reg[r].text))
  <2>1. Goto(r, "init_up") /\ UNCHANGED <<iface, loop, reg>>
    BY <1>3 DEF InitSync
  <2>2. ASSUME Undisturbed(r)' PROVE HandlerKnows(r)'
    <3>1. Running /\ ~iface.up /\ disk \notin Conf
      BY <1>0, <1>1, <2>1, <2>2, StepFacts DEF Undisturbed, HandlerKnows
    <3> QED
      BY <1>1, <2>1, <3>1, GotoSets, KnowsAt DEF IInv, Running
  <2>3. "init_up" \in Steps /\ "init_up" \notin CreateSteps /\ "init_up" \notin PersistSteps
    BY StepNames DEF CreateSteps, PersistSteps
  <2> QED
    BY <1>0, <1>1, <2>1, <2>2, <2>3, StepFacts, GotoConsistent DEF DownWhenStopped
<1> QED
  BY <1>2, <1>3

\* awg-quick up ends the handler; an interface it brings up has a known key.
LEMMA InitUpConsistent ==
    ASSUME IInv, TypeInv', NEW r \in Requests, InitUp(r) PROVE HandlersConsistent'
<1>0. pc[r] = "init_up" /\ pc[r] \in Steps
  BY StepNames DEF InitUp
<1>1. UNCHANGED <<container, disk, epoch, minted, call>>
  BY DEF InitUp
<1>2. CASE UpWorks
  <2>1. iface' = UpWith(disk) /\ disk \in Conf /\ Running
    BY <1>2 DEF InitUp, UpWorks, Parses
  <2>2. iface'.key \in minted /\ DownWhenStopped'
    BY <1>0, <1>1, <2>1, StepFacts DEF UpWith, Running, DownWhenStopped
  <2> QED
    BY <1>0, <1>1, <1>2, <2>2, StepFacts, AnswerConsistent DEF InitUp
<1>3. CASE ~UpWorks
  BY <1>0, <1>1, <1>3, StepFacts, AnswerConsistent DEF InitUp, Raise, DownWhenStopped
<1> QED
  BY <1>2, <1>3

\* After a crash no handler is left.
LEMMA CrashConsistent == ASSUME IInv, TypeInv', AgentCrash PROVE HandlersConsistent'
<1> DEFINE pending == {r \in Requests : pc[r] \notin Finished \cup {"unsent"}}
<1>1. /\ pc' = [r \in Requests |-> IF r \in pending THEN "lost" ELSE pc[r]]
      /\ loop' = Idle /\ UNCHANGED node
  BY DEF AgentCrash
<1>2. \A q \in Requests : pc'[q] \notin Steps
  BY <1>1, StepNames DEF Finished
<1> QED
  BY <1>1, <1>2, QuietConsistent
  DEF IInv, HandlersConsistent, KeysMinted, DownWhenStopped, node

\* A new epoch makes every running handler a disturbed one.
LEMMA NewEpochConsistent ==
    ASSUME IInv, TypeInv', epoch' = epoch + 1, UNCHANGED agent, minted \subseteq minted',
           iface'.up => iface'.key \in minted',
           disk' \in Conf => disk'.key \in minted',
           DownWhenStopped'
    PROVE  HandlersConsistent'
<1>1. OneHandler' /\ StepsOfCall' /\ KeysMinted'
  BY DEF IInv, HandlersConsistent, OneHandler, StepsOfCall, KeysMinted, agent
<1>2. ASSUME NEW r \in Requests, pc'[r] \in Steps
      PROVE  reg'[r].epoch <= epoch' /\ ~Undisturbed(r)'
  <2>1. pc[r] \in Steps /\ reg' = reg
    BY <1>2 DEF agent
  <2>2. reg[r].epoch <= epoch /\ reg[r].epoch \in Nat /\ epoch \in Nat
    BY <2>1, StepFacts DEF Registers, TypeInv, TypeOK
  <2> QED
    BY <2>1, <2>2 DEF Undisturbed
<1> QED
  BY <1>1, <1>2 DEF HandlersConsistent, EpochsPast

\* A container that starts has no interface: no handler loses what it knew.
LEMMA ContainerStartConsistent ==
    ASSUME IInv, TypeInv', ContainerStart PROVE HandlersConsistent'
<1>1. /\ ~Running /\ ~iface.up /\ UNCHANGED <<iface, epoch, minted, handed, agent>>
      /\ disk' \in {disk, ImageDisk}
  BY DEF ContainerStart, IInv, HandlersConsistent, DownWhenStopped, Running, TypeInv, TypeOK
<1>2. OneHandler' /\ StepsOfCall' /\ EpochsPast' /\ DownWhenStopped'
  BY <1>1 DEF IInv, HandlersConsistent, OneHandler, StepsOfCall, EpochsPast,
              DownWhenStopped, agent
<1>3. KeysMinted'
  BY <1>1, DiskAssumption DEF IInv, HandlersConsistent, KeysMinted, agent
<1>4. ASSUME NEW r \in Requests, pc'[r] \in Steps, Undisturbed(r)'
      PROVE  HandlerKnows(r)'
  <2>1. HandlerKnows(r) /\ pc' = pc /\ reg' = reg /\ call' = call
    BY <1>1, <1>4 DEF IInv, HandlersConsistent, Undisturbed, agent
  <2>2. pc[r] \notin AppliedSteps /\ pc[r] \notin BringUpSteps
    BY <1>1, <2>1 DEF HandlerKnows
  <2> QED
    BY <1>1, <2>1, <2>2
    DEF HandlerKnows, AppliedSteps, PersistSteps, BringUpSteps, InitSteps
<1> QED
  BY <1>2, <1>3, <1>4 DEF HandlersConsistent

\* Stops and operators begin a new epoch, which the handlers under way do not belong to.
LEMMA EnvironmentConsistent ==
    ASSUME IInv, TypeInv', ContainerStop \/ ContainerStart \/ Provision \/ ManualUp
    PROVE  HandlersConsistent'
<1>0. /\ iface.up => iface.key \in minted
      /\ disk \in Conf => disk.key \in minted
  BY DEF IInv, HandlersConsistent, KeysMinted
<1>1. CASE ContainerStop
  BY <1>0, <1>1, NewEpochConsistent DEF ContainerStop, Down, DownWhenStopped
<1>2. CASE Provision
  <2>1. PICK k \in Keys \ minted :
           /\ minted' = minted \cup {k}
           /\ disk' = RenderServerConfig(k, "node", Empty)
           /\ iface' = UpWith(disk')
    BY <1>2 DEF Provision
  <2>2. disk'.key = k /\ iface'.key = k
    BY <2>1 DEF RenderServerConfig, UpWith
  <2> QED
    BY <1>2, <2>1, <2>2, NewEpochConsistent DEF Provision, DownWhenStopped, Running
<1>3. CASE ManualUp
  <2>1. iface' = UpWith(disk) /\ disk \in Conf /\ Running
    BY <1>3 DEF ManualUp, UpWorks, Parses
  <2> QED
    BY <1>0, <1>3, <2>1, NewEpochConsistent
    DEF ManualUp, UpWith, DownWhenStopped, Running
<1> QED
  BY <1>1, <1>2, <1>3, ContainerStartConsistent

\* The inductive invariant holds initially.
LEMMA IInvInit == Init => IInv
BY TypeInit, ConsistentInit DEF IInv

\* Every step keeps the inductive invariant.
LEMMA IInvStep == IInv /\ [Next]_vars => IInv'
<1> SUFFICES ASSUME IInv, [Next]_vars PROVE IInv'
  OBVIOUS
<1>0. TypeInv'
  BY TypeStep DEF IInv
<1>1. ASSUME NEW r \in Requests, Send(r) \/ Refuse(r) \/ Dispatch(r)
      PROVE  HandlersConsistent'
  BY <1>0, <1>1, SendConsistent, RefuseConsistent, DispatchConsistent
<1>2. ASSUME NEW r \in Requests, HandlerStep(r) PROVE HandlersConsistent'
  BY <1>0, <1>2, CreateKeyConsistent, AddPeerConsistent, CreateStatusConsistent,
     RemovePeerStepConsistent, UpdatePeerConsistent, PersistKeyConsistent,
     PersistDumpConsistent, PersistWriteConsistent, InitStatusConsistent,
     InitKeyConsistent, InitWriteConsistent, InitStripConsistent, InitSyncConsistent,
     InitUpConsistent, StatusConsistent
  DEF HandlerStep
<1>3. ASSUME AgentCrash \/ ContainerStop \/ ContainerStart \/ Provision \/ ManualUp
      PROVE  HandlersConsistent'
  BY <1>0, <1>3, CrashConsistent, EnvironmentConsistent
<1>4. ASSUME UNCHANGED vars PROVE HandlersConsistent'
  BY <1>4 DEF vars, node, agent, IInv, HandlersConsistent, OneHandler, StepsOfCall,
     EpochsPast, KeysMinted, DownWhenStopped, Undisturbed, HandlerKnows, Done, Running
<1> QED
  BY <1>0, <1>1, <1>2, <1>3, <1>4 DEF IInv, Next, Serve

\* The inductive invariant holds always.
LEMMA Invariant == Spec => []IInv
BY IInvInit, IInvStep, PTL DEF Spec

\* One handler owns the event loop, from its first exec to its answer, and what it has
\* read of the node is still so while nobody else has touched the node.
THEOREM HandlersStayConsistent == Spec => []HandlersConsistent
<1>1. IInv => HandlersConsistent
  BY DEF IInv
<1> QED
  BY <1>1, Invariant, PTL

\* What a handler is about to save renders the live interface.
THEOREM SavedTextIsLive == Spec => []RendersLive
<1>1. IInv => RendersLive
  BY StepNames DEF IInv, HandlersConsistent, HandlerKnows, RendersLive
<1> QED
  BY <1>1, Invariant, PTL

\* server/init leaves an interface that is up alone.
THEOREM InitSparesLiveNode == Spec => []InitOnlyWhenDown
<1>1. IInv => InitOnlyWhenDown
  BY DEF IInv, HandlersConsistent, HandlerKnows, BringUpSteps, Steps, InitOnlyWhenDown
<1> QED
  BY <1>1, Invariant, PTL

----------------------------------------------------------------------------
(* What an answer means.                                                   *)

\* A success in an undisturbed step comes from the handler of that request.
LEMMA SuccessFromHandler ==
    ASSUME IInv, [Next]_vars, NEW r \in Requests, Succeeds(r)
    PROVE  HandlerStep(r) /\ Undisturbed(r)
<1>0. pc[r] \in Steps /\ pc'[r] = "done" /\ loop = r /\ reply'[r].code \in Success
  BY Alone DEF Succeeds
<1>1. pc[r] # "done" /\ pc'[r] # pc[r]
  BY <1>0, StepNames
<1>2. HandlerStep(r)
  <2>1. ASSUME NEW q \in Requests, Send(q) PROVE FALSE
    <3>1. q # r
      BY <1>0, <2>1, StepNames DEF Send
    <3> QED
      BY <1>1, <2>1, <3>1 DEF Send, Goto, IInv, TypeInv, TypeOK
  <2>2. ASSUME NEW q \in Requests, Refuse(q) \/ Dispatch(q) PROVE FALSE
    BY <1>0, <2>2, ValuesAssumption DEF Refuse, Dispatch
  <2>3. ASSUME NEW q \in Requests, HandlerStep(q) PROVE q = r
    <3>1. pc[q] \in Steps
      BY <2>3, StepNames
      DEF HandlerStep, CreateKey, AddPeer, CreateStatus, RemovePeerStep, UpdatePeer,
          PersistKey, PersistDump, PersistWrite, InitStatus, InitKey, InitWrite, InitStrip,
          InitSync, InitUp, StatusLookup, StatusExec, GenerateKeypair
    <3> QED
      BY <1>0, <3>1, Alone
  <2>4. ~AgentCrash
    BY <1>0, StepNames DEF AgentCrash, Finished
  <2>5. ~(ContainerStop \/ ContainerStart \/ Provision \/ ManualUp \/ UNCHANGED vars)
    BY <1>1 DEF ContainerStop, ContainerStart, Provision, ManualUp, vars, agent
  <2> QED
    BY <2>1, <2>2, <2>3, <2>4, <2>5 DEF Next, Serve
<1>3. epoch' = epoch
  BY <1>2 DEF HandlerStep, CreateKey, AddPeer, CreateStatus, RemovePeerStep, UpdatePeer,
      PersistKey, PersistDump, PersistWrite, InitStatus, InitKey, InitWrite, InitStrip,
      InitSync, InitUp, StatusLookup, StatusExec, GenerateKeypair, node
<1> QED
  BY <1>2, <1>3 DEF Succeeds, Undisturbed

\* The only places where a handler answers with success.
LEMMA SuccessEnds ==
    ASSUME IInv, NEW r \in Requests, HandlerStep(r), Succeeds(r)
    PROVE  \/ CreateStatus(r) /\ Answer(r, 201, reg[r].made)
           \/ PersistWrite(r) /\ WriteWorks /\ call[r].op # "create"
           \/ InitStatus(r) /\ StatusKey # NoKey /\ Answer(r, 200, StatusKey)
           \/ InitSync(r) /\ DumpWorks
           \/ InitUp(r) /\ UpWorks
           \/ StatusExec(r)
<1> DEFINE Good == pc'[r] = "done" /\ reply'[r].code \in Success
<1>0. Good
  BY DEF Succeeds
<1>1. ASSUME Raise(r) \/ Answer(r, 404, NoKey) \/ Answer(r, 503, NoKey) PROVE FALSE
  BY <1>0, <1>1 DEF Raise, Answer, Success, IInv, TypeInv, TypeOK
<1>2. ASSUME NEW step \in Steps, Goto(r, step) PROVE FALSE
  BY <1>0, <1>2, GotoSets, StepNames DEF IInv
<1>3. CASE CreateKey(r) \/ InitKey(r)
  BY <1>1, <1>2, <1>3, StepNames DEF CreateKey, InitKey, GenerateKeypair
<1>4. CASE AddPeer(r) \/ RemovePeerStep(r) \/ UpdatePeer(r)
  BY <1>1, <1>2, <1>4, StepNames DEF AddPeer, RemovePeerStep, UpdatePeer
<1>5. CASE PersistKey(r) \/ PersistDump(r) \/ PersistWrite(r)
  BY <1>1, <1>2, <1>5, StepNames DEF PersistKey, PersistDump, PersistWrite
<1>6. CASE InitStatus(r) \/ InitWrite(r) \/ InitStrip(r) \/ InitSync(r) \/ InitUp(r)
  BY <1>1, <1>2, <1>6, StepNames DEF InitStatus, InitWrite, InitStrip, InitSync, InitUp
<1>7. CASE CreateStatus(r) \/ StatusLookup(r) \/ StatusExec(r)
  BY <1>1, <1>2, <1>7, StepNames DEF CreateStatus, StatusLookup, StatusExec
<1> QED
  BY <1>3, <1>4, <1>5, <1>6, <1>7 DEF HandlerStep

\* No peer change is acknowledged that the last text written does not have.
THEOREM AcknowledgedChangesAreSaved == Spec => AcknowledgedIsSaved
<1>1. IInv /\ [Next]_vars => SavedOnSuccess
  <2> SUFFICES ASSUME IInv, [Next]_vars, NEW r \in Requests,
                      Succeeds(r), call[r].op \in Mutations
               PROVE  handed' \in Conf /\ handed'.key = iface'.key
                      /\ handed'.peers = iface'.peers
    BY DEF SavedOnSuccess
  <2>1. HandlerStep(r) /\ Undisturbed(r) /\ pc[r] \in Steps
    BY SuccessFromHandler DEF Succeeds
  <2>2. HandlerKnows(r)
    BY <2>1, StepFacts
  <2>3. pc[r] \notin InitSteps /\ pc[r] # "status_exec"
    BY DEF IInv, HandlersConsistent, StepsOfCall, Mutations
  <2>4. CASE CreateStatus(r)
    BY <2>2, <2>4 DEF CreateStatus, HandlerKnows, node
  <2>5. CASE PersistWrite(r) /\ WriteWorks
    <3>1. handed' = RenderServerConfig(reg[r].key, "none", reg[r].peers) /\ iface' = iface
          /\ pc[r] = "persist_write"
      BY <2>5 DEF PersistWrite, WriteServerConfig
    <3>2. reg[r].key = iface.key /\ reg[r].peers = iface.peers
      BY <2>2, <3>1 DEF HandlerKnows
    <3>3. reg[r].key \in Keys /\ reg[r].peers \in Table
      BY <2>1, <3>1, StepFacts DEF TypeInv, LocalsSet, Registers
    <3> QED
      BY <3>1, <3>2, <3>3, RenderType DEF RenderServerConfig, Params
  <2>6. ~(InitStatus(r) \/ InitSync(r) \/ InitUp(r) \/ StatusExec(r))
    BY <2>3 DEF InitStatus, InitSync, InitUp, StatusExec, InitSteps
  <2> QED
    BY <2>1, <2>4, <2>5, <2>6, SuccessEnds
<1> QED
  BY <1>1, Invariant, PTL DEF Spec, AcknowledgedIsSaved

\* A success that is answered is true of the live interface.
THEOREM AcknowledgedChangesAreLive == Spec => AcknowledgedIsLive
<1>1. IInv /\ [Next]_vars => LiveOnSuccess
  <2> SUFFICES ASSUME IInv, [Next]_vars, NEW r \in Requests, Succeeds(r)
               PROVE  /\ call[r].op = "create" => iface'.peers[reply'[r].key] = call[r].ips
                      /\ call[r].op = "delete" => iface'.peers[call[r].key] = Absent
                      /\ call[r].op = "patch" => \/ iface'.peers[call[r].key] = call[r].ips
                                                 \/ iface'.key = call[r].key
                      /\ call[r].op = "init" => iface'.up /\ reply'[r].key = iface'.key
    BY DEF LiveOnSuccess
  <2>1. HandlerStep(r) /\ Undisturbed(r) /\ pc[r] \in Steps
    BY SuccessFromHandler DEF Succeeds
  <2>2. HandlerKnows(r) /\ reply \in [Requests -> Answers] /\ iface \in Interface
        /\ (iface.up => iface.key \in Keys)
    BY <2>1, StepFacts DEF TypeInv, TypeOK, LocalsSet
  <2>3. CASE CreateStatus(r) /\ Answer(r, 201, reg[r].made)
    <3>1. call[r].op = "create" /\ Done(r)
      BY <2>2, <2>3
      DEF CreateStatus, HandlerKnows, AppliedSteps, IInv, HandlersConsistent, StepsOfCall,
          CreateSteps
    <3>2. reply'[r].key = reg[r].made /\ iface' = iface
      BY <2>2, <2>3 DEF Answer, CreateStatus, node
    <3> QED
      BY <3>1, <3>2 DEF Done
  <2>4. CASE PersistWrite(r) /\ WriteWorks /\ call[r].op # "create"
    <3>1. call[r].op \in Mutations /\ Done(r) /\ iface' = iface
      BY <2>2, <2>4
      DEF PersistWrite, HandlerKnows, AppliedSteps, IInv, HandlersConsistent, StepsOfCall,
          PersistSteps
    <3> QED
      BY <2>4, <3>1 DEF Done, Mutations
  <2>5. CASE InitStatus(r) /\ StatusKey # NoKey /\ Answer(r, 200, StatusKey)
    <3>1. call[r].op = "init" /\ iface' = iface
      BY <2>5 DEF InitStatus, node, IInv, HandlersConsistent, StepsOfCall, InitSteps
    <3>2. reply'[r].key = iface.key /\ iface.up
      BY <2>2, <2>5 DEF Answer, StatusKey
    <3> QED
      BY <3>1, <3>2
  <2>6. ~(InitSync(r) /\ DumpWorks) /\ ~(InitUp(r) /\ UpWorks)
    BY <2>2 DEF InitSync, InitUp, DumpWorks, UpWorks, Parses, HandlerKnows, BringUpSteps,
                InitSteps
  <2>7. CASE StatusExec(r)
    BY <2>7 DEF StatusExec, IInv, HandlersConsistent, StepsOfCall
  <2> QED
    BY <2>1, <2>3, <2>4, <2>5, <2>6, <2>7, SuccessEnds
<1> QED
  BY <1>1, Invariant, PTL DEF Spec, AcknowledgedIsLive
============================================================================
