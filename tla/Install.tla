------------------------------- MODULE Install -------------------------------
(***************************************************************************)
(* panel/install.sh and node-agent/install.sh on their machines: scripts   *)
(* that leave at the first command that fails (set -e), may be interrupted *)
(* between any two commands, and are run again.  What outlives a run is    *)
(* the machine: Docker, the account, the files, .env, and what remembers   *)
(* the secret in .env - the database volume postgres initialised with it,  *)
(* or the panel the operator registered the node at.                       *)
(***************************************************************************)
EXTENDS Naturals

CONSTANTS
    Scripts,      \* "panel", "node"
    Secrets,      \* what openssl rand may print: never twice the same
    NoFile, Torn, \* .env is not there; it is there and empty
    Nobody,       \* nobody remembers a secret
    MaxFaults     \* bounds commands that fail and interruptions

ASSUME InstallAssumption ==
    /\ Scripts \subseteq {"panel", "node"}
    /\ NoFile \notin Secrets /\ Torn \notin Secrets /\ Nobody \notin Secrets
    /\ NoFile # Torn /\ MaxFaults \in Nat

VARIABLES
    at,         \* the command each script is at, or "shell"
    generated,  \* its variable GENERATED_PG_PASSWORD or GENERATED_TOKEN
    docker, account, files,  \* what is installed: of Docker, the service account, items
    env,        \* $INSTALL_DIR/.env
    knows,      \* the secret the volume was initialised with, or the panel has
    serving,    \* the containers answer
    ended,      \* how the last run ended
    faults

machine == <<docker, account, files>>
vars == <<at, generated, machine, env, knows, serving, ended, faults>>

Steps == {"docker", "get", "getting", "enable", "compose", "account", "copy", "copying",
          "env", "write", "build", "up", "wait", "last"}

\* The command, the compose plugin, the running daemon.
Docker == {"command", "plugin", "daemon"}

TypeOK ==
    /\ at \in [Scripts -> Steps \cup {"shell"}]
    /\ generated \in [Scripts -> Secrets \cup {Nobody}]
    /\ docker \in [Scripts -> SUBSET Docker] /\ account \in [Scripts -> BOOLEAN]
    /\ files \in [Scripts -> {"none", "some", "all"}]
    /\ env \in [Scripts -> Secrets \cup {NoFile, Torn}]
    /\ knows \in [Scripts -> Secrets \cup {Nobody}]
    /\ serving \in [Scripts -> BOOLEAN]
    /\ ended \in [Scripts -> {"never", "failed", "complete"}]
    /\ faults \in 0..MaxFaults
    /\ \A s \in Scripts :
         /\ at[s] \in {"env", "write", "build", "up", "wait", "last"} => files[s] = "all"
         /\ at[s] \in {"write", "build", "up", "wait", "last"} => env[s] # NoFile

Init ==
    /\ at = [s \in Scripts |-> "shell"] /\ generated = [s \in Scripts |-> Nobody]
    /\ docker \in [Scripts -> {{}} \cup {d \in SUBSET Docker : "command" \in d}]
    /\ account = [s \in Scripts |-> FALSE]
    /\ files = [s \in Scripts |-> "none"] /\ env = [s \in Scripts |-> NoFile]
    /\ knows = [s \in Scripts |-> Nobody] /\ serving = [s \in Scripts |-> FALSE]
    /\ ended = [s \in Scripts |-> "never"] /\ faults = 0
----------------------------------------------------------------------------
Goto(s, step) == at' = [at EXCEPT ![s] = step] /\ UNCHANGED <<generated, ended, faults>>

\* The shell and its variables are gone, what it did stays.
Exit(s, result) ==
    /\ at' = [at EXCEPT ![s] = "shell"] /\ generated' = [generated EXCEPT ![s] = Nobody]
    /\ ended' = [ended EXCEPT ![s] = result]

\* The operator runs the script, as root.
Start(s) ==
    /\ at[s] = "shell"
    /\ Goto(s, "docker") /\ UNCHANGED <<machine, env, knows, serving>>

\* The command alone decides whether Docker is installed.
FindDocker(s) ==
    /\ at[s] = "docker"
    /\ Goto(s, IF "command" \in docker[s] THEN "compose" ELSE "get")
    /\ UNCHANGED <<machine, env, knows, serving>>

\* get.docker.com installs package after package; some systems start the daemon with them.
GetDocker(s) ==
    /\ \/ at[s] = "get" /\ docker' = [docker EXCEPT ![s] = {"command"}] /\ Goto(s, "getting")
       \/ /\ at[s] = "getting"
          /\ \E d \in {{"command", "plugin"}, Docker} : docker' = [docker EXCEPT ![s] = d]
          /\ Goto(s, "enable")
    /\ UNCHANGED <<account, files, env, knows, serving>>

\* systemctl enable --now, in the branch that has installed Docker.
EnableDocker(s) ==
    /\ at[s] = "enable"
    /\ docker' = [docker EXCEPT ![s] = @ \cup {"daemon"}]
    /\ Goto(s, "compose") /\ UNCHANGED <<account, files, env, knows, serving>>

CheckCompose(s) ==
    /\ at[s] = "compose" /\ "plugin" \in docker[s]
    /\ Goto(s, "account") /\ UNCHANGED <<machine, env, knows, serving>>

\* Mutant: useradd without the look at whether the account is there.
CreateAccountAgain(s) ==
    /\ at[s] = "account"
    /\ \/ account[s] /\ Exit(s, "failed") /\ UNCHANGED <<account, faults>>
       \/ /\ ~ account[s] /\ account' = [account EXCEPT ![s] = TRUE]
          /\ Goto(s, "copy")
    /\ UNCHANGED <<docker, files, env, knows, serving>>

\* useradd and usermod, unless an earlier run has done it.
CreateAccount(s) ==
    /\ at[s] = "account"
    /\ account' = [account EXCEPT ![s] = TRUE]
    /\ Goto(s, "copy") /\ UNCHANGED <<docker, files, env, knows, serving>>

\* Mutant: an existing directory is taken for an installation.
CopyFilesOnce(s) ==
    /\ \/ /\ at[s] = "copy" /\ files[s] = "none"
          /\ files' = [files EXCEPT ![s] = "some"] /\ Goto(s, "copying")
       \/ at[s] = "copy" /\ files[s] # "none" /\ UNCHANGED files /\ Goto(s, "env")
       \/ /\ at[s] = "copying" /\ files' = [files EXCEPT ![s] = "all"] /\ Goto(s, "env")
    /\ UNCHANGED <<docker, account, env, knows, serving>>

\* rm -rf and cp -a, item by item; .env is none of them.
CopyFiles(s) ==
    /\ \/ /\ at[s] = "copy" /\ files' = [files EXCEPT ![s] = "some"] /\ Goto(s, "copying")
       \/ /\ at[s] = "copying" /\ files' = [files EXCEPT ![s] = "all"] /\ Goto(s, "env")
    /\ UNCHANGED <<docker, account, env, knows, serving>>

\* Mutant: fresh secrets on every run.
OpenEnvAlways(s) ==
    /\ at[s] = "env"
    /\ \E k \in Secrets \ {knows[s]} : generated' = [generated EXCEPT ![s] = k]
    /\ env' = [env EXCEPT ![s] = Torn]
    /\ at' = [at EXCEPT ![s] = "write"]
    /\ UNCHANGED <<machine, knows, serving, ended, faults>>

\* An .env that is there is used as it is.  The shell creates the file before it runs the
\* date command of the text that goes into it, and cat.
OpenEnv(s) ==
    /\ at[s] = "env"
    /\ \/ /\ env[s] # NoFile
          /\ at' = [at EXCEPT ![s] = "build"] /\ UNCHANGED <<env, generated>>
       \/ /\ env[s] = NoFile
          /\ \E k \in Secrets \ {knows[s]} : generated' = [generated EXCEPT ![s] = k]
          /\ env' = [env EXCEPT ![s] = Torn]
          /\ at' = [at EXCEPT ![s] = "write"]
    /\ UNCHANGED <<machine, knows, serving, ended, faults>>

WriteEnv(s) ==
    /\ at[s] = "write"
    /\ env' = [env EXCEPT ![s] = generated[s]]
    /\ Goto(s, "build") /\ UNCHANGED <<machine, knows, serving>>

\* The daemon builds; and the compose file of the node needs AWG_LISTEN_PORT for its
\* ports already here.
Builds(s) == "daemon" \in docker[s] /\ (s = "node" => env[s] # Torn)

BuildImages(s) ==
    /\ at[s] = "build" /\ Builds(s)
    /\ Goto(s, "up") /\ UNCHANGED <<machine, env, knows, serving>>

\* The panel starts with a JWT_SECRET of 32 characters, upgrades its schema and serves:
\* that takes the password the volume was initialised with.
PanelStarts(secret, known) == secret # Torn /\ known = secret

\* The agent refuses to start without an AGENT_TOKEN of 32 characters.
AgentStarts(secret) == secret # Torn

\* postgres initialises an empty volume with POSTGRES_PASSWORD, and does not start
\* without one.
ComposeUp(s) ==
    /\ at[s] = "up"
    /\ knows' = IF s = "panel" /\ knows[s] = Nobody /\ env[s] # Torn
                THEN [knows EXCEPT ![s] = env[s]] ELSE knows
    /\ serving' = [serving EXCEPT ![s] = IF s = "panel" THEN PanelStarts(env[s], knows'[s])
                                         ELSE AgentStarts(env[s])]
    /\ Goto(s, "wait") /\ UNCHANGED <<machine, env>>

\* Mutant: the installer goes on after thirty looks, whatever it saw.
AwaitHealthInVain(s) ==
    /\ at[s] = "wait"
    /\ Goto(s, "last") /\ UNCHANGED <<machine, env, knows, serving>>

\* Thirty looks at the health of the containers.
AwaitHealth(s) ==
    /\ at[s] = "wait" /\ serving[s]
    /\ Goto(s, "last") /\ UNCHANGED <<machine, env, knows, serving>>

\* create_admin.py if the operator wants to; the node's token is printed.
Complete(s) ==
    /\ at[s] = "last" /\ Exit(s, "complete")
    /\ UNCHANGED <<machine, env, knows, serving, faults>>

\* The operator types the token that was printed into the panel's form, once.
Register(s) ==
    /\ s = "node" /\ ended[s] = "complete" /\ knows[s] = Nobody /\ env[s] \in Secrets
    /\ knows' = [knows EXCEPT ![s] = env[s]]
    /\ UNCHANGED <<at, generated, machine, env, serving, ended, faults>>

\* A command that cannot work on this machine as it is: the scripts say so and leave.
GiveUp(s) ==
    /\ \/ at[s] = "compose" /\ "plugin" \notin docker[s]
       \/ at[s] = "build" /\ ~ Builds(s)
       \/ at[s] = "wait" /\ ~ serving[s]
    /\ Exit(s, "failed")
    /\ UNCHANGED <<machine, env, knows, serving, faults>>

\* The operator installs what is missing of Docker, or starts its daemon, by hand.
RepairDocker(s) ==
    /\ at[s] = "shell" /\ "command" \in docker[s]
    /\ docker' = [docker EXCEPT ![s] = Docker]
    /\ UNCHANGED <<at, generated, account, files, env, knows, serving, ended, faults>>

\* No network, a container that takes too long, a terminal that is closed: a command
\* fails, or the script is killed before it.
Interrupt(s) ==
    /\ at[s] # "shell" /\ faults < MaxFaults
    /\ faults' = faults + 1
    /\ Exit(s, "failed")
    /\ UNCHANGED <<machine, env, knows, serving>>
----------------------------------------------------------------------------
Command(s) ==
    \/ FindDocker(s) \/ GetDocker(s) \/ EnableDocker(s) \/ CheckCompose(s)
    \/ CreateAccount(s) \/ CopyFiles(s) \/ OpenEnv(s) \/ WriteEnv(s)
    \/ BuildImages(s) \/ ComposeUp(s) \/ AwaitHealth(s) \/ Complete(s) \/ GiveUp(s)

Next ==
    \E s \in Scripts :
        Command(s) \/ Start(s) \/ Register(s) \/ RepairDocker(s) \/ Interrupt(s)

Spec == Init /\ [][Next]_vars

\* The shell goes on, and an operator whose script has failed runs it again.
FairSpec ==
    /\ Spec
    /\ \A s \in Scripts : WF_vars(Command(s)) /\ WF_vars(ended[s] # "complete" /\ Start(s))
----------------------------------------------------------------------------
\* Lines 22-26 of panel/install.sh, 24-27 of node-agent/install.sh: no run, after
\* whatever interruptions, locks the panel out of its database or breaks the node's
\* entry in the panel: the secret that somebody remembers is the one in .env.
SecretsFit == \A s \in Scripts : knows[s] # Nobody => env[s] = knows[s]

\* "Installation complete" is true when it is printed, and stays true while the script is
\* run again over the installation, up to where that run fails: no step of a run takes
\* down what an earlier one completed.
CompleteServes == \A s \in Scripts : ended[s] = "complete" => serving[s]

\* Running the script again completes the installation, wherever earlier runs were cut
\* off, with two exceptions that no run gets out of: .env was created and not written
\* (OpenEnv), or there is a docker command without its plugin or its daemon (FindDocker),
\* be it that a run was cut off while it installed Docker or that the machine was so.
RerunCompletes ==
    \A s \in Scripts :
        \/ <>(ended[s] = "complete")
        \/ <>[](at[s] # "write" /\ env[s] = Torn)
        \/ <>[]("command" \in docker[s] /\ docker[s] # Docker)
=============================================================================
