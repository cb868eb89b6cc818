---------------------------- MODULE InstallProofs ----------------------------
(***************************************************************************)
(* Theorems about Install, for any number of failures and interruptions.   *)
(***************************************************************************)
EXTENDS Install, TLAPS

\* While .env is being written nobody can know its secret, and the shell has one for it.
WritingOK ==
    \A s \in Scripts :
        /\ at[s] = "write" => generated[s] \in Secrets /\ env[s] = Torn
        /\ env[s] = Torn => knows[s] = Nobody

\* What serves does so with the secret in .env, which the volume was initialised with, so
\* that starting it again lets it serve; and the last command is reached by serving.
ServingOK ==
    \A s \in Scripts :
        /\ serving[s] => env[s] \in Secrets /\ (s = "panel" => knows[s] = env[s])
        /\ at[s] = "last" => serving[s]

IInv == TypeOK /\ SecretsFit /\ WritingOK /\ ServingOK /\ CompleteServes

LEMMA InitIInv == Init => IInv
BY InstallAssumption
DEF Init, IInv, TypeOK, Steps, SecretsFit, WritingOK, ServingOK, CompleteServes

\* Commands that leave .env and those who know its secret alone.
LEMMA OtherSteps ==
    ASSUME IInv, NEW s \in Scripts,
           \/ Start(s) \/ FindDocker(s) \/ GetDocker(s) \/ EnableDocker(s)
           \/ CheckCompose(s) \/ CreateAccount(s) \/ CopyFiles(s)
           \/ BuildImages(s) \/ AwaitHealth(s)
    PROVE  IInv'
<1>1. UNCHANGED <<env, knows, serving, generated, ended, faults>>
  BY DEF Start, FindDocker, GetDocker, EnableDocker, CheckCompose, CreateAccount,
         CopyFiles, BuildImages, AwaitHealth, Goto
<1> DEFINE Moves(step) ==
             /\ at' = [at EXCEPT ![s] = step]
             /\ step \in {"env", "build", "up", "wait", "last"} => files'[s] = "all"
             /\ step \in {"build", "up", "wait", "last"} => env[s] # NoFile
             /\ step = "last" => serving[s]
<1>2. \E step \in Steps \ {"write"} : Moves(step)
  <2>1. CASE Start(s)
    <3>1. Moves("docker")
      BY <2>1 DEF Start, Goto
    <3>2. QED BY <3>1 DEF Steps
  <2>2. CASE FindDocker(s) \/ GetDocker(s) \/ EnableDocker(s) \/ CheckCompose(s)
    <3>1. \E step \in {"get", "getting", "enable", "compose", "account"} : Moves(step)
      BY <2>2 DEF FindDocker, GetDocker, EnableDocker, CheckCompose, Goto
    <3>2. QED BY <3>1 DEF Steps
  <2>3. CASE CreateAccount(s)
    <3>1. Moves("copy")
      BY <2>3 DEF CreateAccount, Goto
    <3>2. QED BY <3>1 DEF Steps
  <2>4. CASE CopyFiles(s)
    <3>1. Moves("copying") \/ Moves("env")
      BY <2>4 DEF CopyFiles, Goto, IInv, TypeOK
    <3>2. QED BY <3>1 DEF Steps
  <2>5. CASE BuildImages(s)
    <3>1. Moves("up")
      BY <2>5 DEF BuildImages, Goto, IInv, TypeOK, machine
    <3>2. QED BY <3>1 DEF Steps
  <2>6. CASE AwaitHealth(s)
    <3>1. Moves("last")
      BY <2>6 DEF AwaitHealth, Goto, IInv, TypeOK, machine
    <3>2. QED BY <3>1 DEF Steps
  <2>7. QED BY <2>1, <2>2, <2>3, <2>4, <2>5, <2>6
<1>3. /\ docker' \in [Scripts -> SUBSET Docker] /\ account' \in [Scripts -> BOOLEAN]
      /\ files' \in [Scripts -> {"none", "some", "all"}]
      /\ \A o \in Scripts \ {s} : files'[o] = files[o]
  <2>1. \/ /\ UNCHANGED <<account, files>>
           /\ \E d \in SUBSET Docker : docker' = [docker EXCEPT ![s] = d]
        \/ UNCHANGED <<docker, files>> /\ account' = [account EXCEPT ![s] = TRUE]
        \/ UNCHANGED <<docker, account>> /\ files' = [files EXCEPT ![s] = "some"]
        \/ UNCHANGED <<docker, account>> /\ files' = [files EXCEPT ![s] = "all"]
        \/ UNCHANGED machine
    <3>1. CASE GetDocker(s)
      BY <3>1 DEF GetDocker, Docker
    <3>2. CASE EnableDocker(s)
      <4>1. docker[s] \cup {"daemon"} \in SUBSET Docker
        BY DEF IInv, TypeOK, Docker
      <4>2. QED BY <3>2, <4>1 DEF EnableDocker
    <3>3. CASE ~ GetDocker(s) /\ ~ EnableDocker(s)
      BY <3>3
      DEF Start, FindDocker, CheckCompose, CreateAccount, CopyFiles, BuildImages,
          AwaitHealth
    <3>4. QED BY <3>1, <3>2, <3>3
  <2>2. QED BY <2>1 DEF IInv, TypeOK, machine
<1>4. TypeOK'
  BY <1>1, <1>2, <1>3 DEF IInv, TypeOK
<1>5. SecretsFit' /\ WritingOK'
  BY <1>1, <1>2 DEF IInv, TypeOK, SecretsFit, WritingOK
<1>6. ServingOK' /\ CompleteServes'
  BY <1>1, <1>2 DEF IInv, TypeOK, ServingOK, CompleteServes
<1>7. QED BY <1>4, <1>5, <1>6 DEF IInv

LEMMA OpenEnvStep ==
    ASSUME IInv, NEW s \in Scripts, OpenEnv(s)
    PROVE  IInv'
<1>1. CASE /\ env[s] # NoFile
           /\ at' = [at EXCEPT ![s] = "build"] /\ UNCHANGED <<env, generated>>
  BY <1>1
  DEF OpenEnv, IInv, TypeOK, SecretsFit, WritingOK, machine, Steps, ServingOK,
      CompleteServes
<1>2. CASE /\ env[s] = NoFile
           /\ \E k \in Secrets \ {knows[s]} : generated' = [generated EXCEPT ![s] = k]
           /\ env' = [env EXCEPT ![s] = Torn] /\ at' = [at EXCEPT ![s] = "write"]
  <2>1. knows[s] = Nobody
    BY <1>2, InstallAssumption DEF IInv, TypeOK, SecretsFit
  <2>2. UNCHANGED <<machine, knows, serving, ended, faults>> /\ files[s] = "all"
    BY DEF OpenEnv, IInv, TypeOK
  <2>3. TypeOK'
    BY <1>2, <2>2, InstallAssumption DEF IInv, TypeOK, machine, Steps
  <2>4. SecretsFit' /\ WritingOK'
    BY <1>2, <2>1, <2>2 DEF IInv, TypeOK, SecretsFit, WritingOK
  <2>5. ServingOK' /\ CompleteServes'
    BY <1>2, <2>2, InstallAssumption DEF IInv, TypeOK, ServingOK, CompleteServes
  <2>6. QED BY <2>3, <2>4, <2>5 DEF IInv
<1>3. QED BY <1>1, <1>2 DEF OpenEnv

LEMMA WriteEnvStep ==
    ASSUME IInv, NEW s \in Scripts, WriteEnv(s)
    PROVE  IInv'
<1>1. /\ env' = [env EXCEPT ![s] = generated[s]] /\ at' = [at EXCEPT ![s] = "build"]
      /\ UNCHANGED <<machine, knows, serving, generated, ended, faults>>
      /\ generated[s] \in Secrets /\ knows[s] = Nobody /\ files[s] = "all"
  BY DEF WriteEnv, Goto, IInv, TypeOK, WritingOK
<1>2. TypeOK'
  BY <1>1, InstallAssumption DEF IInv, TypeOK, machine, Steps
<1>3. SecretsFit' /\ WritingOK'
  BY <1>1, InstallAssumption DEF IInv, TypeOK, SecretsFit, WritingOK
<1>4. ~ serving[s]
  BY InstallAssumption DEF WriteEnv, IInv, WritingOK, ServingOK
<1>5. ServingOK' /\ CompleteServes'
  BY <1>1, <1>4 DEF IInv, TypeOK, ServingOK, CompleteServes
<1>6. QED BY <1>2, <1>3, <1>5 DEF IInv

LEMMA ComposeUpStep ==
    ASSUME IInv, NEW s \in Scripts, ComposeUp(s)
    PROVE  IInv'
<1>1. /\ at' = [at EXCEPT ![s] = "wait"] /\ at[s] = "up"
      /\ UNCHANGED <<machine, env, generated, ended, faults>>
  BY DEF ComposeUp, Goto
<1>2. \/ knows' = knows
      \/ /\ env[s] \in Secrets /\ knows' = [knows EXCEPT ![s] = env[s]]
  BY DEF ComposeUp, IInv, TypeOK
<1>3. \E b \in BOOLEAN : serving' = [serving EXCEPT ![s] = b]
  BY DEF ComposeUp, PanelStarts, AgentStarts
<1>4. TypeOK'
  BY <1>1, <1>2, <1>3 DEF IInv, TypeOK, machine, Steps
<1>5. SecretsFit' /\ WritingOK'
  BY <1>1, <1>2, InstallAssumption DEF IInv, TypeOK, SecretsFit, WritingOK
<1>6. /\ serving[s] => serving'[s]
      /\ serving'[s] => env[s] \in Secrets /\ (s = "panel" => knows'[s] = env[s])
  <2>1. env[s] \in Secrets \cup {Torn}
    BY <1>1 DEF IInv, TypeOK
  <2>2. serving'[s] = IF s = "panel" THEN PanelStarts(env[s], knows'[s])
                      ELSE AgentStarts(env[s])
    BY DEF ComposeUp, IInv, TypeOK
  <2>3. serving[s] => env[s] # Torn /\ (s = "panel" => knows'[s] = env[s])
    BY <1>2, InstallAssumption DEF IInv, TypeOK, ServingOK, SecretsFit, ComposeUp
  <2>4. QED BY <2>1, <2>2, <2>3 DEF PanelStarts, AgentStarts
<1>7. \A o \in Scripts \ {s} : serving'[o] = serving[o] /\ knows'[o] = knows[o]
  BY <1>2, <1>3 DEF IInv, TypeOK
<1>8. ServingOK'
  BY <1>1, <1>6, <1>7 DEF IInv, TypeOK, ServingOK
<1>9. CompleteServes'
  BY <1>1, <1>6, <1>7 DEF IInv, TypeOK, CompleteServes
<1>10. QED BY <1>4, <1>5, <1>8, <1>9 DEF IInv

LEMMA RegisterStep ==
    ASSUME IInv, NEW s \in Scripts, Register(s)
    PROVE  IInv'
BY InstallAssumption
DEF Register, IInv, TypeOK, SecretsFit, WritingOK, machine, ServingOK, CompleteServes

LEMMA RepairDockerStep ==
    ASSUME IInv, NEW s \in Scripts, RepairDocker(s)
    PROVE  IInv'
<1>1. /\ docker' = [docker EXCEPT ![s] = Docker]
      /\ UNCHANGED <<at, generated, account, files, env, knows, serving, ended, faults>>
  BY DEF RepairDocker
<1>2. TypeOK'
  BY <1>1 DEF IInv, TypeOK
<1>3. QED
  BY <1>1, <1>2 DEF IInv, SecretsFit, WritingOK, ServingOK, CompleteServes

LEMMA ExitSteps ==
    ASSUME IInv, NEW s \in Scripts, Complete(s) \/ GiveUp(s) \/ Interrupt(s)
    PROVE  IInv'
<1>1. /\ at' = [at EXCEPT ![s] = "shell"] /\ generated' = [generated EXCEPT ![s] = Nobody]
      /\ \E result \in {"failed", "complete"} : ended' = [ended EXCEPT ![s] = result]
      /\ UNCHANGED <<machine, env, knows, serving>>
  BY DEF Complete, GiveUp, Interrupt, Exit
<1>2. faults' \in 0..MaxFaults
  BY InstallAssumption DEF Complete, GiveUp, Interrupt, IInv, TypeOK
<1>3. TypeOK'
  BY <1>1, <1>2 DEF IInv, TypeOK, machine, Steps
<1>4. SecretsFit' /\ WritingOK'
  BY <1>1 DEF IInv, TypeOK, SecretsFit, WritingOK
<1>5. ServingOK'
  BY <1>1 DEF IInv, TypeOK, ServingOK
<1>6. CompleteServes'
  <2>1. ended'[s] = "complete" => serving[s]
    BY DEF Complete, GiveUp, Interrupt, Exit, IInv, TypeOK, ServingOK
  <2>2. QED BY <1>1, <2>1 DEF IInv, TypeOK, CompleteServes
<1>7. QED BY <1>3, <1>4, <1>5, <1>6 DEF IInv

LEMMA NextIInv == IInv /\ [Next]_vars => IInv'
<1> SUFFICES ASSUME IInv, [Next]_vars PROVE IInv'
  OBVIOUS
<1>1. CASE UNCHANGED vars
  BY <1>1
  DEF vars, machine, IInv, TypeOK, SecretsFit, WritingOK, ServingOK, CompleteServes
<1>2. CASE Next
  BY <1>2, OtherSteps, OpenEnvStep, WriteEnvStep, ComposeUpStep, RegisterStep, RepairDockerStep,
     ExitSteps
  DEF Next, Command
<1>3. QED BY <1>1, <1>2

LEMMA AlwaysIInv == Spec => []IInv
BY InitIInv, NextIInv, PTL DEF Spec

\* The machine and the script keep their types, whatever is interrupted: in particular
\* no image is built of files that are half copied.
THEOREM InstallTypeCorrect == Spec => []TypeOK
BY AlwaysIInv, PTL DEF IInv

\* Re-running the installers never locks anybody out: the secret that the database or
\* the panel knows is the one in .env, however often the scripts are cut off.
THEOREM RerunsKeepSecrets == Spec => []SecretsFit
BY AlwaysIInv, PTL DEF IInv

\* "Installation complete" is never a lie: whatever is cut off and run again, what was
\* completed serves until a run of the script has failed.
THEOREM CompletedServes == Spec => []CompleteServes
BY AlwaysIInv, PTL DEF IInv
=============================================================================
