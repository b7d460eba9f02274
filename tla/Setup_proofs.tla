---------------------------- MODULE Setup_proofs ----------------------------
(***************************************************************************)
(* Proofs about setup-jetson.sh, for any plans, any passwords and any      *)
(* number of failures and power cuts: no run locks the stack out of a      *)
(* database it made, a full run that came to its end serves, and the admin *)
(* keys are filed but for one a fault; and without a fault full runs leave *)
(* everything in place.                                                    *)
(*                                                                         *)
(* The invariant of the first two is SInv; the count of the keys (KInv)    *)
(* and the invariant of the runs without a fault (CInv) rest on it.        *)
(***************************************************************************)
EXTENDS Setup, SequenceTheorems, TLAPS

\* .env is opened only if it is absent, and until it is filled there is no
\* database under $DATA_DIR: without a password there was none, and no container
\* starts while it is written.
EnvWritten ==
  /\ pc = "open_env" => env = "absent"
  /\ pc = "write_env" => env = "torn"
  /\ pc = "chown_env" => env \in Passwords

\* The containers run over a database that their password opens, and it is that
\* of .env unless they were made without one.
StackOpens ==
  /\ given # "default" => given = env
  /\ stack # "off" => db[stack] = given
  /\ stack = "nvme" => mounted

\* daemon.json has the keys of no write, of one or of both, and a docker that runs
\* has read the last one.
DockerLoaded ==
  /\ conf \in {{}, {"nvidia"}, DaemonKeys}
  /\ pc \in {"open_conf", "dump_conf", "start"} => ~dockerUp
  /\ pc = "start" => conf = DaemonKeys
  /\ dockerUp /\ conf = DaemonKeys => loaded = DaemonKeys

\* What the commands and checks that lead to a command have established.
Checked ==
  /\ pc \in {"fstab_nvme", "stop", "open_conf", "dump_conf", "start"} => mounted
  /\ pc \in {"mint", "open_marker"} => marker[DATA_DIR] = "absent"
  /\ pc = "write_marker" => marker[DATA_DIR] # "absent"

\* The stack is up, as .env has it now.
Up == dockerUp /\ stack # "off" /\ given = PasswordOf(env)

\* What is left to do in a full run.
Ahead ==
  /\ pc \in NvmeStep => todo = <<"swap", "docker", "deploy", "service">>
  /\ pc \in SwapStep => todo = <<"docker", "deploy", "service">>
  /\ pc \in DockerStep => todo = <<"deploy", "service">>
  /\ pc \in DeployStep => todo = <<"service">>
  /\ pc \in ServiceStep => todo = <<>>

\* What a run has done so far: from the start of the containers to the end of the
\* step the stack is up, and a full run has mounted the disk and configured docker.
RunAt ==
  /\ pc # "idle" => completed = <<>>
  /\ pc \in {"health", "marker", "mint", "open_marker", "write_marker"} => Up
  /\ plan = FullRun =>
       /\ Ahead
       /\ pc \in SwapStep \cup DockerStep \cup DeployStep \cup ServiceStep => mounted
       /\ pc \in DeployStep \cup ServiceStep => conf = DaemonKeys
       /\ pc \in ServiceStep => Up
  /\ completed = FullRun => Up /\ service /\ conf = DaemonKeys

SInv ==
  /\ SetupTypeOK
  /\ EnvWritten
  /\ DbPasswordKept
  /\ StackOpens
  /\ DockerLoaded
  /\ Checked
  /\ RunAt

\* The head of a list of steps is a step, the tail a list of steps.
LEMMA HeadTail ==
  \A p \in Seq(Steps) : p # <<>> => Head(p) \in Steps /\ Tail(p) \in Seq(Steps)
  BY HeadTailProperties

\* The first step of a full run, and those that follow it.
LEMMA FullRunSteps ==
  /\ FullRun # <<>> /\ Head(FullRun) = "nvme"
  /\ Tail(FullRun) = <<"swap", "docker", "deploy", "service">>
  BY SetupAssumption

\* The rests of a full run.
LEMMA Rests ==
  /\ LET t == <<"swap", "docker", "deploy", "service">>
     IN  t # <<>> /\ Head(t) = "swap" /\ Tail(t) = <<"docker", "deploy", "service">>
  /\ LET t == <<"docker", "deploy", "service">>
     IN  t # <<>> /\ Head(t) = "docker" /\ Tail(t) = <<"deploy", "service">>
  /\ LET t == <<"deploy", "service">>
     IN  t # <<>> /\ Head(t) = "deploy" /\ Tail(t) = <<"service">>
  /\ LET t == <<"service">>
     IN  t # <<>> /\ Head(t) = "service" /\ Tail(t) = <<>>
  OBVIOUS

\* A step of a full run is followed by the next.
GoesOn ==
  /\ Ahead'
  /\ pc \in NvmeStep => pc' = "swap"
  /\ pc \in SwapStep => pc' = "docker"
  /\ pc \in DockerStep => pc' = "deploy"
  /\ pc \in DeployStep => pc' = "service"
  /\ pc \in ServiceStep => pc' = "idle"

\* Where the end of a step leads.
LEMMA StepEnds ==
  ASSUME SInv, EndStep, pc # "idle"
  PROVE  /\ plan' = plan /\ faults' = faults /\ todo' \in Seq(Steps)
         /\ pc' \in Steps \cup {"idle"}
         /\ pc' = "idle" => completed' = plan
         /\ pc' # "idle" => completed' = completed
         /\ plan = FullRun => GoesOn
<1>1. /\ todo \in Seq(Steps) /\ plan' = plan /\ faults' = faults
      /\ todo = <<>> => pc' = "idle" /\ completed' = plan /\ todo' = todo
      /\ todo # <<>> => pc' = Head(todo) /\ todo' = Tail(todo) /\ completed' = completed
  BY DEF SInv, SetupTypeOK, EndStep
<1>2. /\ todo' \in Seq(Steps) /\ pc' \in Steps \cup {"idle"}
      /\ pc' = "idle" => completed' = plan
      /\ pc' # "idle" => completed' = completed
  BY <1>1, HeadTail DEF Steps
<1>3. ASSUME plan = FullRun PROVE GoesOn
  <2>1. Ahead
    BY <1>3 DEF SInv, RunAt
  <2> USE DEF NvmeStep, SwapStep, DockerStep, DeployStep, ServiceStep, Ahead, GoesOn
  <2>2. CASE pc \in NvmeStep
    <3>1. pc' = "swap" /\ todo' = <<"docker", "deploy", "service">>
      BY <1>1, <2>1, <2>2, Rests
    <3> QED
      BY <2>2, <3>1
  <2>3. CASE pc \in SwapStep
    <3>1. pc' = "docker" /\ todo' = <<"deploy", "service">>
      BY <1>1, <2>1, <2>3, Rests
    <3> QED
      BY <2>3, <3>1
  <2>4. CASE pc \in DockerStep
    <3>1. pc' = "deploy" /\ todo' = <<"service">>
      BY <1>1, <2>1, <2>4, Rests
    <3> QED
      BY <2>4, <3>1
  <2>5. CASE pc \in DeployStep
    <3>1. pc' = "service" /\ todo' = <<>>
      BY <1>1, <2>1, <2>5, Rests
    <3> QED
      BY <2>5, <3>1
  <2>6. CASE pc \in ServiceStep
    <3>1. pc' = "idle"
      BY <1>1, <2>1, <2>6
    <3> QED
      BY <2>6, <3>1
  <2> QED
    BY <1>3, <2>2, <2>3, <2>4, <2>5, <2>6 DEF SInv, SetupTypeOK
<1> QED
  BY <1>1, <1>2, <1>3

\* The invariant holds initially: nothing is there and nothing runs.
LEMMA InitSInv == Init => SInv
<1> SUFFICES ASSUME Init PROVE SInv
  OBVIOUS
<1>0. /\ \A p \in Passwords : p # "absent" /\ p # "torn" /\ p # "default"
      /\ FullRun # <<>>
      /\ 0 \in 0..MaxFaults
  BY SetupAssumption
<1>1. SetupTypeOK
  <2>1. <<>> \in Seq(Steps)
    BY EmptySeq
  <2> QED
    BY <1>0, <2>1 DEF Init, SetupTypeOK, DataDirs, DaemonKeys
<1>2. EnvWritten /\ DbPasswordKept /\ StackOpens /\ DockerLoaded /\ Checked
  BY <1>0 DEF Init, EnvWritten, DbPasswordKept, StackOpens, DockerLoaded, Checked,
              DaemonKeys, DataDirs
<1>3. RunAt
  BY <1>0 DEF Init, RunAt, Ahead, NvmeStep, SwapStep, DockerStep, DeployStep, ServiceStep
<1> QED
  BY <1>1, <1>2, <1>3 DEF SInv

\* A command that touches neither .env nor the containers, and does not go on to
\* the writing of .env.
LEMMA LeavesStack ==
  ASSUME SInv, UNCHANGED <<env, db, stack, given>>, mounted => mounted',
         pc' \notin {"open_env", "write_env", "chown_env"}
  PROVE  EnvWritten' /\ DbPasswordKept' /\ StackOpens'
  BY DEF SInv, EnvWritten, DbPasswordKept, StackOpens

\* A command that touches neither docker nor its configuration, and does not go
\* on to the writing of it.
LEMMA LeavesDocker ==
  ASSUME SInv, UNCHANGED <<conf, dockerUp, loaded>>,
         pc' \notin {"open_conf", "dump_conf", "start"}
  PROVE  DockerLoaded'
  BY DEF SInv, DockerLoaded

\* What the type invariant says of the run.
RunType ==
  /\ todo \in Seq(Steps)
  /\ pc \in {"idle"} \cup NvmeStep \cup SwapStep \cup DockerStep \cup DeployStep
            \cup ServiceStep
  /\ plan \in Plans \cup {<<>>} /\ completed \in Plans \cup {<<>>}
  /\ faults \in 0..MaxFaults

\* The end of a step, with what a full run has done by then.
LEMMA RunEnds ==
  ASSUME SInv, EndStep, pc # "idle",
         plan = FullRun =>
           /\ mounted'
           /\ pc \in DockerStep \cup DeployStep \cup ServiceStep => conf' = DaemonKeys
           /\ pc \in DeployStep \cup ServiceStep => Up'
           /\ pc \in ServiceStep => service'
  PROVE  RunType' /\ RunAt'
<1> USE DEF NvmeStep, SwapStep, DockerStep, DeployStep, ServiceStep, Steps
<1>1. RunType'
  BY StepEnds DEF SInv, SetupTypeOK, RunType
<1>2. completed = <<>> /\ FullRun # <<>>
  BY SetupAssumption DEF SInv, RunAt
<1>3. pc' # "idle" => completed' = <<>>
  BY <1>2, StepEnds
<1>4. pc' \in {"health", "marker", "mint", "open_marker", "write_marker"} => Up'
  BY StepEnds
<1>5. plan' = FullRun =>
        /\ Ahead'
        /\ pc' \in SwapStep \cup DockerStep \cup DeployStep \cup ServiceStep => mounted'
        /\ pc' \in DeployStep \cup ServiceStep => conf' = DaemonKeys
        /\ pc' \in ServiceStep => Up'
  BY StepEnds DEF GoesOn, SInv, SetupTypeOK
<1>6. completed' = FullRun => Up' /\ service' /\ conf' = DaemonKeys
  BY <1>2, StepEnds DEF GoesOn, SInv, SetupTypeOK
<1> QED
  BY <1>1, <1>3, <1>4, <1>5, <1>6 DEF RunAt

\* The end of a step that was passed over: the run counts no more.
LEMMA RunPasses ==
  ASSUME SInv, PassOver, pc # "idle"
  PROVE  /\ RunType' /\ RunAt'
         /\ pc' \in Steps \cup {"idle"} /\ plan' = <<>> /\ plan' # FullRun
         /\ completed' = <<>> /\ faults' = faults + 1
<1>0. todo \in Seq(Steps) /\ faults \in 0..MaxFaults /\ MaxFaults \in Nat
  BY SetupAssumption DEF SInv, SetupTypeOK
<1>a. faults' \in 0..MaxFaults /\ faults' = faults + 1
  BY <1>0 DEF PassOver, Faulty
<1>b. pc' \in Steps \cup {"idle"} /\ todo' \in Seq(Steps)
  BY <1>0, HeadTail DEF PassOver
<1>1. /\ plan' = <<>> /\ completed' = completed /\ faults' \in 0..MaxFaults
      /\ pc' \in Steps \cup {"idle"} /\ todo' \in Seq(Steps) /\ faults' = faults + 1
  BY <1>a, <1>b DEF PassOver
<1>2. completed = <<>> /\ FullRun # <<>>
  BY SetupAssumption DEF SInv, RunAt
<1>3. RunType'
  BY <1>1 DEF SInv, SetupTypeOK, RunType, Steps, NvmeStep, SwapStep, DockerStep, DeployStep,
              ServiceStep
<1>4. RunAt'
  BY <1>1, <1>2 DEF RunAt, Steps
<1> QED
  BY <1>1, <1>2, <1>3, <1>4

\* The next command of a step.
LEMMA RunGoes ==
  ASSUME SInv, Do(pc'),
         \/ pc \in NvmeStep /\ pc' \in NvmeStep
         \/ pc \in SwapStep /\ pc' \in SwapStep
         \/ pc \in DockerStep /\ pc' \in DockerStep
         \/ pc \in DeployStep /\ pc' \in DeployStep,
         pc' \in {"health", "marker", "mint", "open_marker", "write_marker"} => Up',
         plan = FullRun => /\ pc \notin NvmeStep => mounted'
                           /\ pc \in DeployStep => conf' = DaemonKeys
  PROVE  RunType' /\ RunAt'
<1> USE DEF NvmeStep, SwapStep, DockerStep, DeployStep, ServiceStep, Do
<1>1. RunType'
  BY DEF SInv, SetupTypeOK, RunType
<1>2. completed' = <<>> /\ FullRun # <<>>
  BY SetupAssumption DEF SInv, RunAt
<1>3. Ahead => Ahead'
  BY DEF Ahead
<1> QED
  BY <1>1, <1>2, <1>3 DEF SInv, RunAt

\* The end of a run that did not come to its own.
LEMMA RunDies ==
  ASSUME SInv, Die, pc # "idle", faults' \in 0..MaxFaults
  PROVE  RunType' /\ RunAt' /\ completed' = <<>>
<1>1. completed' = <<>> /\ FullRun # <<>> /\ pc' = "idle" /\ plan' = plan
  BY SetupAssumption DEF SInv, RunAt, Die
<1>2. RunType'
  BY <1>1, EmptySeq DEF SInv, SetupTypeOK, RunType, Die
<1>3. Ahead'
  BY <1>1 DEF Ahead, NvmeStep, SwapStep, DockerStep, DeployStep, ServiceStep
<1> QED
  BY <1>1, <1>2, <1>3 DEF RunAt, NvmeStep, SwapStep, DockerStep, DeployStep, ServiceStep

\* The commands of step_nvme and step_swap.
DiskCommand ==
  \/ CheckMount \/ Mount \/ PersistMount
  \/ CheckSwap \/ Fallocate \/ Mkswap \/ Swapon \/ PersistSwap

\* They keep the invariant.
LEMMA DiskCommands == SInv /\ DiskCommand => SInv'
<1> SUFFICES ASSUME SInv, DiskCommand PROVE SInv'
  OBVIOUS
<1> USE DEF disk, memory, NvmeStep, SwapStep
<1>1. /\ UNCHANGED <<conf, env, readable, db, keys, marker, service, dockerUp, loaded,
                     stack, given>>
      /\ mounted => mounted'
      /\ pc \in NvmeStep \cup SwapStep
  BY DEF DiskCommand, CheckMount, Mount, PersistMount, CheckSwap, Fallocate, Mkswap,
         Swapon, PersistSwap
<1>2. fstab' \subseteq {"nvme", "swap"} /\ swapfile' \in {"absent", "allocated", "formatted"}
      /\ mounted' \in BOOLEAN /\ swapon' \in BOOLEAN
  BY DEF DiskCommand, CheckMount, Mount, PersistMount, CheckSwap, Fallocate, Mkswap,
         Swapon, PersistSwap, SInv, SetupTypeOK
<1>3. \/ Do("mount") /\ pc = "nvme"
      \/ Do("fstab_nvme") /\ pc = "mount" /\ mounted'
      \/ EndStep /\ (pc \in NvmeStep => mounted') /\ (pc \in SwapStep => mounted' = mounted)
      \/ PassOver
      \/ pc \in SwapStep /\ mounted' = mounted
          /\ (Do("fallocate") \/ Do("mkswap") \/ Do("swapon") \/ Do("fstab_swap"))
  BY DEF DiskCommand, CheckMount, Mount, PersistMount, CheckSwap, Fallocate, Mkswap,
         Swapon, PersistSwap, SInv, Checked
<1>4. RunType' /\ RunAt' /\ pc' \in Steps \cup NvmeStep \cup SwapStep \cup {"idle"}
      /\ (pc' = "fstab_nvme" => mounted')
  <2>1. CASE \/ Do("mount") /\ pc = "nvme"
             \/ Do("fstab_nvme") /\ pc = "mount" /\ mounted'
    BY <2>1, RunGoes DEF Do, DeployStep
  <2>2. CASE pc \in SwapStep /\ mounted' = mounted
          /\ (Do("fallocate") \/ Do("mkswap") \/ Do("swapon") \/ Do("fstab_swap"))
    BY <2>2, RunGoes DEF Do, SInv, RunAt, DeployStep
  <2>3. CASE EndStep /\ (pc \in NvmeStep => mounted')
                     /\ (pc \in SwapStep => mounted' = mounted)
    <3>1. plan = FullRun => mounted'
      BY <1>1, <2>3 DEF SInv, RunAt
    <3> QED
      BY <1>1, <2>3, <3>1, RunEnds, StepEnds DEF DockerStep, DeployStep, ServiceStep, Steps
  <2>4. CASE PassOver
    BY <1>1, <2>4, RunPasses DEF Steps
  <2> QED
    BY <1>3, <2>1, <2>2, <2>3, <2>4
<1>5. SetupTypeOK'
  BY <1>1, <1>2, <1>4 DEF SInv, SetupTypeOK, RunType
<1>6. EnvWritten' /\ DbPasswordKept' /\ StackOpens' /\ DockerLoaded'
  BY <1>1, <1>4, LeavesStack, LeavesDocker DEF Steps
<1>7. Checked'
  BY <1>4 DEF Checked, Steps
<1> QED
  BY <1>4, <1>5, <1>6, <1>7 DEF SInv

\* What the type invariant says of the stack.
StackType ==
  /\ db \in [DataDirs -> Passwords \cup {"absent", "default"}]
  /\ stack \in DataDirs \cup {"off"} /\ given \in Passwords \cup {"default"}

\* The containers start with the password of .env, or with the one they were made
\* with: an existing database keeps its password, a new one gets theirs.
LEMMA Brought ==
  ASSUME SInv, NEW password \in {given, PasswordOf(env)}, Bring(password, mounted'),
         env' = env, pc' \notin {"open_env", "write_env", "chown_env"}
  PROVE  /\ StackType' /\ EnvWritten' /\ DbPasswordKept' /\ StackOpens'
         /\ stack' # "off" /\ given' = password
<1>0. \A p \in Passwords : p # "absent" /\ p # "torn" /\ p # "default"
  BY SetupAssumption
<1>1. /\ password \in Passwords \cup {"default"}
      /\ password # "default" => password = env
  BY DEF SInv, SetupTypeOK, StackOpens, PasswordOf
<1>2. /\ stack' = DataRoot(password, mounted') /\ given' = password
      /\ db' = [db EXCEPT ![stack'] = IF db[stack'] = "absent" THEN password ELSE db[stack']]
      /\ db \in [DataDirs -> Passwords \cup {"absent", "default"}]
  BY DEF Bring, SInv, SetupTypeOK
<1>3. /\ stack' \in DataDirs /\ stack' # "off"
      /\ stack' = "repo" <=> password = "default"
      /\ stack' = "nvme" => mounted'
  BY <1>2 DEF DataRoot, DataDirs
<1>4. \A d \in DataDirs : db[d] # "absent" => db[d] = IF d = "repo" THEN "default" ELSE env
  BY DEF SInv, DbPasswordKept
<1>5. db'[stack'] = password /\ \A d \in DataDirs : d # stack' => db'[d] = db[d]
  BY <1>1, <1>2, <1>3, <1>4
<1>6. StackType'
  BY <1>1, <1>2, <1>3 DEF StackType
<1>7. DbPasswordKept' /\ StackOpens'
  BY <1>1, <1>2, <1>3, <1>4, <1>5 DEF DbPasswordKept, StackOpens
<1>8. EnvWritten'
  BY DEF EnvWritten
<1> QED
  BY <1>2, <1>3, <1>6, <1>7, <1>8

\* Containers that come back with docker, or do not.
LEMMA Revived ==
  ASSUME SInv, Revive(mounted'), env' = env,
         pc' \notin {"open_env", "write_env", "chown_env"}
  PROVE  StackType' /\ EnvWritten' /\ DbPasswordKept' /\ StackOpens'
<1>1. CASE stack' = "off" /\ UNCHANGED <<db, given>>
  BY <1>1 DEF SInv, SetupTypeOK, StackType, EnvWritten, DbPasswordKept, StackOpens, DataDirs
<1>2. CASE Bring(given, mounted')
  BY <1>2, Brought
<1> QED
  BY <1>1, <1>2 DEF Revive

\* The commands of step_docker.
DockerCommand ==
  \/ CheckDaemon \/ WriteDaemon \/ RestartDocker \/ CheckDataRoot \/ StopDocker
  \/ OpenConf \/ DumpConf \/ StartDocker

\* They keep the invariant.
LEMMA DockerCommands == SInv /\ DockerCommand => SInv'
<1> SUFFICES ASSUME SInv, DockerCommand PROVE SInv'
  OBVIOUS
<1> USE DEF disk, memory
<1>1. /\ UNCHANGED <<fstab, swapfile, env, readable, keys, marker, service, mounted, swapon>>
      /\ pc \in DockerStep
  BY DEF DockerCommand, CheckDaemon, WriteDaemon, RestartDocker, CheckDataRoot, StopDocker,
         OpenConf, DumpConf, StartDocker, DockerStep
<1>2. \/ Do(pc') /\ pc' \in DockerStep
      \/ EndStep /\ (mounted => conf' = DaemonKeys)
  BY DEF DockerCommand, CheckDaemon, WriteDaemon, RestartDocker, CheckDataRoot, StopDocker,
         OpenConf, DumpConf, StartDocker, DockerStep, Do, SInv, DockerLoaded, DaemonKeys
<1>3. RunType' /\ RunAt' /\ pc' \in DockerStep \cup Steps \cup {"idle"}
  <2>1. CASE Do(pc') /\ pc' \in DockerStep
    BY <1>1, <2>1, RunGoes
    DEF SInv, RunAt, NvmeStep, SwapStep, DockerStep, DeployStep, ServiceStep
  <2>2. CASE EndStep /\ (mounted => conf' = DaemonKeys)
    BY <1>1, <2>2, RunEnds, StepEnds
    DEF SInv, RunAt, NvmeStep, SwapStep, DockerStep, DeployStep, ServiceStep
  <2> QED
    BY <1>2, <2>1, <2>2
<1>4. pc' \notin {"open_env", "write_env", "chown_env"}
  BY <1>3 DEF DockerStep, Steps
<1>5. StackType' /\ EnvWritten' /\ DbPasswordKept' /\ StackOpens'
  <2>1. CASE RestartDocker
    BY <1>1, <1>4, <2>1, Revived DEF RestartDocker
  <2>2. CASE StopDocker
    BY <1>1, <1>4, <2>2
    DEF StopDocker, SInv, SetupTypeOK, StackType, EnvWritten, DbPasswordKept, StackOpens
  <2>3. CASE UNCHANGED <<db, stack, given>>
    BY <1>1, <1>4, <2>3, LeavesStack DEF SInv, SetupTypeOK, StackType
  <2> QED
    BY <2>1, <2>2, <2>3 DEF DockerCommand, CheckDaemon, WriteDaemon, CheckDataRoot,
       OpenConf, DumpConf, StartDocker
<1>6. DockerLoaded' /\ conf' \subseteq DaemonKeys /\ loaded' \subseteq DaemonKeys
      /\ dockerUp' \in BOOLEAN
  <2>0. EndStep => pc' \in Steps \cup {"idle"}
    BY <1>1, StepEnds DEF DockerStep
  <2>a. DockerLoaded /\ conf \subseteq DaemonKeys /\ loaded \subseteq DaemonKeys
        /\ dockerUp \in BOOLEAN
    BY DEF SInv, SetupTypeOK
  <2> USE <2>a DEF DockerLoaded, DaemonKeys, Do
  <2>1. CASE CheckDaemon
    BY <2>1 DEF CheckDaemon
  <2>2. CASE WriteDaemon \/ RestartDocker
    BY <2>2 DEF WriteDaemon, RestartDocker
  <2>3. CASE CheckDataRoot
    BY <2>0, <2>3 DEF CheckDataRoot, Steps
  <2>4. CASE StopDocker
    BY <2>4 DEF StopDocker
  <2>5. CASE OpenConf
    BY <2>5 DEF OpenConf
  <2>6. CASE DumpConf
    BY <2>6 DEF DumpConf
  <2>7. CASE StartDocker
    BY <2>0, <2>7 DEF StartDocker, Steps
  <2> QED
    BY <2>1, <2>2, <2>3, <2>4, <2>5, <2>6, <2>7 DEF DockerCommand
<1>7. SetupTypeOK'
  BY <1>1, <1>3, <1>5, <1>6 DEF SInv, SetupTypeOK, RunType, StackType
<1>8. Checked'
  BY <1>1, <1>2, <1>3, StepEnds DEF SInv, Checked, DockerCommand, CheckDaemon, WriteDaemon,
     RestartDocker, CheckDataRoot, StopDocker, OpenConf, DumpConf, StartDocker, Do, Steps,
     DockerStep
<1> QED
  BY <1>3, <1>5, <1>6, <1>7, <1>8 DEF SInv

\* The commands of step_deploy.
DeployCommand ==
  \/ CheckEnv \/ OpenEnv \/ WriteEnv \/ ChownEnv \/ ComposeUp \/ WaitHealthy
  \/ CheckMarker \/ MintKey \/ OpenMarker \/ WriteMarker

\* .env is written before there is any database under $DATA_DIR.
LEMMA EnvCommands ==
  ASSUME SInv, CheckEnv \/ OpenEnv \/ WriteEnv \/ ChownEnv
  PROVE  StackType' /\ EnvWritten' /\ DbPasswordKept' /\ StackOpens'
<1>0. \A p \in Passwords : p # "absent" /\ p # "torn" /\ p # "default"
  BY SetupAssumption
<1>1. UNCHANGED <<db, stack, given, mounted>>
  BY DEF CheckEnv, OpenEnv, WriteEnv, ChownEnv, disk, memory
<1>2. StackType'
  BY <1>1 DEF SInv, SetupTypeOK, StackType
<1>3. CASE CheckEnv \/ ChownEnv
  <2>1. /\ env' = env /\ (pc' = "open_env" => env = "absent")
        /\ pc' # "write_env" /\ pc' # "chown_env"
    BY <1>3 DEF CheckEnv, ChownEnv, Do, disk
  <2> QED
    BY <1>1, <1>2, <2>1 DEF SInv, EnvWritten, DbPasswordKept, StackOpens
<1>4. CASE OpenEnv \/ WriteEnv
  <2>1. /\ env \notin Passwords /\ (pc' = "write_env" => env' = "torn")
        /\ pc' # "open_env" /\ (pc' = "chown_env" => env' \in Passwords)
    BY <1>0, <1>4 DEF OpenEnv, WriteEnv, Do, SInv, EnvWritten
  <2>2. \A d \in DataDirs : db[d] # "absent" => d = "repo" /\ db[d] = "default"
    BY <1>0, <1>4, <2>1 DEF SInv, SetupTypeOK, DbPasswordKept, OpenEnv, WriteEnv, EnvWritten
  <2>3. given = "default"
    BY <2>1 DEF SInv, SetupTypeOK, StackOpens
  <2> QED
    BY <1>1, <1>2, <2>1, <2>2, <2>3 DEF SInv, EnvWritten, DbPasswordKept, StackOpens
<1> QED
  BY <1>2, <1>3, <1>4

\* They keep the invariant.
LEMMA DeployCommands == SInv /\ DeployCommand => SInv'
<1> SUFFICES ASSUME SInv, DeployCommand PROVE SInv'
  OBVIOUS
<1> USE DEF disk, memory
<1>1. /\ UNCHANGED <<fstab, swapfile, conf, service, mounted, swapon>>
      /\ pc \in DeployStep
  BY DEF DeployCommand, CheckEnv, OpenEnv, WriteEnv, ChownEnv, ComposeUp, WaitHealthy,
     CheckMarker, MintKey, OpenMarker, WriteMarker, DeployStep
<1>2. /\ Up /\ UNCHANGED <<env, dockerUp, stack, given>> => Up'
      /\ pc \in {"health", "marker", "mint", "open_marker", "write_marker"} => Up
  BY DEF Up, SInv, RunAt
<1>3. ComposeUp => /\ Up' /\ StackType' /\ EnvWritten' /\ DbPasswordKept' /\ StackOpens'
  <2> SUFFICES ASSUME ComposeUp
               PROVE  /\ Up' /\ StackType' /\ EnvWritten' /\ DbPasswordKept' /\ StackOpens'
    OBVIOUS
  <2>1. /\ env' = env /\ mounted' = mounted /\ dockerUp' /\ pc' = "health"
        /\ PasswordOf(env)' = PasswordOf(env)
    BY DEF ComposeUp, Do, PasswordOf
  <2>2. CASE stack # "off" /\ given = PasswordOf(env) /\ UNCHANGED <<stack, given, db>>
    BY <2>1, <2>2, LeavesStack DEF Up, SInv, SetupTypeOK, StackType
  <2>3. CASE Bring(PasswordOf(env), mounted')
    BY <2>1, <2>3, Brought DEF Up
  <2> QED
    BY <2>1, <2>2, <2>3 DEF ComposeUp
<1>4. \/ Do(pc') /\ pc' \in DeployStep
         /\ (pc' \in {"health", "marker", "mint", "open_marker", "write_marker"} => Up')
      \/ EndStep /\ Up'
      \/ PassOver
      \/ Die /\ faults' \in 0..MaxFaults
  <2>1. faults \in 0..MaxFaults /\ MaxFaults \in Nat
    BY SetupAssumption DEF SInv, SetupTypeOK
  <2>2. CASE CheckEnv \/ OpenEnv \/ WriteEnv \/ ChownEnv \/ ComposeUp
    BY <1>3, <2>2 DEF CheckEnv, OpenEnv, WriteEnv, ChownEnv, ComposeUp, Do, DeployStep
  <2>3. CASE WaitHealthy \/ CheckMarker \/ OpenMarker \/ WriteMarker
    BY <1>2, <2>1, <2>3 DEF WaitHealthy, CheckMarker, OpenMarker, WriteMarker, Do, DeployStep
  <2>4. CASE MintKey
    BY <1>2, <2>1, <2>4 DEF MintKey, NoKey, Faulty, Do, DeployStep
  <2> QED
    BY <2>2, <2>3, <2>4 DEF DeployCommand
<1>5. RunType' /\ RunAt' /\ pc' \in DeployStep \cup Steps \cup {"idle"}
  <2>0. plan = FullRun => mounted' /\ conf' = DaemonKeys
    BY <1>1 DEF SInv, RunAt
  <2>1. CASE Do(pc') /\ pc' \in DeployStep
             /\ (pc' \in {"health", "marker", "mint", "open_marker", "write_marker"} => Up')
    BY <1>1, <2>0, <2>1, RunGoes
  <2>2. CASE EndStep /\ Up'
    BY <1>1, <2>0, <2>2, RunEnds, StepEnds DEF DeployStep, ServiceStep
  <2>3. CASE PassOver
    BY <1>1, <2>3, RunPasses DEF DeployStep
  <2>4. CASE Die /\ faults' \in 0..MaxFaults
    BY <1>1, <2>4, RunDies DEF DeployStep, Die
  <2> QED
    BY <1>4, <2>1, <2>2, <2>3, <2>4
<1>6. StackType' /\ EnvWritten' /\ DbPasswordKept' /\ StackOpens'
  <2>1. CASE CheckEnv \/ OpenEnv \/ WriteEnv \/ ChownEnv
    BY <2>1, EnvCommands
  <2>2. CASE ComposeUp
    BY <1>3, <2>2
  <2>3. CASE WaitHealthy \/ CheckMarker \/ MintKey \/ OpenMarker \/ WriteMarker
    <3>1. UNCHANGED <<env, db, stack, given, mounted>>
      BY <2>3 DEF WaitHealthy, CheckMarker, MintKey, OpenMarker, WriteMarker
    <3>2. pc' \notin {"open_env", "write_env", "chown_env"}
      <4>1. (EndStep => pc' \in Steps \cup {"idle"}) /\ (PassOver => pc' \in Steps \cup {"idle"})
        BY <1>1, StepEnds, RunPasses DEF DeployStep
      <4> QED
        BY <2>3, <4>1 DEF WaitHealthy, CheckMarker, MintKey, OpenMarker, WriteMarker, Do, Die,
           NoKey, Steps
    <3> QED
      BY <3>1, <3>2, LeavesStack DEF SInv, SetupTypeOK, StackType
  <2> QED
    BY <2>1, <2>2, <2>3 DEF DeployCommand
<1>7. DockerLoaded' /\ dockerUp' \in BOOLEAN /\ loaded' \subseteq DaemonKeys
  <2>1. pc' \notin {"open_conf", "dump_conf", "start"}
    BY <1>5 DEF DeployStep, Steps
  <2>2. CASE ComposeUp
    BY <1>1, <2>1, <2>2 DEF ComposeUp, SInv, SetupTypeOK, DockerLoaded
  <2>3. CASE UNCHANGED <<dockerUp, loaded>>
    BY <1>1, <2>1, <2>3, LeavesDocker DEF SInv, SetupTypeOK
  <2> QED
    BY <2>2, <2>3 DEF DeployCommand, CheckEnv, OpenEnv, WriteEnv, ChownEnv, WaitHealthy,
       CheckMarker, MintKey, OpenMarker, WriteMarker
<1>8. env' \in Passwords \cup {"absent", "torn"} /\ readable' \in BOOLEAN
      /\ keys' \in [DataDirs -> Nat] /\ marker' \in [DataDirs -> {"absent", "empty", "key"}]
  <2>1. CASE CheckEnv \/ OpenEnv \/ WriteEnv \/ ChownEnv \/ ComposeUp
    BY <2>1 DEF CheckEnv, OpenEnv, WriteEnv, ChownEnv, ComposeUp, SInv, SetupTypeOK
  <2>2. CASE WaitHealthy \/ CheckMarker \/ OpenMarker \/ WriteMarker
    BY <2>2 DEF WaitHealthy, CheckMarker, OpenMarker, WriteMarker, SInv, SetupTypeOK
  <2>3. CASE MintKey
    BY <2>3 DEF MintKey, SInv, SetupTypeOK
  <2> QED
    BY <2>1, <2>2, <2>3 DEF DeployCommand
<1>9. SetupTypeOK'
  BY <1>1, <1>5, <1>6, <1>7, <1>8 DEF SInv, SetupTypeOK, RunType, StackType
<1>10. Checked'
  <2>1. DATA_DIR' = DATA_DIR
    BY <1>1 DEF DATA_DIR
  <2>2. pc' \in {"mint", "open_marker"} => marker'[DATA_DIR] = "absent"
    <3>1. (EndStep => pc' \in Steps \cup {"idle"}) /\ (PassOver => pc' \in Steps \cup {"idle"})
      BY <1>1, StepEnds, RunPasses DEF DeployStep
    <3> QED
      BY <3>1 DEF SInv, Checked, DeployCommand, CheckEnv, OpenEnv, WriteEnv, ChownEnv,
         ComposeUp, WaitHealthy, CheckMarker, MintKey, OpenMarker, WriteMarker, NoKey, Do, Die,
         Steps
  <2>3. pc' = "write_marker" => marker'[DATA_DIR] # "absent"
    <3>1. (EndStep => pc' \in Steps \cup {"idle"}) /\ (PassOver => pc' \in Steps \cup {"idle"})
      BY <1>1, StepEnds, RunPasses DEF DeployStep
    <3>2. DATA_DIR \in DOMAIN marker
      BY DEF DATA_DIR, SInv, SetupTypeOK, DataDirs
    <3> QED
      BY <3>1, <3>2 DEF DeployCommand, CheckEnv, OpenEnv, WriteEnv, ChownEnv,
         ComposeUp, WaitHealthy, CheckMarker, MintKey, OpenMarker, WriteMarker, NoKey, Do, Die,
         Steps
  <2> QED
    BY <1>5, <2>1, <2>2, <2>3 DEF Checked, DeployStep, Steps
<1> QED
  BY <1>5, <1>6, <1>7, <1>9, <1>10 DEF SInv

\* So does the command of step_service.
LEMMA ServiceCommand == SInv /\ EnableService => SInv'
<1> SUFFICES ASSUME SInv, EnableService PROVE SInv'
  OBVIOUS
<1>1. /\ UNCHANGED <<fstab, swapfile, conf, env, readable, db, keys, marker, memory>>
      /\ service' = TRUE /\ pc \in ServiceStep /\ pc # "idle" /\ EndStep
  BY DEF EnableService, ServiceStep
<1>2. UNCHANGED <<mounted, swapon, dockerUp, loaded, stack, given>>
  BY <1>1 DEF memory
<1>3. pc' \in Steps \cup {"idle"}
  BY <1>1, StepEnds
<1>4. plan = FullRun => mounted' /\ conf' = DaemonKeys /\ Up'
  BY <1>1, <1>2 DEF SInv, RunAt, Up
<1>5. RunType' /\ RunAt'
  BY <1>1, <1>4, RunEnds
<1>6. EnvWritten' /\ DbPasswordKept' /\ StackOpens' /\ DockerLoaded'
  BY <1>1, <1>2, <1>3, LeavesStack, LeavesDocker DEF Steps
<1>7. SetupTypeOK' /\ Checked'
  BY <1>1, <1>2, <1>3, <1>5 DEF SInv, SetupTypeOK, RunType, Checked, Steps
<1> QED
  BY <1>5, <1>6, <1>7 DEF SInv

\* A run starts, or ends before its end, and nothing is changed on the board.
LEMMA RunStartsOrEnds ==
  ASSUME SInv, UNCHANGED <<disk, memory>>,
         (\E p \in Plans : StartRun(p)) \/ Abort \/ UNCHANGED vars
  PROVE  SInv'
<1>1. UNCHANGED <<fstab, swapfile, conf, env, readable, db, keys, marker, service,
                 mounted, swapon, dockerUp, loaded, stack, given>>
  BY DEF disk, memory
<1>2. ASSUME NEW p \in Plans, StartRun(p) PROVE SInv'
  <2>1. /\ pc' = Head(p) /\ todo' = Tail(p) /\ plan' = p /\ completed' = <<>>
        /\ faults' = faults /\ p \in Seq(Steps) /\ p # <<>> /\ FullRun # <<>>
    BY <1>2, SetupAssumption DEF StartRun
  <2>2. pc' \in Steps /\ todo' \in Seq(Steps)
    BY <2>1, HeadTail
  <2>3. p = FullRun => pc' = "nvme" /\ todo' = <<"swap", "docker", "deploy", "service">>
    BY <2>1, FullRunSteps
  <2>4. SetupTypeOK' /\ Checked'
    BY <1>1, <2>1, <2>2 DEF SInv, SetupTypeOK, Checked, Steps, NvmeStep, SwapStep, DockerStep,
       DeployStep, ServiceStep
  <2>5. RunAt'
    BY <2>1, <2>2, <2>3
    DEF RunAt, Ahead, Steps, NvmeStep, SwapStep, DockerStep, DeployStep, ServiceStep
  <2>6. EnvWritten' /\ DbPasswordKept' /\ StackOpens' /\ DockerLoaded'
    BY <1>1, <2>2, LeavesStack, LeavesDocker DEF Steps
  <2> QED
    BY <2>4, <2>5, <2>6 DEF SInv
<1>3. CASE Abort
  <2>1. faults' \in 0..MaxFaults
    BY <1>3, SetupAssumption DEF Abort, Faulty, SInv, SetupTypeOK
  <2>2. RunType' /\ RunAt' /\ pc' = "idle"
    BY <1>3, <2>1, RunDies DEF Abort, Die
  <2>3. SetupTypeOK' /\ Checked'
    BY <1>1, <2>2 DEF SInv, SetupTypeOK, RunType, Checked
  <2>4. EnvWritten' /\ DbPasswordKept' /\ StackOpens' /\ DockerLoaded'
    BY <1>1, <2>2, LeavesStack, LeavesDocker
  <2> QED
    BY <2>2, <2>3, <2>4 DEF SInv
<1>4. CASE UNCHANGED vars
  <2>1. UNCHANGED <<todo, pc, plan, completed, faults>>
    BY <1>4 DEF vars, run
  <2> QED
    BY <1>1, <2>1 DEF SInv, SetupTypeOK, EnvWritten, DbPasswordKept, StackOpens, DockerLoaded,
       Checked, DATA_DIR, RunAt, Up, Ahead, PasswordOf
<1> QED
  BY <1>2, <1>3, <1>4

\* After a power cut the disk is mounted if fstab says so, docker reads its
\* configuration, and the stack is up if the service is enabled.
LEMMA Reboots == SInv /\ Reboot => SInv'
<1> SUFFICES ASSUME SInv, Reboot PROVE SInv'
  OBVIOUS
<1>1. /\ UNCHANGED <<fstab, swapfile, conf, env, readable, keys, marker, service>>
      /\ dockerUp' = TRUE /\ loaded' = conf
      /\ mounted' \in BOOLEAN /\ swapon' \in BOOLEAN
  BY DEF Reboot, SInv, SetupTypeOK
<1>2. /\ RunType' /\ pc' = "idle" /\ completed' \in {completed, <<>>}
      /\ plan' = plan
  <2>1. CASE pc = "idle" /\ UNCHANGED <<run, faults>>
    BY <2>1 DEF run, SInv, SetupTypeOK, RunType
  <2>2. CASE pc # "idle" /\ Faulty /\ Die
    <3>1. faults' \in 0..MaxFaults
      BY <2>2, SetupAssumption DEF Faulty, SInv, SetupTypeOK
    <3> QED
      BY <2>2, <3>1, RunDies DEF Die
  <2> QED
    BY <2>1, <2>2 DEF Reboot
<1>3. /\ StackType' /\ EnvWritten' /\ DbPasswordKept' /\ StackOpens'
      /\ service => Up'
  <2>1. CASE service /\ Bring(PasswordOf(env), mounted')
    BY <1>1, <1>2, <2>1, Brought DEF Up, PasswordOf
  <2>2. CASE ~service /\ Revive(mounted')
    BY <1>1, <1>2, <2>2, Revived
  <2> QED
    BY <2>1, <2>2 DEF Reboot, SInv, SetupTypeOK
<1>4. RunAt'
  <2>1. FullRun # <<>>
    BY SetupAssumption
  <2>2. completed' = FullRun => Up' /\ service' /\ conf' = DaemonKeys
    BY <1>1, <1>2, <1>3, <2>1 DEF SInv, RunAt
  <2> QED
    BY <1>2, <2>2 DEF RunAt, Ahead, NvmeStep, SwapStep, DockerStep, DeployStep, ServiceStep
<1>5. DockerLoaded' /\ Checked'
  BY <1>1, <1>2 DEF SInv, DockerLoaded, Checked
<1>6. SetupTypeOK'
  BY <1>1, <1>2, <1>3 DEF SInv, SetupTypeOK, RunType, StackType
<1> QED
  BY <1>3, <1>4, <1>5, <1>6 DEF SInv

\* Every step keeps the invariant.
LEMMA NextSInv == SInv /\ [Next]_vars => SInv'
<1> SUFFICES ASSUME SInv, [Next]_vars PROVE SInv'
  OBVIOUS
<1>1. CASE (\E p \in Plans : StartRun(p)) \/ Abort \/ UNCHANGED vars
  <2>1. UNCHANGED <<disk, memory>>
    BY <1>1 DEF StartRun, Abort, vars
  <2> QED
    BY <1>1, <2>1, RunStartsOrEnds
<1>2. CASE Command
  BY <1>2, DiskCommands, DockerCommands, DeployCommands, ServiceCommand
  DEF Command, DiskCommand, DockerCommand, DeployCommand
<1>3. CASE Reboot
  BY <1>3, Reboots
<1> QED
  BY <1>1, <1>2, <1>3 DEF Next

\* SInv holds in every reachable state.
LEMMA SInvariance == Spec => []SInv
  BY InitSInv, NextSInv, PTL DEF Spec

\* Every variable keeps its type.
THEOREM SetupTypeCorrect == Spec => []SetupTypeOK
<1>1. SInv => SetupTypeOK
  BY DEF SInv
<1> QED
  BY <1>1, SInvariance, PTL

\* No run, failure or power cut ever leaves a database whose password is not the
\* one the containers over it log in with (generate_env, setup-jetson.sh).
THEOREM PasswordKept == Spec => []DbPasswordKept
<1>1. SInv => DbPasswordKept
  BY DEF SInv
<1> QED
  BY <1>1, SInvariance, PTL

\* A full run that came to its end leaves the stack up over a database its
\* password opens, with both settings of docker in force, whatever became of the
\* runs before it and however often the board is rebooted after it.
THEOREM FullRunServes == Spec => []RunServes
<1>1. SInv => RunServes
  <2> SUFFICES ASSUME SInv, completed = FullRun
               PROVE  /\ service /\ dockerUp /\ loaded = DaemonKeys
                      /\ stack # "off" /\ db[stack] = given /\ given = PasswordOf(env)
    BY DEF RunServes
  <2>1. service /\ Up /\ conf = DaemonKeys
    BY DEF SInv, RunAt
  <2> QED
    BY <2>1 DEF SInv, Up, DockerLoaded, StackOpens
<1> QED
  BY <1>1, SInvariance, PTL
----------------------------------------------------------------------------
(* The admin keys.  What a data directory may still cost: a key, until its *)
(* marker is there, or the one just minted for it is about to open it.     *)

Owed(d) == IF marker[d] = "absent" /\ ~(pc = "open_marker" /\ DATA_DIR = d) THEN 1 ELSE 0

\* What a step does to the keys: none is minted, and every directory owes what it did;
Kept ==
  /\ keys' = keys
  /\ \A d \in {"nvme", "boot"} : Owed(d)' = Owed(d)
  /\ faults' \in {faults, faults + 1}

\* or one is, in the stack's database, and the marker will be opened;
Minted ==
  /\ pc = "mint" /\ keys' = [keys EXCEPT ![stack] = @ + 1]
  /\ \A d \in {"nvme", "boot"} :
       IF d = DATA_DIR THEN Owed(d) = 1 /\ Owed(d)' = 0 ELSE Owed(d)' = Owed(d)
  /\ faults' = faults /\ UNCHANGED <<fstab, conf, mounted>>

\* or one is, and lost;
Lost ==
  /\ pc = "mint" /\ keys' = [keys EXCEPT ![stack] = @ + 1]
  /\ \A d \in {"nvme", "boot"} : Owed(d)' = Owed(d)
  /\ faults' = faults + 1 /\ UNCHANGED <<fstab, conf, mounted>>

\* or the run ends before the marker of one that was is opened.
Forgotten ==
  /\ pc = "open_marker" /\ keys' = keys
  /\ \A d \in {"nvme", "boot"} :
       IF d = DATA_DIR THEN Owed(d) = 0 /\ Owed(d)' = 1 ELSE Owed(d)' = Owed(d)
  /\ faults' = faults + 1
  /\ UNCHANGED <<fstab, conf>> /\ (mounted' => mounted \/ "nvme" \in fstab)

\* The markers stay, and the step is about none of them.
LEMMA AccountsKept ==
  ASSUME SInv, UNCHANGED <<keys, marker>>, pc # "open_marker", pc' # "open_marker",
         faults' \in {faults, faults + 1}
  PROVE  Kept
  BY DEF Kept, Owed

\* Every step of a run is one of the four.
LEMMA Accounts ==
  ASSUME SInv, [Next]_vars
  PROVE  Kept \/ Minted \/ Lost \/ Forgotten
<1> USE DEF disk, memory
<1>0. DATA_DIR \in {"nvme", "boot"}
  BY DEF DATA_DIR
<1>1. EndStep /\ pc # "idle" => pc' \in Steps \cup {"idle"} /\ faults' = faults
  BY StepEnds
<1>2. PassOver /\ pc # "idle" => pc' \in Steps \cup {"idle"} /\ faults' = faults + 1
  BY RunPasses
<1>3. CASE (\E p \in Plans : StartRun(p)) \/ UNCHANGED vars
  <2>1. CASE UNCHANGED vars
    BY <2>1 DEF vars, run, Kept, Owed, DATA_DIR
  <2>2. ASSUME NEW p \in Plans, StartRun(p) PROVE Kept
    <3>1. pc' \in Steps
      BY <2>2, HeadTail, SetupAssumption DEF StartRun
    <3> QED
      BY <2>2, <3>1, AccountsKept DEF StartRun, Steps
  <2> QED
    BY <1>3, <2>1, <2>2
<1>4. CASE DiskCommand \/ DockerCommand \/ EnableService
  <2>1. /\ UNCHANGED <<keys, marker>> /\ pc # "open_marker" /\ pc # "idle"
        /\ (Do(pc') /\ pc' # "open_marker") \/ EndStep \/ PassOver
    BY <1>4 DEF DiskCommand, CheckMount, Mount, PersistMount, CheckSwap, Fallocate, Mkswap,
       Swapon, PersistSwap, DockerCommand, CheckDaemon, WriteDaemon, RestartDocker,
       CheckDataRoot, StopDocker, OpenConf, DumpConf, StartDocker, EnableService, Do
  <2> QED
    BY <1>1, <1>2, <2>1, AccountsKept DEF Do, Steps
<1>5. CASE CheckEnv \/ OpenEnv \/ WriteEnv \/ ChownEnv \/ ComposeUp \/ WaitHealthy \/ CheckMarker
  <2>1. /\ UNCHANGED <<keys, marker>> /\ pc # "open_marker" /\ pc # "idle"
        /\ (Do(pc') /\ pc' # "open_marker") \/ EndStep \/ (pc' = "idle" /\ faults' = faults)
    BY <1>5 DEF CheckEnv, OpenEnv, WriteEnv, ChownEnv, ComposeUp, WaitHealthy, CheckMarker,
       Do, Die
  <2> QED
    BY <1>1, <2>1, AccountsKept DEF Do, Steps
<1>6. CASE MintKey
  <2>1. /\ pc = "mint" /\ UNCHANGED <<fstab, conf, marker, mounted>> /\ marker[DATA_DIR] = "absent"
        /\ DATA_DIR' = DATA_DIR
    BY <1>6 DEF MintKey, SInv, Checked, DATA_DIR
  <2>2. NoKey => pc' \in Steps \cup {"idle"} /\ faults' = faults + 1
    BY <1>2, <2>1 DEF NoKey, Die, Faulty
  <2>3. CASE keys' = [keys EXCEPT ![stack] = @ + 1] /\ Do("open_marker")
    BY <1>0, <2>1, <2>3 DEF Minted, Owed, Do
  <2>4. CASE keys' = [keys EXCEPT ![stack] = @ + 1] /\ NoKey
    BY <2>1, <2>2, <2>4 DEF Lost, Owed, Steps
  <2>5. CASE keys' = keys /\ NoKey
    BY <2>1, <2>2, <2>5 DEF Kept, Owed, Steps
  <2> QED
    BY <1>6, <2>3, <2>4, <2>5 DEF MintKey
<1>7. CASE OpenMarker \/ WriteMarker
  <2>1. /\ pc \in {"open_marker", "write_marker"} /\ UNCHANGED <<keys, mounted>>
        /\ \E m \in {"empty", "key"} : marker' = [marker EXCEPT ![DATA_DIR] = m]
        /\ DATA_DIR' = DATA_DIR /\ DATA_DIR \in DOMAIN marker
        /\ pc = "write_marker" => marker[DATA_DIR] # "absent"
    BY <1>7 DEF OpenMarker, WriteMarker, SInv, SetupTypeOK, DATA_DIR, DataDirs, Checked
  <2>2. pc' # "open_marker" /\ faults' = faults
    BY <1>1, <1>7 DEF OpenMarker, WriteMarker, Do, Steps
  <2> QED
    BY <1>0, <2>1, <2>2 DEF Kept, Owed
<1>8. CASE Abort \/ Reboot
  <2>1. /\ UNCHANGED <<keys, marker>>
        /\ pc' = "idle" /\ faults' \in {faults, faults + 1}
        /\ pc # "idle" => faults' = faults + 1
        /\ UNCHANGED <<fstab, conf>> /\ (mounted' => mounted \/ "nvme" \in fstab)
    <3>1. CASE Abort
      BY <3>1 DEF Abort, Die, Faulty
    <3>2. CASE Reboot
      BY <3>2 DEF Reboot, Die, Faulty, run
    <3> QED
      BY <1>8, <3>1, <3>2
  <2>2. CASE pc = "open_marker"
    <3>1. marker[DATA_DIR] = "absent"
      BY <2>2 DEF SInv, Checked
    <3> QED
      BY <1>0, <2>1, <2>2, <3>1 DEF Forgotten, Owed
  <2>3. CASE pc # "open_marker"
    BY <2>1, <2>3, AccountsKept
  <2> QED
    BY <2>2, <2>3
<1> QED
  BY <1>3, <1>4, <1>5, <1>6, <1>7, <1>8
  DEF Next, Command, DiskCommand, DockerCommand

\* Two directories owe a key each at first; a fault may cost one more.
KInv == keys["nvme"] + keys["boot"] + keys["repo"] + Owed("nvme") + Owed("boot") <= 2 + faults

\* The numbers the keys are counted with.
LEMMA KeysType ==
  ASSUME SInv
  PROVE  /\ keys \in [DataDirs -> Nat] /\ DataDirs = {"nvme", "boot", "repo"}
         /\ keys["nvme"] \in Nat /\ keys["boot"] \in Nat /\ keys["repo"] \in Nat
         /\ Owed("nvme") \in {0, 1} /\ Owed("boot") \in {0, 1}
         /\ faults \in Nat
  BY SetupAssumption DEF SInv, SetupTypeOK, DataDirs, Owed

\* The count holds initially, and every step keeps it.
LEMMA CountKept ==
  /\ Init => KInv
  /\ SInv /\ SInv' /\ KInv /\ [Next]_vars => KInv'
<1>1. ASSUME Init PROVE KInv
  BY <1>1 DEF Init, KInv, Owed, DataDirs
<1>2. ASSUME SInv, SInv', KInv, [Next]_vars PROVE KInv'
  <2>1. stack \in DataDirs \/ pc # "mint"
    BY <1>2 DEF SInv, SetupTypeOK, RunAt, Up
  <2>2. DATA_DIR \in {"nvme", "boot"}
    BY DEF DATA_DIR
  <2>3. /\ keys \in [DataDirs -> Nat] /\ DataDirs = {"nvme", "boot", "repo"}
        /\ keys["nvme"] \in Nat /\ keys["boot"] \in Nat /\ keys["repo"] \in Nat
        /\ Owed("nvme") \in {0, 1} /\ Owed("boot") \in {0, 1} /\ faults \in Nat
    BY <1>2, KeysType
  <2>4. /\ Owed("nvme")' \in {0, 1} /\ Owed("boot")' \in {0, 1}
    BY DEF Owed
  <2>5. ASSUME keys' = [keys EXCEPT ![stack] = @ + 1], pc = "mint"
        PROVE  keys'["nvme"] + keys'["boot"] + keys'["repo"]
                 = keys["nvme"] + keys["boot"] + keys["repo"] + 1
    BY <2>1, <2>3, <2>5
  <2>6. CASE Kept
    BY <1>2, <2>3, <2>4, <2>6 DEF Kept, KInv
  <2>7. CASE Minted
    <3>1. /\ keys'["nvme"] + keys'["boot"] + keys'["repo"]
              = keys["nvme"] + keys["boot"] + keys["repo"] + 1
          /\ Owed("nvme")' + Owed("boot")' = Owed("nvme") + Owed("boot") - 1
      BY <2>2, <2>3, <2>4, <2>5, <2>7 DEF Minted
    <3> QED
      BY <1>2, <2>3, <2>4, <2>7, <3>1 DEF Minted, KInv
  <2>8. CASE Lost
    <3>1. /\ keys'["nvme"] + keys'["boot"] + keys'["repo"]
              = keys["nvme"] + keys["boot"] + keys["repo"] + 1
          /\ Owed("nvme")' + Owed("boot")' = Owed("nvme") + Owed("boot")
      BY <2>5, <2>8 DEF Lost
    <3> QED
      BY <1>2, <2>3, <2>4, <2>8, <3>1 DEF Lost, KInv
  <2>9. CASE Forgotten
    <3>1. keys' = keys /\ Owed("nvme")' + Owed("boot")' = Owed("nvme") + Owed("boot") + 1
      BY <2>2, <2>3, <2>4, <2>9 DEF Forgotten
    <3> QED
      BY <1>2, <2>3, <2>4, <2>9, <3>1 DEF Forgotten, KInv
  <2> QED
    BY <1>2, <2>6, <2>7, <2>8, <2>9, Accounts
<1> QED
  BY <1>1, <1>2

\* "Re-runs must not mint duplicates" (setup-jetson.sh): whatever is run, once a run is
\* over every key but one for each command that failed or power cut has a marker of its
\* own, and so there are at most two such keys.
THEOREM KeysAreFiled == Spec => []KeysFiled
<1>1. SInv /\ KInv => KeysFiled
  <2> SUFFICES ASSUME SInv, KInv, pc = "idle"
               PROVE  keys["nvme"] + keys["boot"] + keys["repo"]
                        <= Filed("nvme") + Filed("boot") + faults
    BY DEF KeysFiled
  <2>1. \A d \in {"nvme", "boot"} : Filed(d) = 1 - Owed(d)
    BY DEF Filed, Owed
  <2> QED
    BY <2>1, KeysType DEF KInv
<1> QED
  BY <1>1, CountKept, SInvariance, PTL DEF Spec
----------------------------------------------------------------------------
(* Runs without a fault, of any plans: what each step leaves behind stays, *)
(* and a full run has the steps behind it, one after another.              *)

\* .env is there, filled and readable, once it has been written; the containers are
\* started after that.
EnvDone ==
  /\ env = "torn" => pc = "write_env"
  /\ env \in Passwords /\ pc # "chown_env" => readable
  /\ pc \in {"up", "health", "marker", "mint", "open_marker", "write_marker"}
       => env # "absent"

\* The disk is mounted for good, ...
DiskDone ==
  /\ "nvme" \in fstab => mounted
  /\ mounted => "nvme" \in fstab \/ pc = "fstab_nvme"

\* ... the swap is on for good, ...
SwapDone == swapfile = "formatted" /\ swapon /\ fstab = {"nvme", "swap"}

\* ... or on its way.
SwapWay ==
  /\ pc \in SwapStep \ {"swap"} => mounted
  /\ pc = "fallocate" => swapfile = "absent"
  /\ pc \in {"swapon", "fstab_swap"} => swapfile = "formatted"
  /\ pc = "fstab_swap" => swapon
  /\ pc \in {"mkswap", "swapon", "fstab_swap"} \/ swapfile = "absent" \/ SwapDone

\* The containers have left the boot disk when docker has its data-root.
StackMoved ==
  /\ "data-root" \in conf => mounted /\ stack # "boot"
  /\ pc \in {"open_conf", "dump_conf", "start"} => stack = "off"

\* A marker is written as soon as it is opened.
MarkerWhole ==
  \A d \in {"nvme", "boot"} : marker[d] = "empty" => pc = "write_marker" /\ d = DATA_DIR

\* The keys of the two databases, by what is owed: the mounted disk's directory may
\* have had its key minted on the boot disk, where the containers were.
KeysPlaced ==
  \/ Owed("nvme") = 1 /\ keys["nvme"] = 0 /\ keys["boot"] + Owed("boot") = 1
  \/ Owed("nvme") = 0 /\ keys["nvme"] = 1 /\ keys["boot"] + Owed("boot") = 1
  \/ Owed("nvme") = 0 /\ keys["nvme"] = 0 /\ keys["boot"] = 2 /\ Owed("boot") = 0

\* The boot disk's directory has its key before containers run over it, or gets it in
\* the same step; so when the disk is mounted under them.
BootKeyed ==
  /\ stack = "boot" =>
       Owed("boot") = 0 \/ (~mounted /\ pc \in {"health", "marker", "mint"})
  /\ env \in Passwords /\ ~mounted =>
       Owed("boot") = 0 \/ pc \in {"chown_env", "up", "health", "marker", "mint"}

\* What a full run has behind it.
FullRunDone ==
  /\ plan = FullRun =>
       /\ pc \in DockerStep \cup DeployStep \cup ServiceStep => SwapDone
       /\ pc \in ServiceStep => stack = "nvme" /\ marker["nvme"] = "key"
  /\ completed = FullRun => SwapDone /\ stack = "nvme" /\ marker["nvme"] = "key"

Clean ==
  /\ EnvDone /\ DiskDone /\ SwapWay /\ StackMoved
  /\ MarkerWhole /\ KeysPlaced /\ BootKeyed
  /\ FullRunDone

CInv == faults = 0 => Clean

\* What does not happen without a fault, and where the end of a step leads.
LEMMA WithoutFault ==
  ASSUME SInv, CInv, [Next]_vars, faults' = 0
  PROVE  /\ faults = 0 /\ Clean
         /\ ~PassOver /\ ~NoKey /\ ~Abort /\ (Reboot => pc = "idle" /\ UNCHANGED run)
         /\ Kept \/ Minted
         /\ EndStep /\ pc # "idle" =>
              /\ plan' = plan /\ pc' \in Steps \cup {"idle"}
              /\ pc' = "idle" => completed' = plan
              /\ pc' # "idle" => completed' = completed
              /\ plan = FullRun => GoesOn
<1>1. faults \in Nat /\ faults' \in {faults, faults + 1}
  BY Accounts, KeysType DEF Kept, Minted, Lost, Forgotten
<1>2. faults = 0 /\ 0 # faults + 1
  BY <1>1
<1>3. ~PassOver /\ ~NoKey /\ ~Abort /\ (Reboot => pc = "idle" /\ UNCHANGED run)
  BY <1>2 DEF PassOver, NoKey, Faulty, Abort, Reboot
<1>4. Kept \/ Minted
  BY <1>2, Accounts DEF Lost, Forgotten
<1> QED
  BY <1>2, <1>3, <1>4, StepEnds DEF CInv

\* .env is written and given to the operator in one go.
LEMMA EnvDoneKept ==
  ASSUME SInv, CInv, [Next]_vars, faults' = 0
  PROVE  EnvDone'
<1> USE DEF disk
<1>0. \A q \in Passwords : q # "absent" /\ q # "torn"
  BY SetupAssumption
<1>1. EnvDone
  BY WithoutFault DEF Clean
<1>2. CASE OpenEnv \/ WriteEnv \/ ChownEnv
  BY <1>0, <1>1, <1>2 DEF OpenEnv, WriteEnv, ChownEnv, Do, EnvDone, SInv, EnvWritten
<1>3. CASE ~(OpenEnv \/ WriteEnv \/ ChownEnv)
  <2> DEFINE Later == {"up", "health", "marker", "mint", "open_marker", "write_marker"}
  <2>1. /\ UNCHANGED <<env, readable>>
        /\ pc \in {"write_env", "chown_env"} => pc' = pc
        /\ pc' \in Later => pc \in Later \/ env # "absent"
    <3>1. CASE DiskCommand \/ DockerCommand \/ EnableService
      <4>1. UNCHANGED <<env, readable>> /\ pc \notin {"idle", "write_env", "chown_env"}
            /\ (EndStep \/ (Do(pc') /\ pc' \notin Later))
        BY <3>1, WithoutFault
        DEF DiskCommand, CheckMount, Mount, PersistMount, CheckSwap, Fallocate, Mkswap,
           Swapon, PersistSwap, DockerCommand, CheckDaemon, WriteDaemon, RestartDocker,
           CheckDataRoot, StopDocker, OpenConf, DumpConf, StartDocker, EnableService, Do
      <4> QED
        BY <4>1, WithoutFault DEF Steps
    <3>2. CASE DeployCommand
      <4>1. EndStep /\ pc # "idle" => pc' \notin Later
        BY WithoutFault DEF Steps
      <4> QED
        BY <1>3, <3>2, <4>1 DEF DeployCommand, CheckEnv, ComposeUp, WaitHealthy, CheckMarker,
           MintKey, OpenMarker, WriteMarker, Do, Die
    <3>3. ASSUME NEW p \in Plans, StartRun(p)
          PROVE  UNCHANGED <<env, readable>> /\ pc = "idle" /\ pc' \notin Later
      BY <3>3, HeadTail, SetupAssumption DEF StartRun, Steps
    <3>4. CASE Reboot \/ UNCHANGED vars
      BY <3>4, WithoutFault DEF Reboot, vars, run
    <3> QED
      BY <3>1, <3>2, <3>3, <3>4, WithoutFault
      DEF Next, Command, DiskCommand, DockerCommand, DeployCommand
  <2> QED
    BY <1>1, <2>1 DEF EnvDone
<1> QED
  BY <1>2, <1>3

\* The disk is mounted and its line added in one go, and a reboot mounts it again.
LEMMA DiskDoneKept ==
  ASSUME SInv, CInv, [Next]_vars, faults' = 0
  PROVE  DiskDone' /\ (mounted => mounted')
<1> USE DEF disk, memory
<1>0. DiskDone /\ (pc = "fstab_nvme" => mounted)
  BY WithoutFault DEF Clean, SInv, Checked
<1>1. CASE Mount
  BY <1>0, <1>1 DEF Mount, Do, DiskDone
<1>2. CASE PersistMount
  BY <1>0, <1>2, WithoutFault DEF PersistMount, DiskDone
<1>3. CASE Reboot
  BY <1>0, <1>3, WithoutFault DEF Reboot, DiskDone
<1>4. CASE ~Mount /\ ~PersistMount /\ ~Reboot
  <2>1. /\ mounted' = mounted /\ ("nvme" \in fstab' <=> "nvme" \in fstab)
        /\ pc = "fstab_nvme" => pc' = pc
    <3>1. CASE DiskCommand \/ DockerCommand \/ EnableService
      BY <1>4, <3>1
      DEF DiskCommand, CheckMount, CheckSwap, Fallocate, Mkswap,
         Swapon, PersistSwap, DockerCommand, CheckDaemon, WriteDaemon, RestartDocker,
         CheckDataRoot, StopDocker, OpenConf, DumpConf, StartDocker, EnableService
    <3>2. CASE DeployCommand
      BY <3>2 DEF DeployCommand, CheckEnv, OpenEnv, WriteEnv, ChownEnv, ComposeUp,
         WaitHealthy, CheckMarker, MintKey, OpenMarker, WriteMarker
    <3>3. CASE (\E p \in Plans : StartRun(p)) \/ UNCHANGED vars
      BY <3>3 DEF StartRun, vars, run
    <3> QED
      BY <1>4, <3>1, <3>2, <3>3, WithoutFault
      DEF Next, Command, DiskCommand, DockerCommand, DeployCommand
  <2> QED
    BY <1>0, <2>1 DEF DiskDone
<1> QED
  BY <1>1, <1>2, <1>3, <1>4

\* The swap is made, switched on and persisted in one go, and a reboot switches it on.
LEMMA SwapWayKept ==
  ASSUME SInv, CInv, [Next]_vars, faults' = 0
  PROVE  SwapWay' /\ (SwapDone => SwapDone')
<1> USE DEF disk, memory
<1>0. /\ SwapWay /\ DiskDone /\ fstab \subseteq {"nvme", "swap"}
      /\ swapfile \in {"absent", "allocated", "formatted"}
  BY WithoutFault DEF Clean, SInv, SetupTypeOK
<1>1. EndStep /\ pc # "idle" => pc' \notin SwapStep \ {"swap"}
  BY WithoutFault DEF Steps, SwapStep
<1> USE DEF SwapStep, SwapDone, SwapWay
<1>2. CASE CheckMount \/ Mount \/ PersistMount
  <2>1. UNCHANGED <<swapfile, swapon>> /\ (fstab = {"nvme", "swap"} => fstab' = fstab)
        /\ pc \in {"nvme", "mount", "fstab_nvme"} /\ pc' \notin SwapStep \ {"swap"}
    BY <1>1, <1>2, WithoutFault DEF CheckMount, Mount, PersistMount, Do
  <2> QED
    BY <1>0, <2>1
<1>3. CASE CheckSwap
  BY <1>0, <1>1, <1>3 DEF CheckSwap, Do
<1>4. CASE Fallocate
  BY <1>0, <1>4 DEF Fallocate, Do
<1>5. CASE Mkswap \/ Swapon
  <2>1. ~SwapDone \/ pc = "swapon" \/ pc = "mkswap"
    BY <1>5 DEF Mkswap, Swapon
  <2> QED
    BY <1>0, <1>5, <2>1 DEF Mkswap, Swapon, Do
<1>6. CASE PersistSwap
  BY <1>0, <1>1, <1>6 DEF PersistSwap, DiskDone
<1>7. CASE DockerCommand \/ DeployCommand \/ EnableService
  <2>1. /\ UNCHANGED <<fstab, swapfile, mounted, swapon>>
        /\ pc \notin SwapStep /\ pc # "idle"
        /\ EndStep \/ pc' \notin SwapStep
    <3>1. CASE DockerCommand \/ EnableService
      BY <3>1
      DEF DockerCommand, CheckDaemon, WriteDaemon, RestartDocker,
         CheckDataRoot, StopDocker, OpenConf, DumpConf, StartDocker, EnableService, Do
    <3>2. CASE DeployCommand
      BY <3>2, WithoutFault DEF DeployCommand, CheckEnv, OpenEnv, WriteEnv, ChownEnv, ComposeUp,
         WaitHealthy, CheckMarker, MintKey, OpenMarker, WriteMarker, Do, Die
    <3> QED
      BY <1>7, <3>1, <3>2
  <2> QED
    BY <1>0, <1>1, <2>1
<1>8. ASSUME NEW p \in Plans, StartRun(p)
      PROVE  SwapWay' /\ (SwapDone => SwapDone')
  <2>1. UNCHANGED <<fstab, swapfile, mounted, swapon>> /\ pc = "idle" /\ pc' \in Steps
    BY <1>8, HeadTail, SetupAssumption DEF StartRun
  <2> QED
    BY <1>0, <2>1 DEF Steps
<1>9. CASE Reboot
  <2>1. /\ UNCHANGED <<fstab, swapfile>> /\ pc = "idle" /\ pc' = "idle"
        /\ swapon' = ({"nvme", "swap"} \subseteq fstab /\ swapfile = "formatted")
    BY <1>9, WithoutFault DEF Reboot, run
  <2> QED
    BY <1>0, <2>1
<1>10. CASE UNCHANGED vars
  BY <1>0, <1>10 DEF vars, run
<1> QED
  BY <1>2, <1>3, <1>4, <1>5, <1>6, <1>7, <1>8, <1>9, <1>10, WithoutFault
  DEF Next, Command, DockerCommand, DeployCommand

\* What the settings of docker, the containers and the markers have in common: only
\* these commands, and a reboot, change any of them.
Changes ==
  \/ WriteDaemon \/ RestartDocker \/ StopDocker \/ OpenConf \/ DumpConf
  \/ ComposeUp \/ MintKey \/ OpenMarker \/ WriteMarker \/ Reboot

\* The others leave them alone, and lead to no command that rests on them.
LEMMA OthersLeave ==
  ASSUME SInv, CInv, [Next]_vars, faults' = 0, ~Changes
  PROVE  /\ UNCHANGED <<conf, stack, given, keys, marker>>
         /\ \/ pc' \in Steps \cup NvmeStep \cup SwapStep \cup DeployStep
                       \cup {"idle", "daemon_json", "data_root", "stop"}
            \/ pc' = pc /\ mounted' = mounted
<1> USE DEF disk, memory, Changes
<1>1. CASE DiskCommand \/ CheckDaemon \/ CheckDataRoot \/ StartDocker \/ EnableService
  <2>1. /\ UNCHANGED <<conf, stack, given, keys, marker>> /\ pc # "idle"
        /\ \/ EndStep
           \/ Do(pc') /\ pc' \in NvmeStep \cup SwapStep \cup {"daemon_json", "data_root", "stop"}
    BY <1>1, WithoutFault
    DEF DiskCommand, CheckMount, Mount, PersistMount, CheckSwap, Fallocate, Mkswap, Swapon,
        PersistSwap, CheckDaemon, CheckDataRoot, StartDocker, EnableService, Do, NvmeStep,
        SwapStep
  <2> QED
    BY <2>1, WithoutFault
<1>2. CASE CheckEnv \/ OpenEnv \/ WriteEnv \/ ChownEnv \/ WaitHealthy \/ CheckMarker
  <2>1. /\ UNCHANGED <<conf, stack, given, keys, marker>> /\ pc # "idle"
        /\ EndStep \/ pc' \in DeployStep \cup {"idle"}
    BY <1>2 DEF CheckEnv, OpenEnv, WriteEnv, ChownEnv, WaitHealthy, CheckMarker, Do, Die,
       DeployStep
  <2> QED
    BY <2>1, WithoutFault
<1>3. ASSUME NEW p \in Plans, StartRun(p)
      PROVE  UNCHANGED <<conf, stack, given, keys, marker>> /\ pc' \in Steps
  BY <1>3, HeadTail, SetupAssumption DEF StartRun
<1>4. CASE UNCHANGED vars
  BY <1>4 DEF vars, run
<1> QED
  BY <1>1, <1>2, <1>3, <1>4, WithoutFault DEF Next, Command, DiskCommand

\* Containers are brought up over the boot disk only while no disk is mounted.
LEMMA BroughtWhere ==
  ASSUME NEW password, NEW onNvme \in BOOLEAN
  PROVE  /\ Bring(password, onNvme) => (stack' = "boot" => ~onNvme /\ password # "default")
         /\ Revive(onNvme) => (stack' = "boot" => ~onNvme /\ given # "default")
  BY DEF Bring, Revive, DataRoot

\* Docker is stopped before its data-root is set, and the disk stays.
LEMMA StackMovedKept ==
  ASSUME SInv, CInv, [Next]_vars, faults' = 0
  PROVE  StackMoved'
<1> USE DEF disk, memory
<1>0. /\ StackMoved /\ (mounted => mounted') /\ mounted \in BOOLEAN /\ mounted' \in BOOLEAN
      /\ pc \in {"dump_conf", "start"} => mounted
  BY WithoutFault, DiskDoneKept, NextSInv DEF Clean, SInv, SetupTypeOK, Checked
<1> USE DEF StackMoved
<1>1. CASE ~Changes
  BY <1>0, <1>1, OthersLeave DEF Steps, NvmeStep, SwapStep, DeployStep
<1>2. CASE WriteDaemon \/ StopDocker \/ OpenConf \/ DumpConf
  BY <1>0, <1>2 DEF WriteDaemon, StopDocker, OpenConf, DumpConf, Do
<1>3. CASE RestartDocker
  BY <1>0, <1>3, BroughtWhere DEF RestartDocker, Do
<1>4. CASE ComposeUp
  BY <1>0, <1>4, BroughtWhere DEF ComposeUp, Do
<1>5. CASE MintKey \/ OpenMarker \/ WriteMarker
  <2>1. UNCHANGED <<conf, stack, mounted>> /\ pc' \notin {"open_conf", "dump_conf", "start"}
    BY <1>5, WithoutFault DEF MintKey, OpenMarker, WriteMarker, Do, Steps
  <2> QED
    BY <1>0, <2>1
<1>6. CASE Reboot
  <2>1. conf' = conf /\ pc' = "idle"
    BY <1>6, WithoutFault DEF Reboot, run
  <2>2. stack' = "boot" => ~mounted'
    BY <1>0, <1>6, BroughtWhere DEF Reboot
  <2> QED
    BY <1>0, <2>1, <2>2
<1> QED
  BY <1>1, <1>2, <1>3, <1>4, <1>5, <1>6 DEF Changes

\* A marker is opened and written in one go.
LEMMA MarkerWholeKept ==
  ASSUME SInv, CInv, [Next]_vars, faults' = 0
  PROVE  MarkerWhole'
<1> USE DEF disk, memory
<1>0. /\ MarkerWhole /\ DATA_DIR \in {"nvme", "boot"}
      /\ marker \in [DataDirs -> {"absent", "empty", "key"}] /\ {"nvme", "boot"} \subseteq DataDirs
  BY WithoutFault DEF Clean, SInv, SetupTypeOK, DATA_DIR, DataDirs
<1>1. CASE OpenMarker
  <2>1. DATA_DIR' = DATA_DIR /\ pc = "open_marker" /\ pc' = "write_marker"
        /\ marker' = [marker EXCEPT ![DATA_DIR] = "empty"]
    BY <1>1 DEF OpenMarker, DATA_DIR, Do
  <2> QED
    BY <1>0, <2>1 DEF MarkerWhole
<1>2. CASE WriteMarker
  BY <1>0, <1>2 DEF WriteMarker, MarkerWhole
<1>3. CASE ~OpenMarker /\ ~WriteMarker
  <2>1. marker' = marker /\ (pc = "write_marker" => pc' = pc /\ DATA_DIR' = DATA_DIR)
    <3>1. CASE DiskCommand \/ DockerCommand \/ EnableService
      BY <3>1
      DEF DiskCommand, CheckMount, Mount, PersistMount, CheckSwap, Fallocate, Mkswap,
         Swapon, PersistSwap, DockerCommand, CheckDaemon, WriteDaemon, RestartDocker,
         CheckDataRoot, StopDocker, OpenConf, DumpConf, StartDocker, EnableService
    <3>2. CASE DeployCommand
      BY <1>3, <3>2 DEF DeployCommand, CheckEnv, OpenEnv, WriteEnv, ChownEnv, ComposeUp,
         WaitHealthy, CheckMarker, MintKey
    <3>3. CASE \E p \in Plans : StartRun(p)
      BY <3>3 DEF StartRun
    <3>4. CASE Reboot
      <4>1. pc = "idle" /\ marker' = marker
        BY <3>4, WithoutFault DEF Reboot
      <4> QED
        BY <4>1
    <3>5. CASE UNCHANGED vars
      BY <3>5 DEF vars, run, DATA_DIR
    <3> QED
      BY <3>1, <3>2, <3>3, <3>4, <3>5, WithoutFault
      DEF Next, Command, DiskCommand, DockerCommand, DeployCommand
  <2> QED
    BY <1>0, <2>1 DEF MarkerWhole
<1> QED
  BY <1>1, <1>2, <1>3

\* The containers that are up run over the database of .env's password.
LEMMA UpWhere ==
  ASSUME SInv, EnvDone, Up, env # "absent", pc # "write_env"
  PROVE  /\ env \in Passwords /\ given = env /\ given # "default"
         /\ stack = "boot" \/ (stack = "nvme" /\ mounted)
<1>0. \A p \in Passwords : p # "absent" /\ p # "torn" /\ p # "default"
  BY SetupAssumption
<1>1. /\ env \in Passwords \cup {"absent", "torn"} /\ stack \in DataDirs \cup {"off"}
      /\ stack # "off" /\ given = PasswordOf(env) /\ db[stack] = given
      /\ stack = "nvme" => mounted
  BY DEF SInv, SetupTypeOK, Up, StackOpens
<1>2. env \in Passwords /\ given = env /\ given # "default"
  BY <1>0, <1>1 DEF EnvDone, PasswordOf
<1>3. stack # "repo"
  BY <1>0, <1>1, <1>2 DEF SInv, DbPasswordKept
<1> QED
  BY <1>1, <1>2, <1>3 DEF DataDirs

\* A key is minted for the directory that owes it, in the database that has none for
\* it: the boot disk's before that disk is hidden.
LEMMA KeysPlacedKept ==
  ASSUME SInv, CInv, [Next]_vars, faults' = 0
  PROVE  KeysPlaced'
<1>0. /\ KeysPlaced /\ BootKeyed /\ EnvDone
      /\ keys \in [DataDirs -> Nat] /\ DataDirs = {"nvme", "boot", "repo"}
      /\ Owed("nvme") \in {0, 1} /\ Owed("boot") \in {0, 1}
      /\ Owed("nvme")' \in {0, 1} /\ Owed("boot")' \in {0, 1}
  BY WithoutFault, KeysType DEF Clean, Owed
<1>1. CASE Kept
  BY <1>0, <1>1 DEF Kept, KeysPlaced
<1>2. CASE Minted
  <2>1. /\ pc = "mint" /\ keys' = [keys EXCEPT ![stack] = @ + 1]
        /\ Up /\ env # "absent"
    BY <1>0, <1>2 DEF Minted, SInv, RunAt, EnvDone
  <2>2. stack = "boot" \/ (stack = "nvme" /\ mounted)
    BY <1>0, <2>1, UpWhere
  <2>3. CASE mounted
    <3>1. Owed("nvme") = 1 /\ Owed("nvme")' = 0 /\ Owed("boot")' = Owed("boot")
      BY <1>2, <2>3 DEF Minted, DATA_DIR
    <3>2. keys["nvme"] = 0 /\ keys["boot"] + Owed("boot") = 1
      BY <1>0, <3>1 DEF KeysPlaced
    <3>3. CASE stack = "nvme"
      <4>1. keys'["nvme"] = 1 /\ keys'["boot"] = keys["boot"]
        BY <1>0, <2>1, <3>2, <3>3
      <4> QED
        BY <3>1, <3>2, <4>1 DEF KeysPlaced
    <3>4. CASE stack = "boot"
      <4>1. Owed("boot") = 0
        BY <1>0, <2>3, <3>4 DEF BootKeyed
      <4>2. keys'["nvme"] = 0 /\ keys'["boot"] = 2
        BY <1>0, <2>1, <3>2, <3>4, <4>1
      <4> QED
        BY <3>1, <4>1, <4>2 DEF KeysPlaced
    <3> QED
      BY <2>2, <3>3, <3>4
  <2>4. CASE ~mounted
    <3>1. Owed("boot") = 1 /\ Owed("boot")' = 0 /\ Owed("nvme")' = Owed("nvme")
      BY <1>2, <2>4 DEF Minted, DATA_DIR
    <3>2. stack = "boot" /\ keys["boot"] = 0
      BY <1>0, <2>2, <2>4, <3>1 DEF KeysPlaced
    <3>3. keys'["nvme"] = keys["nvme"] /\ keys'["boot"] = 1
      BY <1>0, <2>1, <3>2
    <3> QED
      BY <1>0, <3>1, <3>2, <3>3 DEF KeysPlaced
  <2> QED
    BY <2>3, <2>4
<1> QED
  BY <1>1, <1>2, WithoutFault

\* From .env to the key of the boot disk's directory, one command follows another.
LEMMA KeyComes ==
  ASSUME SInv, CInv, [Next]_vars, faults' = 0, ~mounted,
         pc \in {"chown_env", "up", "health", "marker", "mint"}
  PROVE  \/ Owed("boot")' = 0
         \/ pc' \in {"chown_env", "up", "health", "marker", "mint"}
            /\ (pc \in {"health", "marker", "mint"} => pc' \in {"health", "marker", "mint"})
<1>0. DATA_DIR = "boot"
  BY DEF DATA_DIR
<1>1. CASE ChownEnv \/ ComposeUp
  BY <1>1 DEF ChownEnv, ComposeUp, Do
<1>2. CASE WaitHealthy
  <2>1. db[stack] = given
    BY <1>2 DEF WaitHealthy, SInv, RunAt, Up, StackOpens
  <2> QED
    BY <1>2, <2>1 DEF WaitHealthy, Do
<1>3. CASE CheckMarker
  <2>1. CASE marker["boot"] = "absent"
    BY <1>0, <1>3, <2>1 DEF CheckMarker, Do
  <2>2. CASE marker["boot"] # "absent"
    BY <1>3, <2>2 DEF CheckMarker, Owed, disk
  <2> QED
    BY <2>1, <2>2
<1>4. CASE MintKey
  <2>1. Do("open_marker") /\ marker' = marker /\ mounted' = mounted
    BY <1>4, WithoutFault DEF MintKey, memory
  <2> QED
    BY <2>1 DEF Do, Owed, DATA_DIR
<1>5. CASE UNCHANGED vars
  BY <1>5 DEF vars, run
<1>6. ChownEnv \/ ComposeUp \/ WaitHealthy \/ CheckMarker \/ MintKey \/ UNCHANGED vars
  BY WithoutFault
  DEF Next, Command, StartRun, CheckMount, Mount, PersistMount, CheckSwap, Fallocate, Mkswap,
      Swapon, PersistSwap, CheckDaemon, WriteDaemon, RestartDocker, CheckDataRoot,
      StopDocker, OpenConf, DumpConf, StartDocker, CheckEnv, OpenEnv, WriteEnv,
      OpenMarker, WriteMarker, EnableService
<1> QED
  BY <1>1, <1>2, <1>3, <1>4, <1>5, <1>6

\* .env is written by two commands.
LEMMA EnvChanges ==
  ASSUME SInv, CInv, [Next]_vars, faults' = 0, env' # env
  PROVE  OpenEnv \/ WriteEnv
<1> USE DEF disk, vars
<1> QED
  BY WithoutFault
  DEF Next, Command, CheckMount, Mount, PersistMount, CheckSwap, Fallocate, Mkswap, Swapon,
      PersistSwap, CheckDaemon, WriteDaemon, RestartDocker, CheckDataRoot, StopDocker,
      OpenConf, DumpConf, StartDocker, CheckEnv, ChownEnv, ComposeUp, WaitHealthy,
      CheckMarker, MintKey, OpenMarker, WriteMarker, EnableService, StartRun, Reboot

\* Containers that run afterwards, and the disk, are as before, but for four commands.
LEMMA StackChanges ==
  ASSUME SInv, CInv, [Next]_vars, faults' = 0,
         ~Mount, ~RestartDocker, ~Reboot, ~ComposeUp, stack' # "off"
  PROVE  stack' = stack /\ mounted' = mounted
<1> USE DEF memory, vars
<1> QED
  BY WithoutFault
  DEF Next, Command, CheckMount, PersistMount, CheckSwap, Fallocate, Mkswap, Swapon,
      PersistSwap, CheckDaemon, WriteDaemon, CheckDataRoot, StopDocker,
      OpenConf, DumpConf, StartDocker, CheckEnv, OpenEnv, WriteEnv, ChownEnv, WaitHealthy,
      CheckMarker, MintKey, OpenMarker, WriteMarker, EnableService, StartRun

\* What is not owed stays so.
LEMMA StaysKeyed ==
  ASSUME SInv, CInv, [Next]_vars, faults' = 0
  PROVE  Owed("boot") = 0 => Owed("boot")' = 0
  BY WithoutFault DEF Kept, Minted

\* No container comes to run over the boot disk before its directory has a key, but
\* in the step that mints it.
LEMMA BootKeyedKept ==
  ASSUME SInv, CInv, [Next]_vars, faults' = 0
  PROVE  BootKeyed'
<1> USE DEF disk, memory
<1>0. /\ BootKeyed /\ EnvDone /\ DiskDone /\ (mounted => mounted')
      /\ mounted \in BOOLEAN /\ mounted' \in BOOLEAN /\ given \in Passwords \cup {"default"}
      /\ given # "default" => given = env
      /\ \A p \in Passwords : p # "default"
  BY WithoutFault, DiskDoneKept, NextSInv, SetupAssumption
  DEF Clean, SInv, SetupTypeOK, StackOpens
<1>1. SUFFICES ASSUME Owed("boot")' # 0, Owed("boot") # 0
               PROVE  /\ stack' = "boot" => ~mounted' /\ pc' \in {"health", "marker", "mint"}
                      /\ env' \in Passwords /\ ~mounted' =>
                           pc' \in {"chown_env", "up", "health", "marker", "mint"}
  BY StaysKeyed DEF BootKeyed
<1>2. ASSUME env' \in Passwords, ~mounted'
      PROVE  pc' \in {"chown_env", "up", "health", "marker", "mint"}
  <2>1. CASE env' = env
    <3>1. pc \in {"chown_env", "up", "health", "marker", "mint"} /\ ~mounted
      BY <1>0, <1>1, <1>2, <2>1 DEF BootKeyed
    <3> QED
      BY <1>1, <3>1, KeyComes
  <2>2. CASE WriteEnv
    BY <2>2 DEF WriteEnv, Do
  <2>3. CASE env' # env /\ ~WriteEnv
    <3>1. OpenEnv
      BY <2>3, EnvChanges
    <3>2. env' \notin Passwords
      BY <3>1, SetupAssumption DEF OpenEnv
    <3> QED
      BY <1>2, <3>2
  <2> QED
    BY <2>1, <2>2, <2>3
<1>3. ASSUME stack' = "boot"
      PROVE  ~mounted' /\ pc' \in {"health", "marker", "mint"}
  <2>1. CASE stack = "boot" /\ UNCHANGED mounted
    <3>1. ~mounted /\ pc \in {"health", "marker", "mint"}
      BY <1>0, <1>1, <2>1 DEF BootKeyed
    <3> QED
      BY <1>1, <2>1, <3>1, KeyComes
  <2>2. CASE ComposeUp
    <3>1. /\ pc = "up" /\ pc' = "health" /\ mounted' = mounted
          /\ stack' = stack \/ Bring(PasswordOf(env), mounted)
      BY <2>2 DEF ComposeUp, Do
    <3>2. stack' = stack => FALSE
      BY <1>0, <1>1, <1>3, <3>1 DEF BootKeyed
    <3> QED
      BY <1>0, <1>3, <3>1, <3>2, BroughtWhere
  <2>3. CASE RestartDocker \/ Reboot
    <3>1. pc \in {"restart", "idle"} /\ mounted' = mounted
      BY <1>0, <2>3, WithoutFault DEF RestartDocker, Reboot, DiskDone
    <3>2. /\ Bring(PasswordOf(env), mounted') \/ Revive(mounted')
      BY <2>3, <3>1 DEF RestartDocker, Reboot
    <3>3. ~mounted' /\ (PasswordOf(env) # "default" \/ given # "default")
      BY <1>0, <1>3, <3>2, BroughtWhere
    <3>4. env \in Passwords
      BY <1>0, <3>3 DEF PasswordOf
    <3> QED
      BY <1>0, <1>1, <3>1, <3>3, <3>4 DEF BootKeyed
  <2>4. CASE Mount
    <3>1. stack = "boot" /\ pc = "mount"
      BY <1>3, <2>4 DEF Mount
    <3> QED
      BY <1>0, <1>1, <3>1 DEF BootKeyed
  <2>5. CASE ~Mount /\ ~RestartDocker /\ ~Reboot /\ ~ComposeUp
    BY <1>3, <2>1, <2>5, StackChanges
  <2> QED
    BY <2>2, <2>3, <2>4, <2>5
<1> QED
  BY <1>2, <1>3

\* What a full run has done stays done.
LEMMA FullRunDoneKept ==
  ASSUME SInv, CInv, [Next]_vars, faults' = 0
  PROVE  FullRunDone'
<1> USE DEF disk, memory
<1>0. /\ FullRunDone /\ SwapWay /\ SwapWay' /\ (SwapDone => SwapDone') /\ EnvDone
      /\ MarkerWhole /\ StackMoved
      /\ FullRun # <<>> /\ (pc # "idle" => completed = <<>>)
  BY WithoutFault, SwapWayKept, SetupAssumption DEF Clean, SInv, RunAt
<1> USE DEF NvmeStep, SwapStep, DockerStep, DeployStep, ServiceStep
<1>1. ASSUME pc # "idle", plan' = plan, completed' = completed, pc' \notin ServiceStep,
             plan = FullRun => pc' \notin DockerStep \cup DeployStep
                               \/ pc \in DockerStep \cup DeployStep
      PROVE  FullRunDone'
  BY <1>0, <1>1 DEF FullRunDone
<1>2. ASSUME pc # "idle", EndStep PROVE plan # FullRun => FullRunDone'
  BY <1>0, <1>2, WithoutFault DEF FullRunDone
<1>3. CASE DiskCommand
  <2>1. CASE EndStep
    <3>1. SUFFICES ASSUME plan = FullRun PROVE FullRunDone'
      BY <1>2, <1>3, <2>1 DEF DiskCommand, CheckMount, CheckSwap, PersistMount, PersistSwap,
         Mount, Fallocate, Mkswap, Swapon
    <3>2. pc # "idle" /\ plan' = plan /\ GoesOn /\ completed = <<>>
          /\ (pc' = "idle" => completed' = plan) /\ (pc' # "idle" => completed' = completed)
      BY <1>0, <1>3, <2>1, <3>1, WithoutFault DEF DiskCommand, CheckMount, CheckSwap,
         PersistMount, PersistSwap, Mount, Fallocate, Mkswap, Swapon
    <3>3. CASE pc \in NvmeStep
      BY <1>0, <3>1, <3>2, <3>3 DEF FullRunDone, GoesOn
    <3>4. CASE CheckSwap
      <4>1. mounted /\ pc = "swap"
        BY <3>1, <3>4 DEF CheckSwap, SInv, RunAt
      <4>2. swapfile # "absent" /\ UNCHANGED <<swapfile, swapon, fstab>> /\ pc' = "docker"
        BY <2>1, <3>2, <3>4, <4>1 DEF CheckSwap, GoesOn, Do
      <4>3. SwapDone'
        BY <1>0, <4>1, <4>2 DEF SwapWay
      <4> QED
        BY <1>0, <3>1, <3>2, <4>2, <4>3 DEF FullRunDone
    <3>5. CASE PersistSwap
      <4>1. pc = "fstab_swap" /\ swapfile' = swapfile /\ pc' = "docker"
        BY <3>2, <3>5 DEF PersistSwap, GoesOn
      <4>2. SwapDone'
        BY <1>0, <4>1 DEF SwapWay
      <4> QED
        BY <1>0, <3>1, <3>2, <4>1, <4>2 DEF FullRunDone
    <3> QED
      BY <1>3, <2>1, <3>2, <3>3, <3>4, <3>5
      DEF DiskCommand, CheckMount, Mount, PersistMount, Fallocate, Mkswap, Swapon, Do, GoesOn
  <2>2. CASE ~EndStep
    BY <1>1, <1>3, <2>2, WithoutFault DEF DiskCommand, CheckMount, Mount, PersistMount,
       CheckSwap, Fallocate, Mkswap, Swapon, PersistSwap, Do
  <2> QED
    BY <2>1, <2>2
<1>4. CASE DockerCommand
  <2>1. pc \in DockerStep /\ marker' = marker /\ (EndStep \/ (Do(pc') /\ pc' \in DockerStep))
    BY <1>4 DEF DockerCommand, CheckDaemon, WriteDaemon, RestartDocker,
       CheckDataRoot, StopDocker, OpenConf, DumpConf, StartDocker, Do
  <2>2. CASE EndStep
    <3>1. plan = FullRun => pc' = "deploy" /\ plan' = plan /\ completed' = completed
      BY <2>1, <2>2, WithoutFault DEF GoesOn
    <3> QED
      BY <1>0, <1>1, <1>2, <2>1, <2>2, <3>1
  <2>3. CASE Do(pc') /\ pc' \in DockerStep
    BY <1>1, <2>1, <2>3 DEF Do
  <2> QED
    BY <2>1, <2>2, <2>3
<1>5. CASE DeployCommand
  <2>1. CASE EndStep
    <3>1. SUFFICES ASSUME plan = FullRun PROVE FullRunDone'
      BY <1>2, <1>5, <2>1 DEF DeployCommand, CheckEnv, OpenEnv, WriteEnv, ChownEnv, ComposeUp,
         WaitHealthy, CheckMarker, MintKey, OpenMarker, WriteMarker
    <3>2. /\ pc \in {"marker", "write_marker"} /\ UNCHANGED <<stack, fstab, swapfile, swapon>>
          /\ CheckMarker \/ WriteMarker
      BY <1>5, <2>1, <3>1, WithoutFault DEF DeployCommand, CheckEnv, OpenEnv, WriteEnv, ChownEnv,
         ComposeUp, WaitHealthy, CheckMarker, MintKey, OpenMarker, WriteMarker, Do, Die, GoesOn
    <3>3. plan' = plan /\ pc' = "service" /\ completed' = <<>>
      BY <1>0, <2>1, <3>1, <3>2, WithoutFault DEF GoesOn
    <3>4. mounted /\ "data-root" \in conf
      BY <3>1, <3>2 DEF SInv, RunAt, DaemonKeys
    <3>5. stack' = "nvme"
      <4>1. Up /\ env # "absent" /\ stack # "boot"
        BY <1>0, <3>2, <3>4 DEF SInv, RunAt, EnvDone, StackMoved
      <4> QED
        BY <1>0, <3>2, <4>1, UpWhere
    <3>6. marker'["nvme"] = "key"
      <4>1. DATA_DIR = "nvme" /\ "nvme" \in DataDirs
            /\ marker \in [DataDirs -> {"absent", "empty", "key"}]
        BY <3>4 DEF DATA_DIR, SInv, SetupTypeOK, DataDirs
      <4>2. CASE CheckMarker
        <5>1. marker' = marker /\ pc = "marker" /\ marker["nvme"] # "absent"
          BY <3>3, <4>1, <4>2 DEF CheckMarker, Do
        <5> QED
          BY <1>0, <4>1, <5>1 DEF MarkerWhole
      <4>3. CASE WriteMarker
        BY <4>1, <4>3 DEF WriteMarker
      <4> QED
        BY <3>2, <4>2, <4>3
    <3>7. SwapDone'
      BY <1>0, <3>1, <3>2 DEF FullRunDone
    <3> QED
      BY <1>0, <3>3, <3>5, <3>6, <3>7 DEF FullRunDone
  <2>2. CASE ~EndStep
    <3>1. /\ pc \in DeployStep /\ plan' = plan /\ completed' = completed
          /\ pc' \in DeployStep \cup {"idle"}
      BY <1>5, <2>2, WithoutFault DEF DeployCommand, CheckEnv, OpenEnv, WriteEnv, ChownEnv,
         ComposeUp, WaitHealthy, CheckMarker, MintKey, OpenMarker, WriteMarker, Do, Die
    <3> QED
      BY <1>1, <3>1
  <2> QED
    BY <2>1, <2>2
<1>6. CASE EnableService
  <2>1. pc = "service" /\ EndStep /\ UNCHANGED <<stack, marker>>
    BY <1>6 DEF EnableService
  <2>2. plan = FullRun => pc' = "idle" /\ plan' = plan
    BY <2>1, WithoutFault DEF GoesOn
  <2> QED
    BY <1>0, <1>2, <2>1, <2>2 DEF FullRunDone
<1>7. ASSUME NEW p \in Plans, StartRun(p) PROVE FullRunDone'
  <2>1. plan' = p /\ completed' = <<>> /\ (p = FullRun => pc' = "nvme")
    BY <1>7, FullRunSteps DEF StartRun
  <2> QED
    BY <1>0, <2>1 DEF FullRunDone
<1>8. CASE Reboot
  <2>1. pc' = "idle" /\ completed' = completed /\ UNCHANGED <<fstab, env, marker, service>>
        /\ mounted' = ("nvme" \in fstab)
    BY <1>8, WithoutFault DEF Reboot, run
  <2>2. ASSUME completed = FullRun PROVE stack' = "nvme"
    <3>1. /\ Up /\ service /\ stack = "nvme" /\ "nvme" \in fstab /\ pc = "idle"
      BY <1>0, <1>8, <2>2, WithoutFault DEF FullRunDone, SwapDone, SInv, RunAt
    <3>2. env # "absent"
      <4>1. db["nvme"] = given /\ given # "absent" /\ db["nvme"] = env
        BY <3>1, SetupAssumption
        DEF SInv, StackOpens, DbPasswordKept, SetupTypeOK, DataDirs
      <4> QED
        BY <4>1
    <3>3. PasswordOf(env) = given /\ given # "default"
      BY <1>0, <3>1, <3>2, UpWhere DEF Up
    <3>4. Bring(PasswordOf(env), TRUE)
      BY <1>8, <2>1, <3>1 DEF Reboot
    <3> QED
      BY <3>3, <3>4 DEF Bring, DataRoot
  <2> QED
    BY <1>0, <2>1, <2>2 DEF FullRunDone
<1>9. CASE UNCHANGED vars
  BY <1>0, <1>9 DEF vars, run, FullRunDone
<1> QED
  BY <1>3, <1>4, <1>5, <1>6, <1>7, <1>8, <1>9, WithoutFault
  DEF Next, Command, DiskCommand, DockerCommand, DeployCommand

\* The invariant of runs without a fault holds initially, and every step keeps it.
LEMMA CleanKept ==
  /\ Init => CInv
  /\ SInv /\ CInv /\ [Next]_vars => CInv'
<1>1. ASSUME Init PROVE CInv
  <2>1. FullRun # <<>> /\ \A p \in Passwords : p # "absent" /\ p # "torn"
    BY SetupAssumption
  <2>2. EnvDone /\ DiskDone /\ SwapWay /\ StackMoved
    BY <1>1, <2>1 DEF Init, EnvDone, DiskDone, SwapWay, StackMoved, SwapStep
  <2>3. MarkerWhole /\ KeysPlaced /\ BootKeyed /\ FullRunDone
    BY <1>1, <2>1 DEF Init, MarkerWhole, KeysPlaced, BootKeyed, FullRunDone, Owed, DataDirs
  <2> QED
    BY <2>2, <2>3 DEF CInv, Clean
<1>2. ASSUME SInv, CInv, [Next]_vars, faults' = 0
      PROVE  Clean'
  BY <1>2, EnvDoneKept, DiskDoneKept, SwapWayKept, StackMovedKept, MarkerWholeKept,
     KeysPlacedKept, BootKeyedKept, FullRunDoneKept DEF Clean
<1> QED
  BY <1>1, <1>2 DEF CInv

\* As long as no command has failed, whatever steps are run by name, a full run that
\* came to its end has left everything in place, and every later run and reboot leaves
\* it so (setup-jetson.sh: "Every step is idempotent").
THEOREM CleanRunsInstall == Spec => []CleanRunInstalls
<1>1. SInv /\ CInv => CleanRunInstalls
  <2> SUFFICES ASSUME SInv, CInv, faults = 0, completed = FullRun
               PROVE  InPlace /\ (keys["nvme"] = 1 \/ keys["boot"] = 2)
    BY DEF CleanRunInstalls
  <2>1. /\ Clean /\ SwapDone /\ stack = "nvme" /\ marker["nvme"] = "key"
        /\ Up /\ service /\ conf = DaemonKeys /\ pc = "idle"
    BY SetupAssumption DEF CInv, Clean, FullRunDone, SInv, RunAt
  <2>2. mounted /\ dockerUp /\ loaded = DaemonKeys
    BY <2>1 DEF Clean, DiskDone, SwapDone, SInv, Up, DockerLoaded
  <2>3. env \in Passwords /\ readable
    <3>1. env # "absent"
      BY <2>1, SetupAssumption DEF SInv, Up, StackOpens, DbPasswordKept, SetupTypeOK, DataDirs
    <3>2. env \in Passwords
      BY <2>1, <3>1, UpWhere DEF Clean
    <3> QED
      BY <2>1, <3>2 DEF Clean, EnvDone
  <2>4. keys["nvme"] = 1 \/ keys["boot"] = 2
    <3>1. Owed("nvme") = 0
      BY <2>1 DEF Owed
    <3> QED
      BY <2>1, <3>1 DEF Clean, KeysPlaced
  <2> QED
    BY <2>1, <2>2, <2>3, <2>4 DEF InPlace, SwapDone
<1> QED
  BY <1>1, CleanKept, SInvariance, PTL DEF Spec
=============================================================================
