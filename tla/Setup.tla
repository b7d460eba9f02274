------------------------------- MODULE Setup -------------------------------
(***************************************************************************)
(* setup-jetson.sh: the steps that put the server on a board and keep it   *)
(* there (nvme, swap, docker, deploy, service), command by command.  Any   *)
(* command can be the last one: the script ends at the first that fails    *)
(* (set -e), or the power goes.  The way back is to run it again, which is *)
(* why every step looks at what it finds before it acts; a power cut also  *)
(* loses what was not made persistent.                                     *)
(*                                                                         *)
(* The board has a formatted NVMe disk.  Package downloads, power modes,   *)
(* the desktop, zram, Tailscale and the destructive steps are left out, as *)
(* is a dry run, which changes nothing.                                    *)
(***************************************************************************)
EXTENDS Naturals, Sequences, FiniteSets

CONSTANTS
  FullRun,    \* the default steps, in order
  Plans,      \* the runs an operator starts: FullRun, or steps by name
  Passwords,  \* what `openssl rand` may return
  MaxFaults   \* bound: commands that fail, and power cuts within a run

Steps == {"nvme", "swap", "docker", "deploy", "service"}

ASSUME SetupAssumption ==
  /\ FullRun = <<"nvme", "swap", "docker", "deploy", "service">>
  /\ FullRun \in Plans /\ Plans \subseteq Seq(Steps) /\ <<>> \notin Plans
  /\ Passwords # {} /\ Passwords \cap {"absent", "torn", "default"} = {}
  /\ MaxFaults \in Nat

VARIABLES
  \* on disk
  fstab,      \* the entries the script has added
  swapfile,   \* "absent", "allocated" (fallocate) or "formatted" (mkswap)
  conf,       \* the keys of /etc/docker/daemon.json; {} if it does not parse
  env,        \* the password in .env; "torn" if the file is there but empty
  readable,   \* .env was given to the operator (chmod, chown)
  db,         \* per data directory: the password its database was made with
  keys,       \* per data directory: the admin keys in its database
  marker,     \* per data directory: .admin-key-created
  service,    \* jetsonapi.service is enabled
  \* gone with the power
  mounted,    \* the NVMe disk is on $NVME_MOUNT
  swapon,
  dockerUp,
  loaded,     \* the keys of daemon.json the running docker has read
  stack,      \* the data directory the containers use, or "off"
  given,      \* the password the containers were made with
  \* the run
  todo,       \* the steps that follow the current one
  pc,         \* the next command, or "idle"
  plan,       \* the steps of the run; <<>> after a failure it passed over
  completed,  \* history: the plan of the last run, if it came to its end
  faults

disk == <<fstab, swapfile, conf, env, readable, db, keys, marker, service>>
memory == <<mounted, swapon, dockerUp, loaded, stack, given>>
run == <<todo, pc, plan, completed>>
vars == <<disk, memory, run, faults>>

\* $DATA_DIR is below $NVME_MOUNT, on whatever is mounted there; without a
\* DATA_ROOT the containers use ./data beside docker-compose.yml.
DataDirs == {"nvme", "boot", "repo"}
DATA_DIR == IF mounted THEN "nvme" ELSE "boot"

DaemonKeys == {"nvidia", "data-root"}

\* The commands of each step, the first one named like the step.
NvmeStep == {"nvme", "mount", "fstab_nvme"}
SwapStep == {"swap", "fallocate", "mkswap", "swapon", "fstab_swap"}
DockerStep == {"docker", "daemon_json", "restart", "data_root", "stop", "open_conf",
               "dump_conf", "start"}
DeployStep == {"deploy", "open_env", "write_env", "chown_env", "up", "health", "marker",
               "mint", "open_marker", "write_marker"}
ServiceStep == {"service"}

SetupTypeOK ==
  /\ fstab \subseteq {"nvme", "swap"}
  /\ swapfile \in {"absent", "allocated", "formatted"}
  /\ conf \subseteq DaemonKeys
  /\ env \in Passwords \cup {"absent", "torn"}
  /\ db \in [DataDirs -> Passwords \cup {"absent", "default"}]
  /\ keys \in [DataDirs -> Nat]
  /\ marker \in [DataDirs -> {"absent", "empty", "key"}]
  /\ {readable, service, mounted, swapon, dockerUp} \subseteq BOOLEAN
  /\ loaded \subseteq DaemonKeys
  /\ stack \in DataDirs \cup {"off"} /\ given \in Passwords \cup {"default"}
  /\ todo \in Seq(Steps)
  /\ pc \in {"idle"} \cup NvmeStep \cup SwapStep \cup DockerStep \cup DeployStep
            \cup ServiceStep
  /\ plan \in Plans \cup {<<>>} /\ completed \in Plans \cup {<<>>}
  /\ faults \in 0..MaxFaults

Init ==
  /\ fstab = {} /\ swapfile = "absent" /\ conf = {}
  /\ env = "absent" /\ readable = FALSE
  /\ db = [d \in DataDirs |-> "absent"]
  /\ keys = [d \in DataDirs |-> 0]
  /\ marker = [d \in DataDirs |-> "absent"]
  /\ service = FALSE
  /\ mounted = FALSE /\ swapon = FALSE
  /\ dockerUp = TRUE /\ loaded = {} /\ stack = "off" /\ given = "default"
  /\ todo = <<>> /\ pc = "idle" /\ plan = <<>> /\ completed = <<>>
  /\ faults = 0

----------------------------------------------------------------------------
(* A run: `for s in "${steps[@]}"`, under the lock, so one at a time.      *)

StartRun(p) ==
  /\ pc = "idle"
  /\ todo' = Tail(p) /\ pc' = Head(p) /\ plan' = p /\ completed' = <<>>
  /\ UNCHANGED <<disk, memory, faults>>

Do(command) == pc' = command /\ UNCHANGED <<todo, plan, completed, faults>>

\* The step is over: the next one, or the summary.
EndStep ==
  /\ IF todo = <<>>
       THEN pc' = "idle" /\ completed' = plan /\ UNCHANGED todo
       ELSE pc' = Head(todo) /\ todo' = Tail(todo) /\ UNCHANGED completed
  /\ UNCHANGED <<plan, faults>>

Die == pc' = "idle" /\ todo' = <<>> /\ UNCHANGED <<plan, completed>>

Faulty == faults < MaxFaults /\ faults' = faults + 1

\* A command fails and the script with it, or the operator stops it.
Abort ==
  /\ pc # "idle"
  /\ Faulty
  /\ Die
  /\ UNCHANGED <<disk, memory>>

\* A command fails and the step goes on with a warning.
PassOver ==
  /\ Faulty
  /\ plan' = <<>>
  /\ IF todo = <<>>
       THEN pc' = "idle" /\ UNCHANGED <<todo, completed>>
       ELSE pc' = Head(todo) /\ todo' = Tail(todo) /\ UNCHANGED completed

----------------------------------------------------------------------------
(* step_nvme, step_swap.                                                   *)

CheckMount ==
  /\ pc = "nvme"
  /\ IF mounted THEN EndStep ELSE Do("mount")
  /\ UNCHANGED <<disk, memory>>

Mount ==
  /\ pc = "mount"
  /\ mounted' = TRUE
  /\ Do("fstab_nvme")
  /\ UNCHANGED <<disk, swapon, dockerUp, loaded, stack, given>>

\* An fstab line is added once; without a UUID from blkid, not at all.
PersistMount ==
  /\ pc = "fstab_nvme"
  /\ \/ fstab' = fstab \cup {"nvme"} /\ EndStep
     \/ UNCHANGED fstab /\ PassOver
  /\ UNCHANGED <<swapfile, conf, env, readable, db, keys, marker, service, memory>>

CheckSwap ==
  /\ pc = "swap"
  /\ IF ~mounted \/ swapfile # "absent" THEN EndStep ELSE Do("fallocate")
  /\ UNCHANGED <<disk, memory>>

Fallocate ==
  /\ pc = "fallocate"
  /\ swapfile' = "allocated"
  /\ Do("mkswap")
  /\ UNCHANGED <<fstab, conf, env, readable, db, keys, marker, service, memory>>

Mkswap ==
  /\ pc = "mkswap"
  /\ swapfile' = "formatted"
  /\ Do("swapon")
  /\ UNCHANGED <<fstab, conf, env, readable, db, keys, marker, service, memory>>

\* Mutant: the swap is switched on and not persisted.
SwaponOnly ==
  /\ pc = "swapon"
  /\ swapon' = TRUE
  /\ EndStep
  /\ UNCHANGED <<disk, mounted, dockerUp, loaded, stack, given>>

Swapon ==
  /\ pc = "swapon"
  /\ swapon' = TRUE
  /\ Do("fstab_swap")
  /\ UNCHANGED <<disk, mounted, dockerUp, loaded, stack, given>>

PersistSwap ==
  /\ pc = "fstab_swap"
  /\ fstab' = fstab \cup {"swap"}
  /\ EndStep
  /\ UNCHANGED <<swapfile, conf, env, readable, db, keys, marker, service, memory>>

----------------------------------------------------------------------------
(* The containers.                                                         *)

\* docker-compose.yml falls back to its defaults for what .env does not set, the
\* DATA_ROOT too.
PasswordOf(e) == IF e \in Passwords THEN e ELSE "default"
DataRoot(password, onNvme) ==
  IF password = "default" THEN "repo" ELSE IF onNvme THEN "nvme" ELSE "boot"

\* The containers start over their data directory; postgres initialises an empty one.
Bring(password, onNvme) ==
  /\ given' = password
  /\ stack' = DataRoot(password, onNvme)
  /\ db' = [db EXCEPT ![stack'] = IF @ = "absent" THEN password ELSE @]

\* When docker comes back, so do containers that still exist, as they were made,
\* unless stopped.
Revive(onNvme) ==
  \/ stack' = "off" /\ UNCHANGED <<db, given>>
  \/ (\E d \in DataDirs : db[d] # "absent") /\ Bring(given, onNvme)

----------------------------------------------------------------------------
(* step_docker.                                                            *)

CheckDaemon ==
  /\ pc = "docker"
  /\ Do(IF "nvidia" \in conf THEN "data_root" ELSE "daemon_json")
  /\ UNCHANGED <<disk, memory>>

WriteDaemon ==
  /\ pc = "daemon_json"
  /\ conf' = {"nvidia"}
  /\ Do("restart")
  /\ UNCHANGED <<fstab, swapfile, env, readable, db, keys, marker, service, memory>>

RestartDocker ==
  /\ pc = "restart"
  /\ dockerUp' = TRUE
  /\ loaded' = conf
  /\ Revive(mounted)
  /\ Do("data_root")
  /\ UNCHANGED <<fstab, swapfile, conf, env, readable, keys, marker, service,
                 mounted, swapon>>

CheckDataRoot ==
  /\ pc = "data_root"
  /\ IF mounted /\ "data-root" \notin conf THEN Do("stop") ELSE EndStep
  /\ UNCHANGED <<disk, memory>>

StopDocker ==
  /\ pc = "stop"
  /\ dockerUp' = FALSE
  /\ stack' = "off"
  /\ Do("open_conf")
  /\ UNCHANGED <<disk, mounted, swapon, loaded, given>>

\* json.load, then open(p, 'w') empties the file ...
OpenConf ==
  /\ pc = "open_conf"
  /\ conf' = {}
  /\ Do("dump_conf")
  /\ UNCHANGED <<fstab, swapfile, env, readable, db, keys, marker, service, memory>>

\* Mutant: the new key replaces what was there.
DumpConfAlone ==
  /\ pc = "dump_conf"
  /\ conf' = {"data-root"}
  /\ Do("start")
  /\ UNCHANGED <<fstab, swapfile, env, readable, db, keys, marker, service, memory>>

\* ... and json.dump writes what was read with the data-root added.
DumpConf ==
  /\ pc = "dump_conf"
  /\ conf' = DaemonKeys
  /\ Do("start")
  /\ UNCHANGED <<fstab, swapfile, env, readable, db, keys, marker, service, memory>>

\* The new data-root holds no containers.
StartDocker ==
  /\ pc = "start"
  /\ dockerUp' = TRUE
  /\ loaded' = conf
  /\ EndStep
  /\ UNCHANGED <<disk, mounted, swapon, stack, given>>

----------------------------------------------------------------------------
(* step_deploy.                                                            *)

\* Mutant: new credentials on every run.
GenerateEnvAlways ==
  /\ pc = "deploy"
  /\ Do("open_env")
  /\ UNCHANGED <<disk, memory>>

\* if [[ -f $env_file ]]: leave it alone.
CheckEnv ==
  /\ pc = "deploy"
  /\ Do(IF env = "absent" THEN "open_env" ELSE "up")
  /\ UNCHANGED <<disk, memory>>

\* cat >.env creates the file ...
OpenEnv ==
  /\ pc = "open_env"
  /\ env' = "torn"
  /\ Do("write_env")
  /\ UNCHANGED <<fstab, swapfile, conf, readable, db, keys, marker, service, memory>>

\* ... and fills it.
WriteEnv ==
  /\ pc = "write_env"
  /\ \E p \in Passwords : env' = p
  /\ Do("chown_env")
  /\ UNCHANGED <<fstab, swapfile, conf, readable, db, keys, marker, service, memory>>

ChownEnv ==
  /\ pc = "chown_env"
  /\ readable' = TRUE
  /\ Do("up")
  /\ UNCHANGED <<fstab, swapfile, conf, env, db, keys, marker, service, memory>>

\* docker compose up -d: containers that run already are left alone, unless .env
\* has changed since they were made; a stopped docker is started by its socket.
ComposeUp ==
  /\ pc = "up"
  /\ dockerUp' = TRUE
  /\ loaded' = IF dockerUp THEN loaded ELSE conf
  /\ IF stack # "off" /\ given = PasswordOf(env)
       THEN UNCHANGED <<stack, given, db>>
       ELSE Bring(PasswordOf(env), mounted)
  /\ Do("health")
  /\ UNCHANGED <<fstab, swapfile, conf, env, readable, keys, marker, service,
                 mounted, swapon>>

\* The gateway answers once it can log in to its database; if not, die.
WaitHealthy ==
  /\ pc = "health"
  /\ IF db[stack] = given THEN Do("marker") ELSE Die /\ UNCHANGED faults
  /\ UNCHANGED <<disk, memory>>

\* Mutant: the marker is not looked at.
CheckMarkerNot ==
  /\ pc = "marker"
  /\ Do("mint")
  /\ UNCHANGED <<disk, memory>>

CheckMarker ==
  /\ pc = "marker"
  /\ IF marker[DATA_DIR] = "absent" THEN Do("mint") ELSE EndStep
  /\ UNCHANGED <<disk, memory>>

\* No key came back: a warning, and print_access, where `set -u` ends the script
\* at the unset $key if the gateway is still healthy.
NoKey == PassOver \/ (Faulty /\ Die)

\* create_key.py in the gateway's container; it may fail before or after its INSERT.
MintKey ==
  /\ pc = "mint"
  /\ \/ keys' = [keys EXCEPT ![stack] = @ + 1] /\ (Do("open_marker") \/ NoKey)
     \/ UNCHANGED keys /\ NoKey
  /\ UNCHANGED <<fstab, swapfile, conf, env, readable, db, marker, service, memory>>

OpenMarker ==
  /\ pc = "open_marker"
  /\ marker' = [marker EXCEPT ![DATA_DIR] = "empty"]
  /\ Do("write_marker")
  /\ UNCHANGED <<fstab, swapfile, conf, env, readable, db, keys, service, memory>>

WriteMarker ==
  /\ pc = "write_marker"
  /\ marker' = [marker EXCEPT ![DATA_DIR] = "key"]
  /\ EndStep
  /\ UNCHANGED <<fstab, swapfile, conf, env, readable, db, keys, service, memory>>

\* step_service: the unit is written and enabled.
EnableService ==
  /\ pc = "service"
  /\ service' = TRUE
  /\ EndStep
  /\ UNCHANGED <<fstab, swapfile, conf, env, readable, db, keys, marker, memory>>

----------------------------------------------------------------------------
\* The power goes, or the operator reboots between two runs: fstab is mounted,
\* docker reads its configuration, and the unit brings the stack up.
Reboot ==
  /\ IF pc = "idle"
       THEN UNCHANGED <<run, faults>>
       ELSE Faulty /\ Die
  /\ mounted' = ("nvme" \in fstab)
  /\ swapon' = ({"nvme", "swap"} \subseteq fstab /\ swapfile = "formatted")
  /\ dockerUp' = TRUE
  /\ loaded' = conf
  /\ IF service THEN Bring(PasswordOf(env), mounted') ELSE Revive(mounted')
  /\ UNCHANGED <<fstab, swapfile, conf, env, readable, keys, marker, service>>

Command ==
  \/ CheckMount \/ Mount \/ PersistMount
  \/ CheckSwap \/ Fallocate \/ Mkswap \/ Swapon \/ PersistSwap
  \/ CheckDaemon \/ WriteDaemon \/ RestartDocker \/ CheckDataRoot \/ StopDocker
  \/ OpenConf \/ DumpConf \/ StartDocker
  \/ CheckEnv \/ OpenEnv \/ WriteEnv \/ ChownEnv \/ ComposeUp \/ WaitHealthy
  \/ CheckMarker \/ MintKey \/ OpenMarker \/ WriteMarker
  \/ EnableService

Next == (\E p \in Plans : StartRun(p)) \/ Command \/ Abort \/ Reboot

Spec == Init /\ [][Next]_vars
----------------------------------------------------------------------------
\* What a full run is to leave behind, and a reboot to bring back.
InPlace ==
  /\ mounted /\ fstab = {"nvme", "swap"}
  /\ swapon
  /\ dockerUp /\ loaded = DaemonKeys
  /\ env \in Passwords /\ readable
  /\ stack = "nvme" /\ service
  /\ marker["nvme"] = "key"

\* As long as nothing failed, it does, on the first run and on any later one, across
\* reboots and among steps run by name.  Its database has a key, unless step_nvme by
\* name mounted the disk under containers that went on over the boot disk: there a
\* deploy filed a second key of their database as that of the disk.
CleanRunInstalls ==
  faults = 0 /\ completed = FullRun =>
    InPlace /\ (keys["nvme"] = 1 \/ keys["boot"] = 2)

\* "Every step is idempotent: re-running is safe and is how you recover from a
\* partial run" (lines 11 and 12): the same holds of a full run that meets no
\* fault, whatever became of the runs before it.
RerunRecovers == completed = FullRun => InPlace

\* What such a run does recover: docker with both settings in force, and the
\* stack up, with a database its password opens, now and after a reboot.
RunServes ==
  completed = FullRun =>
    /\ service /\ dockerUp /\ loaded = DaemonKeys
    /\ stack # "off" /\ db[stack] = given /\ given = PasswordOf(env)

\* No run ever locks the stack out of a database it has made: the credentials
\* are never generated again, nor replaced by the defaults.  .env opens those
\* under $DATA_DIR, the defaults the one beside docker-compose.yml.
DbPasswordKept ==
  \A d \in DataDirs : db[d] # "absent" => db[d] = IF d = "repo" THEN "default" ELSE env

\* "Re-runs must not mint duplicates": once a run is over, every key has a marker of
\* its own that keeps the next run from another, but for one a fault.
Filed(d) == IF marker[d] = "absent" THEN 0 ELSE 1

KeysFiled ==
  pc = "idle" =>
    keys["nvme"] + keys["boot"] + keys["repo"] <= Filed("nvme") + Filed("boot") + faults
=============================================================================
