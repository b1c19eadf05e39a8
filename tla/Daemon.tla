------------------------------- MODULE Daemon -------------------------------
(***************************************************************************)
(* The daemons of a machine, from their start to their end: main reads the *)
(* capability policy and, on macOS, writes the profile to a path that all  *)
(* daemons share and starts the server through sandbox-exec, which reads   *)
(* the path when it runs; then main enters relay_with_intercept, which     *)
(* asks for leases and keeps them in memory for as long as it runs (module *)
(* LeaseGate).  On other systems the server runs as it is.                 *)
(***************************************************************************)
EXTENDS LeaseGate, Capabilities

CONSTANTS
    Others,       \* daemons of which only the launch is followed
    PolicyFiles,  \* the policies that --policy may find
    Platforms,
    None

ASSUME DaemonAssumption ==
    /\ Others \cap Procs = {}
    /\ PolicyFiles \subseteq CapabilityPolicy
    /\ None \notin Profile

VARIABLES
    platform,
    stage,     \* how far main is
    alive,     \* sandbox-exec or the server runs
    policy,    \* the capability policy main has loaded
    sbFile,    \* the profile file: what it can be read as
    confined,  \* the profile the server runs under
    disturbed  \* the file was written by another daemon meanwhile (history)

launchVars == <<platform, stage, alive, policy, sbFile, confined, disturbed>>
daemonVars == <<vars, launchVars>>

Daemons == Procs \cup Others

(* sandbox-exec has been started and has not read the file yet. *)
AwaitsProfile(p) == platform = "macos" /\ alive[p] /\ confined[p] = None

UsesFile(p) == stage[p] \in {"opened", "written"} \/ AwaitsProfile(p)

Disturb(d) ==
    disturbed' = [p \in Procs |-> disturbed[p] \/ (p # d /\ UsesFile(p))]

EnterStage(d, s) == stage' = [stage EXCEPT ![d] = s]

-----------------------------------------------------------------------------
(* main *)

(* Variant of LoadPolicy: a file that cannot be parsed leaves no policy. *)
LoadParsed(d) ==
    /\ stage[d] = "off"
    /\ \E loaded \in PolicyFiles \cup {DefaultPolicy, None} :
          policy' = [policy EXCEPT ![d] = loaded]
    /\ EnterStage(d, "loaded")
    /\ UNCHANGED <<vars, platform, alive, sbFile, confined, disturbed>>

LoadPolicy(d) ==
    /\ stage[d] = "off"
    /\ \E loaded \in PolicyFiles \cup {DefaultPolicy, FallbackPolicy} :
          policy' = [policy EXCEPT ![d] = loaded]
    /\ EnterStage(d, "loaded")
    /\ UNCHANGED <<vars, platform, alive, sbFile, confined, disturbed>>

(* fs::write opens with O_TRUNC. *)
OpenProfile(d) ==
    /\ platform = "macos" /\ stage[d] = "loaded"
    /\ sbFile' = {}
    /\ Disturb(d)
    /\ EnterStage(d, "opened")
    /\ UNCHANGED <<vars, platform, alive, policy, confined>>

(* Two writers that opened the file before either wrote leave the text of   *)
(* the second over that of the first, and what that reads as is open.       *)
WriteProfile(d) ==
    /\ stage[d] = "opened"
    /\ LET mine == SbProfile(policy[d]) IN
          sbFile' \in {{mine}} \cup {Profile : other \in sbFile \ {mine}}
    /\ Disturb(d)
    /\ EnterStage(d, "written")
    /\ UNCHANGED <<vars, platform, alive, policy, confined>>

EnterRelay(p) ==
    /\ EnterStage(p, "relay")
    /\ alive' = [alive EXCEPT ![p] = TRUE]
    /\ UNCHANGED <<vars, platform, policy, sbFile, confined, disturbed>>

(* Variant of Spawn: the server is started while the profile is written.    *)
SpawnEarly(p) == stage[p] \in {"loaded", "opened"} /\ EnterRelay(p)

Spawn(p) ==
    /\ stage[p] = IF platform = "macos" THEN "written" ELSE "loaded"
    /\ EnterRelay(p)

(* A kill before the relay runs, or a failed write or start. *)
FailLaunch(d) ==
    /\ stage[d] \in {"loaded", "opened", "written"}
    /\ EnterStage(d, "off")
    /\ policy' = [policy EXCEPT ![d] = DefaultPolicy]
    /\ disturbed' = [p \in Procs |-> disturbed[p] /\ p # d]
    /\ UNCHANGED <<vars, platform, alive, sbFile, confined>>

-----------------------------------------------------------------------------
(* sandbox-exec and the server *)

Confine(p) ==
    /\ AwaitsProfile(p)
    /\ \E profile \in sbFile : confined' = [confined EXCEPT ![p] = profile]
    /\ UNCHANGED <<vars, platform, stage, alive, policy, sbFile, disturbed>>

(* The server ends, or never was: the file is empty or refused, the command *)
(* is not found.                                                            *)
ServerExit(p) ==
    /\ alive[p]
    /\ alive' = [alive EXCEPT ![p] = FALSE]
    /\ UNCHANGED <<vars, platform, stage, policy, sbFile, confined, disturbed>>

-----------------------------------------------------------------------------
(* relay_with_intercept *)

Relaying(p) == stage[p] = "relay" /\ GateStep(p) /\ UNCHANGED launchVars

(* The end of the relay, or a kill: the lease is lost with the process.     *)
Stop(p) ==
    /\ stage[p] = "relay"
    /\ Restart(p)
    /\ EnterStage(p, "off")
    /\ alive' = [alive EXCEPT ![p] = FALSE]
    /\ policy' = [policy EXCEPT ![p] = DefaultPolicy]
    /\ confined' = [confined EXCEPT ![p] = None]
    /\ disturbed' = [disturbed EXCEPT ![p] = FALSE]
    /\ UNCHANGED <<platform, sbFile>>

DaemonInit ==
    /\ Init
    /\ platform \in Platforms
    /\ stage = [d \in Daemons |-> "off"]
    /\ alive = [p \in Procs |-> FALSE]
    /\ policy = [d \in Daemons |-> DefaultPolicy]
    /\ sbFile = {}
    /\ confined = [p \in Procs |-> None]
    /\ disturbed = [p \in Procs |-> FALSE]

DaemonNext ==
    \/ \E d \in Daemons : LoadPolicy(d) \/ OpenProfile(d) \/ WriteProfile(d) \/ FailLaunch(d)
    \/ \E p \in Procs : Spawn(p) \/ Confine(p) \/ ServerExit(p) \/ Relaying(p) \/ Stop(p)
    \/ (Tick \/ Revoke \/ Reinstate) /\ UNCHANGED launchVars

DaemonSpec == DaemonInit /\ [][DaemonNext]_daemonVars

-----------------------------------------------------------------------------
(* Properties *)

DaemonTypeOK ==
    /\ platform \in Platforms
    /\ stage \in [Daemons -> {"off", "loaded", "opened", "written", "relay"}]
    /\ alive \in [Procs -> BOOLEAN]
    /\ policy \in [Daemons -> CapabilityPolicy]
    /\ sbFile \subseteq Profile
    /\ confined \in [Procs -> Profile \cup {None}]
    /\ disturbed \in [Procs -> BOOLEAN]

(* All daemons write their profile to one path and sandbox-exec reads it    *)
(* some time after it was written: a server runs under the profile of its   *)
(* own daemon if no other daemon used the path meanwhile.                   *)
UndisturbedIsOwn ==
    \A p \in Procs : confined[p] # None /\ ~disturbed[p] => confined[p] = SbProfile(policy[p])
=============================================================================
