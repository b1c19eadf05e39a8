---------------------------- MODULE DaemonProofs ----------------------------
(***************************************************************************)
(* Theorems about Daemon, for any number of daemons, any policies and any  *)
(* system: the bound of LeaseGate holds across the restarts of daemons,    *)
(* and the profile of a server is that of its daemon unless another        *)
(* daemon used the file.                                                   *)
(***************************************************************************)
EXTENDS Daemon, LeaseGateProofs

(* A step of a daemon is one of LeaseGate or leaves it alone. *)
LEMMA DaemonStep == DaemonNext => [Next]_vars
  <1> SUFFICES ASSUME DaemonNext
               PROVE  Next \/ UNCHANGED vars
    OBVIOUS
  <1>1. ASSUME NEW d \in Daemons,
               LoadPolicy(d) \/ OpenProfile(d) \/ WriteProfile(d) \/ FailLaunch(d)
        PROVE  UNCHANGED vars
    BY <1>1 DEF LoadPolicy, OpenProfile, WriteProfile, FailLaunch
  <1>2. ASSUME NEW p \in Procs, Spawn(p) \/ Confine(p) \/ ServerExit(p)
        PROVE  UNCHANGED vars
    BY <1>2 DEF Spawn, EnterRelay, Confine, ServerExit
  <1>3. ASSUME NEW p \in Procs, Relaying(p) \/ Stop(p)
        PROVE  Next
    BY <1>3 DEF Relaying, Stop, Next, ProcStep
  <1>4. QED
    BY <1>1, <1>2, <1>3 DEF DaemonNext, Next

LEMMA KillSwitchOfDaemons == DaemonSpec => []KillSwitch
  <1>1. DaemonInit => Init
    BY DEF DaemonInit
  <1>2. [DaemonNext]_daemonVars => [Next]_vars
    BY DaemonStep DEF daemonVars
  <1>3. QED
    BY <1>1, <1>2, KillSwitchCorrect, PTL DEF DaemonSpec, Spec

-----------------------------------------------------------------------------
(* Types *)

LEMMA ProfileType ==
    ASSUME NEW loaded \in CapabilityPolicy
    PROVE  SbProfile(loaded) \in Profile
  <1>1. \A caps \in SUBSET Capability : Listed(caps) \subseteq Patterns
    BY DEF Listed, Capability
  <1>2. \A tool \in DOMAIN loaded.tool_policies :
            loaded.tool_policies[tool] \in SUBSET Capability
    BY DEF CapabilityPolicy, ToolPolicies
  <1>3. loaded.default_deny \in BOOLEAN
    BY DEF CapabilityPolicy
  <1>4. QED
    BY <1>1, <1>2, <1>3 DEF SbProfile, Profile

LEMMA PolicyTypes == {DefaultPolicy, FallbackPolicy} \subseteq CapabilityPolicy
  <1>1. NoToolPolicy \in ToolPolicies
    <2>1. {} \in SUBSET ToolNames /\ NoToolPolicy \in [{} -> SUBSET Capability]
      BY DEF NoToolPolicy
    <2>2. QED
      BY <2>1 DEF ToolPolicies
  <1>2. QED
    BY <1>1 DEF DefaultPolicy, FallbackPolicy, CapabilityPolicy

LEMMA DaemonTypeStep == DaemonTypeOK /\ [DaemonNext]_daemonVars => DaemonTypeOK'
  <1> SUFFICES ASSUME DaemonTypeOK, [DaemonNext]_daemonVars
               PROVE  DaemonTypeOK'
    OBVIOUS
  <1> USE DEF DaemonTypeOK, EnterStage
  <1>1. ASSUME NEW d \in Daemons, LoadPolicy(d)
        PROVE  DaemonTypeOK'
    BY <1>1, PolicyTypes, DaemonAssumption DEF LoadPolicy
  <1>2. ASSUME NEW d \in Daemons, OpenProfile(d)
        PROVE  DaemonTypeOK'
    BY <1>2 DEF OpenProfile, Disturb
  <1>3. ASSUME NEW d \in Daemons, WriteProfile(d)
        PROVE  DaemonTypeOK'
    <2>1. SbProfile(policy[d]) \in Profile
      BY ProfileType
    <2>2. sbFile' \subseteq Profile
      BY <1>3, <2>1 DEF WriteProfile
    <2>3. QED
      BY <1>3, <2>2 DEF WriteProfile, Disturb
  <1>4. ASSUME NEW d \in Daemons, FailLaunch(d)
        PROVE  DaemonTypeOK'
    BY <1>4, PolicyTypes DEF FailLaunch
  <1>5. ASSUME NEW p \in Procs, Spawn(p)
        PROVE  DaemonTypeOK'
    BY <1>5 DEF Spawn, EnterRelay
  <1>6. ASSUME NEW p \in Procs, Confine(p)
        PROVE  DaemonTypeOK'
    BY <1>6 DEF Confine
  <1>7. ASSUME NEW p \in Procs, ServerExit(p) \/ Relaying(p)
        PROVE  DaemonTypeOK'
    BY <1>7 DEF ServerExit, Relaying, launchVars
  <1>8. ASSUME NEW p \in Procs, Stop(p)
        PROVE  DaemonTypeOK'
    BY <1>8, PolicyTypes DEF Stop, Daemons
  <1>9. CASE UNCHANGED launchVars
    BY <1>9 DEF launchVars
  <1>10. QED
    BY <1>1, <1>2, <1>3, <1>4, <1>5, <1>6, <1>7, <1>8, <1>9 DEF DaemonNext, daemonVars

(* The launch keeps its types. *)
THEOREM DaemonTypeCorrect == DaemonSpec => []DaemonTypeOK
  <1>1. DaemonInit => DaemonTypeOK
    BY PolicyTypes DEF DaemonInit, DaemonTypeOK
  <1>2. QED
    BY <1>1, DaemonTypeStep, PTL DEF DaemonSpec

-----------------------------------------------------------------------------
(* The profile *)

(* A daemon whose relay does not run has neither a server nor a profile.    *)
(* As long as nobody else has touched the file, it is empty when the daemon *)
(* is about to write and can be read as its own profile only until          *)
(* sandbox-exec has read it.                                                *)
OwnInv ==
    \A p \in Procs :
        /\ stage[p] # "relay" => ~alive[p] /\ confined[p] = None
        /\ ~disturbed[p] =>
              /\ stage[p] = "opened" => sbFile = {}
              /\ stage[p] = "written" \/ AwaitsProfile(p) => sbFile \subseteq {SbProfile(policy[p])}
              /\ confined[p] # None => confined[p] = SbProfile(policy[p])

LEMMA OwnStep == DaemonTypeOK /\ OwnInv /\ [DaemonNext]_daemonVars => OwnInv'
  <1> SUFFICES ASSUME DaemonTypeOK, OwnInv, [DaemonNext]_daemonVars
               PROVE  OwnInv'
    OBVIOUS
  <1> USE DEF DaemonTypeOK, OwnInv, EnterStage, AwaitsProfile, Daemons
  <1>1. ASSUME NEW d \in Daemons, LoadPolicy(d)
        PROVE  OwnInv'
    BY <1>1 DEF LoadPolicy
  <1>2. ASSUME NEW d \in Daemons, OpenProfile(d)
        PROVE  OwnInv'
    BY <1>2 DEF OpenProfile, Disturb, UsesFile
  <1>3. ASSUME NEW d \in Daemons, WriteProfile(d)
        PROVE  OwnInv'
    BY <1>3 DEF WriteProfile, Disturb, UsesFile
  <1>4. ASSUME NEW d \in Daemons, FailLaunch(d)
        PROVE  OwnInv'
    BY <1>4 DEF FailLaunch
  <1>5. ASSUME NEW p \in Procs, Spawn(p)
        PROVE  OwnInv'
    BY <1>5 DEF Spawn, EnterRelay
  <1>6. ASSUME NEW p \in Procs, Confine(p)
        PROVE  OwnInv'
    BY <1>6 DEF Confine
  <1>7. ASSUME NEW p \in Procs, ServerExit(p)
        PROVE  OwnInv'
    BY <1>7 DEF ServerExit
  <1>8. ASSUME NEW p \in Procs, Stop(p)
        PROVE  OwnInv'
    BY <1>8 DEF Stop
  <1>9. CASE UNCHANGED launchVars
    BY <1>9 DEF launchVars
  <1>10. QED
    BY <1>1, <1>2, <1>3, <1>4, <1>5, <1>6, <1>7, <1>8, <1>9
    DEF DaemonNext, daemonVars, Relaying

(* A server runs under the profile of its own daemon unless another daemon  *)
(* touched the file between its opening and its reading.                    *)
THEOREM UndisturbedIsOwnCorrect == DaemonSpec => []UndisturbedIsOwn
  <1>1. DaemonInit => OwnInv
    BY DEF DaemonInit, OwnInv, AwaitsProfile, Daemons
  <1>2. OwnInv => UndisturbedIsOwn
    BY DEF OwnInv, UndisturbedIsOwn
  <1>3. QED
    BY <1>1, <1>2, OwnStep, DaemonTypeCorrect, PTL DEF DaemonSpec
=============================================================================
