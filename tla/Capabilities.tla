---------------------------- MODULE Capabilities ----------------------------
(***************************************************************************)
(* What the daemon makes of its --policy file: the network part of the     *)
(* capability policy of the core library and the Seatbelt profile that is  *)
(* written of it.  Every pattern of a NetworkConnect capability ends up as *)
(* it is in the place of a port, so what a profile says of a host is left  *)
(* to Seatbelt, which may also refuse to read it; here a profile is        *)
(* whether it denies the network and which patterns are in it.             *)
(***************************************************************************)
CONSTANTS ToolNames, Patterns

Capability ==
    [kind : {"NetworkConnect"}, hosts : SUBSET Patterns] \cup [kind : {"NetworkDeny"}]

ToolPolicies == UNION {[T -> SUBSET Capability] : T \in SUBSET ToolNames}

CapabilityPolicy == [default_deny : BOOLEAN, tool_policies : ToolPolicies]

NoToolPolicy == [tool \in {} |-> {}]

(* No --policy, or a file that cannot be read; serde's default of           *)
(* default_deny is FALSE.                                                   *)
DefaultPolicy == [default_deny |-> FALSE, tool_policies |-> NoToolPolicy]

(* A file that cannot be parsed: deny_net_all is TRUE and no argument makes *)
(* it FALSE.                                                                *)
FallbackPolicy == [default_deny |-> TRUE, tool_policies |-> NoToolPolicy]

(* The patterns of a tool's NetworkConnect capabilities. *)
Listed(caps) == UNION {cap.hosts : cap \in {c \in caps : c.kind = "NetworkConnect"}}

(* One profile for the whole server, whatever the tool; NetworkDeny leaves  *)
(* no trace in it.                                                          *)
SbProfile(policy) ==
    [denies |-> policy.default_deny,
     ports |-> UNION {Listed(policy.tool_policies[tool]) : tool \in DOMAIN policy.tool_policies}]

Profile == [denies : BOOLEAN, ports : SUBSET Patterns]
=============================================================================
