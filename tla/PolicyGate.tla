----------------------------- MODULE PolicyGate -----------------------------
(***************************************************************************)
(* The policy of the relay: ACCOUNTABILITY_POLICY_JSON says which calls    *)
(* need the ledger.  The first rule that names the tool decides, and the   *)
(* default mode when there is none.  What becomes of a call that needs the *)
(* ledger is in module Relay; here it is forwarded or refused.             *)
(*                                                                         *)
(* A field of the JSON that is missing or of another type is Absent, and a *)
(* text that does not parse is a policy without fields.                    *)
(***************************************************************************)
EXTENDS Integers, Sequences

CONSTANTS
    Tools,
    Modes,    \* the strings found as modes, known to the relay or not
    Limits,   \* values of less_than
    Amounts,  \* values of the parameter a condition names
    Absent,
    MaxRules  \* bound on the rules of an instance

(* What the theorem asks of the constants. *)
PolicyAssumption ==
    /\ Limits \subseteq Int /\ Amounts \subseteq Int
    /\ Absent \notin Modes \cup {"require_ledger", "bypass"} \cup Limits \cup Amounts
    /\ MaxRules \in Nat

VARIABLES
    policy,
    call,      \* a tools/call: its tool and the parameter, if a number
    next,      \* the rule the loop is at
    requires,  \* the call needs the ledger
    st

vars == <<policy, call, next, requires, st>>

Rule == [tool : Tools, mode : Modes \cup {Absent}, limit : Limits \cup {Absent}]

Policy ==
    [default : Modes \cup {Absent}, rules : UNION {[1..n -> Rule] : n \in 0..MaxRules}]

Call == [tool : Tools, amount : Amounts \cup {Absent}]

(* bypass_condition, complete and met. *)
IsBelow(amount, limit) == amount # Absent /\ limit # Absent /\ amount < limit

(* What a rule says of a call; a mode that is not known needs the ledger.   *)
RequiredBy(rule) ==
    /\ rule.mode # "bypass"
    /\ rule.mode = "bypass_if" => ~IsBelow(call.amount, rule.limit)

Receive ==
    /\ st = "idle"
    /\ call' \in Call
    /\ next' = 1
    /\ requires' = (policy.default \in {"require_ledger", Absent})
    /\ st' = "matching"
    /\ UNCHANGED policy

MatchRule ==
    /\ st = "matching" /\ next <= Len(policy.rules)
    /\ LET rule == policy.rules[next] IN
          IF rule.tool = call.tool
          THEN requires' = RequiredBy(rule) /\ st' = "decided" /\ UNCHANGED next
          ELSE next' = next + 1 /\ UNCHANGED <<requires, st>>
    /\ UNCHANGED <<policy, call>>

NoRule ==
    /\ st = "matching" /\ next > Len(policy.rules)
    /\ st' = "decided"
    /\ UNCHANGED <<policy, call, next, requires>>

ForwardDirectly ==
    /\ st = "decided" /\ ~requires
    /\ st' = "forwarded"
    /\ UNCHANGED <<policy, call, next, requires>>

(* The id, the nonce, the lease and the log are checked in Relay. *)
ForwardRecorded ==
    /\ st = "decided" /\ requires
    /\ st' \in {"recorded", "refused"}
    /\ UNCHANGED <<policy, call, next, requires>>

NextLine ==
    /\ st \in {"forwarded", "recorded", "refused"}
    /\ st' = "idle"
    /\ UNCHANGED <<policy, call, next, requires>>

Init ==
    /\ policy \in Policy
    /\ call \in [tool : Tools, amount : {Absent}]
    /\ next = 1
    /\ requires = TRUE
    /\ st = "idle"

Next ==
    \/ Receive \/ MatchRule \/ NoRule
    \/ ForwardDirectly \/ ForwardRecorded \/ NextLine

Spec == Init /\ [][Next]_vars

-----------------------------------------------------------------------------
(* Properties *)

RulesFor(tool) == {i \in DOMAIN policy.rules : policy.rules[i].tool = tool}

FirstFor(tool) == CHOOSE i \in RulesFor(tool) : \A j \in RulesFor(tool) : i <= j

(* The policy names "bypass" for the call: the first rule for its tool      *)
(* does, or its condition is met, or the default mode does.                 *)
OptedOut ==
    IF RulesFor(call.tool) = {}
    THEN policy.default = "bypass"
    ELSE LET rule == policy.rules[FirstFor(call.tool)] IN
            \/ rule.mode = "bypass"
            \/ /\ rule.mode = "bypass_if" /\ Absent \notin {call.amount, rule.limit}
               /\ call.amount < rule.limit

(* What README.md:24 says of the policy: it defaults to requiring the       *)
(* ledger, and a call passes without it only where the policy bypasses it,  *)
(* however incomplete the policy is and whatever its later rules say.       *)
(* MCPolicyGate_default shows the exception.                                *)
UnrecordedIsOptedOut == st = "forwarded" => OptedOut

(* The default modes the documents and tests of the code use. *)
DefaultIsKnown == policy.default \in {"require_ledger", "bypass", Absent}
=============================================================================
