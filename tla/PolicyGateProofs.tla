-------------------------- MODULE PolicyGateProofs --------------------------
(***************************************************************************)
(* A theorem about PolicyGate, for policies of any length over any tools,  *)
(* modes and values: the default mode is the only way it fails open.       *)
(***************************************************************************)
EXTENDS PolicyGate, TLAPS

TypeInv ==
    /\ policy \in Policy
    /\ call \in Call
    /\ next \in Nat \ {0}
    /\ requires \in BOOLEAN

(* No rule before the one the loop is at names the tool, and the default    *)
(* stands until one does.                                                   *)
LoopInv ==
    st = "matching" =>
        /\ next <= Len(policy.rules) + 1
        /\ \A i \in 1..(next - 1) : policy.rules[i].tool # call.tool
        /\ requires = (policy.default \in {"require_ledger", Absent})

DecidedInv ==
    /\ st \in {"idle", "matching", "decided", "forwarded", "recorded", "refused"}
    /\ st \notin {"idle", "matching"} /\ DefaultIsKnown => (requires <=> ~OptedOut)
    /\ st = "forwarded" => ~requires
    /\ st \in {"recorded", "refused"} => requires

LEMMA RulesTyped ==
    ASSUME PolicyAssumption, TypeInv
    PROVE  /\ Len(policy.rules) \in Nat
           /\ policy.rules \in [1..Len(policy.rules) -> Rule]
           /\ policy.default \in Modes \cup {Absent}
  <1>1. PICK n \in 0..MaxRules : policy.rules \in [1..n -> Rule]
    BY DEF TypeInv, Policy
  <1>2. n \in Nat /\ policy.rules \in Seq(Rule)
    BY <1>1 DEF PolicyAssumption
  <1>3. QED
    BY <1>2 DEF TypeInv, Policy

LEMMA TypeStep == TypeInv /\ [Next]_vars => TypeInv'
  <1> SUFFICES ASSUME TypeInv, [Next]_vars
               PROVE  TypeInv'
    OBVIOUS
  <1>1. CASE Receive
    BY <1>1 DEF Receive, TypeInv
  <1>2. CASE MatchRule
    <2> DEFINE rule == policy.rules[next]
    <2>1. CASE rule.tool = call.tool
      <3>1. RequiredBy(rule) \in BOOLEAN
        BY DEF RequiredBy
      <3>2. requires' = RequiredBy(rule) /\ UNCHANGED <<policy, call, next>>
        BY <1>2, <2>1 DEF MatchRule
      <3>3. QED
        BY <3>1, <3>2 DEF TypeInv
    <2>2. CASE rule.tool # call.tool
      BY <1>2, <2>2 DEF MatchRule, TypeInv
    <2>3. QED
      BY <2>1, <2>2
  <1>3. CASE NoRule \/ ForwardDirectly \/ ForwardRecorded \/ NextLine \/ UNCHANGED vars
    BY <1>3 DEF NoRule, ForwardDirectly, ForwardRecorded, NextLine, vars, TypeInv
  <1>4. QED
    BY <1>1, <1>2, <1>3 DEF Next

(* The first rule that names the tool is the one the loop stops at.         *)
LEMMA FirstIsNext ==
    ASSUME PolicyAssumption, TypeInv, LoopInv, st = "matching", next <= Len(policy.rules),
           policy.rules[next].tool = call.tool
    PROVE  RulesFor(call.tool) # {} /\ FirstFor(call.tool) = next
  <1>1. /\ Len(policy.rules) \in Nat /\ DOMAIN policy.rules = 1..Len(policy.rules)
        /\ next \in Nat \ {0}
    BY RulesTyped DEF TypeInv
  <1>2. next \in RulesFor(call.tool)
    BY <1>1 DEF RulesFor
  <1>3. \A j \in RulesFor(call.tool) : j \in Nat /\ next <= j
    BY <1>1 DEF RulesFor, LoopInv
  <1>4. FirstFor(call.tool) \in RulesFor(call.tool) /\ FirstFor(call.tool) <= next
    BY <1>2, <1>3 DEF FirstFor
  <1>5. FirstFor(call.tool) \in Nat /\ next <= FirstFor(call.tool)
    BY <1>3, <1>4
  <1>6. QED
    BY <1>1, <1>2, <1>4, <1>5

LEMMA GateStep ==
    ASSUME PolicyAssumption
    PROVE  TypeInv /\ LoopInv /\ DecidedInv /\ [Next]_vars => LoopInv' /\ DecidedInv'
  <1> SUFFICES ASSUME TypeInv, LoopInv, DecidedInv, [Next]_vars
               PROVE  LoopInv' /\ DecidedInv'
    OBVIOUS
  <1>1. /\ Len(policy.rules) \in Nat /\ DOMAIN policy.rules = 1..Len(policy.rules)
        /\ policy.default \in Modes \cup {Absent}
        /\ next \in Nat \ {0}
    BY RulesTyped DEF TypeInv
  <1>2. CASE Receive
    BY <1>1, <1>2 DEF Receive, LoopInv, DecidedInv
  <1>3. CASE MatchRule
    <2> DEFINE rule == policy.rules[next]
    <2>1. CASE rule.tool = call.tool
      <3>1. /\ st = "matching" /\ next <= Len(policy.rules)
            /\ requires' = RequiredBy(rule) /\ st' = "decided"
            /\ UNCHANGED <<policy, call>>
        BY <1>3, <2>1 DEF MatchRule
      <3>2. RulesFor(call.tool) # {} /\ FirstFor(call.tool) = next
        BY <2>1, <3>1, FirstIsNext
      <3>3. RequiredBy(rule) <=> ~OptedOut
        BY <3>2 DEF RequiredBy, IsBelow, OptedOut
      <3>4. OptedOut' <=> OptedOut
        BY <3>1 DEF OptedOut, RulesFor, FirstFor
      <3>5. QED
        BY <3>1, <3>3, <3>4 DEF LoopInv, DecidedInv, DefaultIsKnown
    <2>2. CASE rule.tool # call.tool
      BY <1>1, <1>3, <2>2 DEF MatchRule, LoopInv, DecidedInv
    <2>3. QED
      BY <2>1, <2>2
  <1>4. CASE NoRule
    <2>1. RulesFor(call.tool) = {}
      BY <1>1, <1>4 DEF NoRule, RulesFor, LoopInv
    <2>2. DefaultIsKnown => (requires <=> ~OptedOut)
      <3>1. requires = (policy.default \in {"require_ledger", Absent})
        BY <1>4 DEF NoRule, LoopInv
      <3>2. OptedOut <=> policy.default = "bypass"
        BY <2>1 DEF OptedOut
      <3>3. Absent \notin {"require_ledger", "bypass"}
        BY DEF PolicyAssumption
      <3>4. QED
        BY <3>1, <3>2, <3>3 DEF DefaultIsKnown
    <2>3. OptedOut' <=> OptedOut
      BY <1>4 DEF NoRule, OptedOut, RulesFor, FirstFor
    <2>4. QED
      BY <1>4, <2>2, <2>3 DEF NoRule, LoopInv, DecidedInv, DefaultIsKnown
  <1>5. CASE ForwardDirectly \/ ForwardRecorded \/ NextLine \/ UNCHANGED vars
    <2>1. OptedOut' <=> OptedOut
      BY <1>5 DEF ForwardDirectly, ForwardRecorded, NextLine, vars, OptedOut, RulesFor, FirstFor
    <2>2. QED
      BY <1>5, <2>1
      DEF ForwardDirectly, ForwardRecorded, NextLine, vars, LoopInv, DecidedInv, DefaultIsKnown
  <1>6. QED
    BY <1>2, <1>3, <1>4, <1>5 DEF Next

(* If the default mode is one the code's documents name, or absent, a call   *)
(* passes without the ledger only where the policy bypasses it, whatever    *)
(* rules, modes and conditions it has: an unknown mode of a rule fails      *)
(* closed, and only that of the default fails open.                         *)
THEOREM UnrecordedIsOptedOutCorrect ==
    ASSUME PolicyAssumption
    PROVE  Spec => [](DefaultIsKnown => UnrecordedIsOptedOut)
  <1>1. Init => TypeInv /\ LoopInv /\ DecidedInv
    BY DEF Init, TypeInv, LoopInv, DecidedInv, Call
  <1>2. DecidedInv /\ DefaultIsKnown => UnrecordedIsOptedOut
    BY DEF DecidedInv, UnrecordedIsOptedOut
  <1>3. TypeInv /\ LoopInv /\ DecidedInv /\ [Next]_vars => LoopInv' /\ DecidedInv'
    BY GateStep
  <1>4. QED
    BY <1>1, <1>2, <1>3, TypeStep, PTL DEF Spec
=============================================================================
