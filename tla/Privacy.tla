------------------------------ MODULE Privacy -------------------------------
(***************************************************************************)
(* How a record is selected and redacted: the bounded matcher              *)
(* (infrastructure/privacy/matcher-core.cjs, MatcherPolicy.ts) as LogFilter *)
(* and the helpers of utils.ts use it.  A record is handled in one turn of *)
(* the event loop, as a sequence of questions to one Call, whose budgets   *)
(* every question spends; a Call that fails stays failed.                  *)
(*                                                                         *)
(* A text is a sequence of characters.  What is matched case-insensitively, *)
(* and how a pattern is printed for the engine, is not modelled.  Matches  *)
(* is what the engines are trusted with.                                   *)
(***************************************************************************)
EXTENDS Sums, Sequences, SequencesExt

CONSTANTS
  Options,        \* [sensitive, builtins, selectors, sanitize]
  Records,        \* [message, context, labels], with pairs [key, value]
  Chars,
  Broken,         \* a character that no code unit sequence may contain alone
  NoKey, Unbounded,
  \* LIMITS, and the limits of normalize() and sanitizeData()
  InputPerRule, InputPerRecord, ValuesPerRecord, WorkPerRecord,
  RuleCallsPerRecord, ExpandedPerRule, ExpandedTotal,
  NarrowClass, RequiredItems, EntryLimit

(***************************************************************************)
(* Patterns: a character class, an assertion, a sequence, an alternative   *)
(* or a repetition.  A pattern is the sequence of the nodes of its tree, in *)
(* the order in which walk() leaves them; a node names its parts by number. *)
(***************************************************************************)
Nodes ==
  [kind : {"class"}, chars : SUBSET Chars] \union [kind : {"assertion"}]
    \union [kind : {"sequence", "alternative"}, left : Nat, right : Nat]
    \union [kind : {"repeat"}, of : Nat, min : Nat, max : {Unbounded} \union Nat]

PartsOf(node) ==
  CASE node.kind \in {"sequence", "alternative"} -> {node.left, node.right}
    [] node.kind = "repeat" -> {node.of}
    [] OTHER -> {}

Patterns ==
  {p \in Seq(Nodes) : p # <<>> /\ \A k \in DOMAIN p : PartsOf(p[k]) \subseteq 1 .. k - 1}

Rules == [pattern : Patterns, sticky : BOOLEAN, native : BOOLEAN]
Texts == Seq(Chars \union {Broken})
Pairs == [key : {NoKey} \union Texts, value : Texts]

ASSUME PrivacyAssumption ==
  /\ \A o \in Options :
       {o.sensitive, o.builtins, o.selectors} \subseteq Seq(Rules) /\ o.sanitize \in BOOLEAN
  /\ \A r \in Records : r.message \in Texts /\ {r.context, r.labels} \subseteq Seq(Pairs)
  /\ RequiredItems \in Nat /\ EntryLimit \in Nat

(* Where so many matches in a row may end, if step says it of one.         *)
Rounds(step, i, most) ==
  LET after[n \in 0 .. most] ==
        IF n = 0 THEN {i} ELSE UNION {step[j] : j \in after[n - 1]}
  IN  after

(* Where a match of a node that starts after position i may end, if that   *)
(* is known of its parts; more rounds than there are characters find no    *)
(* more.                                                                   *)
EndsOf(node, ends, i, text) ==
  LET most == IF node.max = Unbounded THEN node.min + Len(text) ELSE node.max
  IN  CASE node.kind = "class" -> {j \in {i + 1} : j <= Len(text) /\ text[j] \in node.chars}
        [] node.kind = "sequence" -> UNION {ends[node.right][j] : j \in ends[node.left][i]}
        [] node.kind = "alternative" -> ends[node.left][i] \union ends[node.right][i]
        [] node.kind = "repeat" ->
             UNION {Rounds(ends[node.of], i, most)[n] : n \in node.min .. most}
        [] OTHER -> {i}

Ends(p, text) ==
  LET ends[k \in 1 .. Len(p)] == [i \in 0 .. Len(text) |-> EndsOf(p[k], ends, i, text)]
  IN  ends

Matches(rule, text) ==
  \E i \in (IF rule.sticky THEN {0} ELSE 0 .. Len(text)) :
    Ends(rule.pattern, text)[Len(rule.pattern)][i] # {}

(* cost: the size of the pattern with its repetitions written out. *)
Cost(p) ==
  LET cost[k \in 1 .. Len(p)] ==
        LET node == p[k]
        IN  CASE node.kind = "sequence" -> cost[node.left] + cost[node.right]
              [] node.kind = "alternative" -> 2 + cost[node.left] + cost[node.right]
              [] node.kind = "repeat" ->
                   2 + cost[node.of] * (IF node.max = Unbounded THEN node.min + 1 ELSE node.max)
              [] OTHER -> 1
  IN  cost[Len(p)]

(* filter(): for each n, those of the first n items that are in S. *)
Filtered(items, S) ==
  LET kept[n \in 0 .. Len(items)] ==
        IF n = 0 THEN <<>>
        ELSE IF items[n] \in S THEN Append(kept[n - 1], items[n])
        ELSE kept[n - 1]
  IN  kept

Kept(items, S) == Filtered(items, S)[Len(items)]

First(items) == SubSeq(items, 1, Min({Len(items), RequiredItems}))

(* required: classes of which every text that matches a node contains a    *)
(* character, if required has those of its parts.                          *)
RequiredOf(node, required) ==
  CASE node.kind = "class" ->
         IF Cardinality(node.chars) <= NarrowClass THEN <<node.chars>> ELSE <<>>
    [] node.kind = "sequence" ->
         First(required[node.left]
                 \o Kept(required[node.right],
                         ToSet(required[node.right]) \ ToSet(required[node.left])))
    [] node.kind = "alternative" -> Kept(required[node.left], ToSet(required[node.right]))
    [] node.kind = "repeat" -> IF node.min > 0 THEN required[node.of] ELSE <<>>
    [] OTHER -> <<>>

Required(p) ==
  LET required[k \in 1 .. Len(p)] == RequiredOf(p[k], required)
  IN  required

CostOf(rule) == IF rule.native THEN 1 ELSE Cost(rule.pattern)

(***************************************************************************)
(* The Policy: its rules, unless any of them cannot be compiled.           *)
(***************************************************************************)
Compiled(o) ==
  LET sensitive == IF o.sanitize THEN o.sensitive \o o.builtins ELSE <<>>
      costs == [i \in 1 .. Len(sensitive \o o.selectors) |->
                  CostOf((sensitive \o o.selectors)[i])]
      invalid == \/ \E i \in DOMAIN costs : costs[i] > ExpandedPerRule
                 \/ SumOf(costs) > ExpandedTotal
  IN  [sensitive |-> IF invalid THEN <<>> ELSE sensitive,
       selectors |-> IF invalid THEN <<>> ELSE o.selectors,
       custom |-> Len(o.sensitive), sanitize |-> o.sanitize,
       invalid |-> invalid, closed |-> FALSE]

(***************************************************************************)
(* The Call and its budgets.                                               *)
(***************************************************************************)
NewCall ==
  [work |-> WorkPerRecord, units |-> InputPerRecord, calls |-> 0,
   inputs |-> {}, failed |-> FALSE]

Stopped(c) == [c EXCEPT !.failed = TRUE]

Spent(c, amount) ==
  IF c.failed \/ amount > c.work THEN Stopped(c) ELSE [c EXCEPT !.work = @ - amount]

(* A new text costs its length once; a text that was seen costs nothing.   *)
Inspected(c, text) ==
  IF \/ Len(text) > InputPerRule
     \/ /\ text \notin c.inputs
        /\ Cardinality(c.inputs) >= ValuesPerRecord \/ Len(text) > c.units
    THEN Stopped(c)
    ELSE IF text \in c.inputs THEN c
           ELSE Spent([c EXCEPT !.units = @ - Len(text), !.inputs = @ \union {text}],
                      Len(text) + 1)

(* compatible(): the engine would not see a broken text as RegExp does.    *)
Compatible(c, text) ==
  IF Broken \in ToSet(text) THEN Stopped(c) ELSE Inspected(c, text)

Counted(c, n) ==
  IF c.calls + n > RuleCallsPerRecord THEN Stopped(c) ELSE [c EXCEPT !.calls = @ + n]

Outcome(hit, c) == [hit |-> hit, call |-> c]

(* Certified rules run on the native engine, several of them as one.       *)
Native(rules, text, c) ==
  Outcome(\E rule \in ToSet(rules) : Matches(rule, text),
          Spent(Counted(Compatible(c, text), Len(rules)), Len(text) + 1))

(* The search for a required class that is missing, on the call's budget:  *)
(* what comes of the first n classes.                                      *)
Searched(classes, text, c) ==
  LET after[n \in 0 .. Len(classes)] ==
        LET before == after[n - 1]
        IN  IF n = 0 THEN Outcome(FALSE, c)
            ELSE IF before.hit \/ before.call.failed THEN before
            ELSE Outcome(classes[n] \intersect ToSet(text) = {},
                         Spent(before.call, (Len(text) + 1) * Cardinality(classes[n])))
  IN  after

Prefiltered(rule, text, c) ==
  LET classes == Required(rule.pattern)[Len(rule.pattern)]
  IN  Searched(classes, text, c)[Len(classes)]

Engine(rule, text, c) ==
  LET ready == Counted(Compatible(c, text), 1)
      missing == Prefiltered(rule, text, ready)
  IN  IF missing.hit /\ ~missing.call.failed THEN Outcome(FALSE, missing.call)
        ELSE Outcome(Matches(rule, text),
                     Spent(missing.call, (Len(text) + 1) * Cost(rule.pattern)))

(***************************************************************************)
(* The questions.  Each one that fails, now or before, is answered so that *)
(* nothing is shown: sensitive, and not selected.                          *)
(***************************************************************************)

(* A mistake: a rule that could not be run did not match. *)
DecidedOpen(role, o) == IF o.call.failed THEN Outcome(FALSE, o.call) ELSE o

Decided(role, o) ==
  IF o.call.failed THEN Outcome(role = "sensitive", o.call) ELSE o

TestRule(role, rule, text, c) ==
  Decided(role, IF c.failed THEN Outcome(FALSE, c)
                  ELSE IF rule.native THEN Native(<<rule>>, text, c)
                  ELSE Engine(rule, text, c))

(* The loop of any(): what comes of the first n rules. *)
Tested(role, rules, text, c) ==
  LET after[n \in 0 .. Len(rules)] ==
        LET before == after[n - 1]
        IN  IF n = 0 THEN Outcome(FALSE, c)
            ELSE IF before.hit THEN before
            ELSE TestRule(role, rules[n], text, before.call)
  IN  after

(* any(), for the rules of a role. *)
AnyRule(role, rules, policy, text, c) ==
  IF policy.closed \/ policy.invalid \/ c.failed THEN Outcome(role = "sensitive", Stopped(c))
  ELSE IF rules # <<>> /\ \A rule \in ToSet(rules) : rule.native
    THEN Decided(role, Native(rules, text, c))
    ELSE Tested(role, rules, text, c)[Len(rules)]

Include(policy, text, c) == AnyRule("selectors", policy.selectors, policy, text, c)

Sensitive(policy, text, c) == AnyRule("sensitive", policy.sensitive, policy, text, c)

(* A key is only tested against the rules of the user. *)
SensitiveKey(policy, text, c) ==
  AnyRule("sensitive", SubSeq(policy.sensitive, 1, Min({policy.custom, Len(policy.sensitive)})),
      policy, text, c)

(* sanitizeData() on one pair, detectSensitiveData() on the message. *)
Redacts(policy, pair, c) ==
  LET key == IF pair.key = NoKey THEN Outcome(FALSE, c)
               ELSE SensitiveKey(policy, pair.key, c)
  IN  IF key.hit THEN key ELSE Sensitive(policy, pair.value, key.call)

-----------------------------------------------------------------------------
VARIABLES
  options, policy,
  call,           \* of the record that is handled
  todo,           \* the pairs of that record that are not yet decided
  shown           \* history: the pairs of it that left in the clear

vars == <<options, policy, call, todo, shown>>

Idle == todo = <<>>

Init ==
  /\ options \in Options
  /\ policy = Compiled(options)
  /\ call = NewCall /\ todo = <<>> /\ shown = {}

Bounded(pairs) == SubSeq(pairs, 1, Min({Len(pairs), EntryLimit}))

(* filter() sanitizes the context first, then the message, then the labels. *)
Parts(record) ==
  Bounded(record.context) \o <<[key |-> NoKey, value |-> record.message]>>
    \o Bounded(record.labels)

(* beginRecord() and shouldProcess(), for a level that is enabled.         *)
Begin(record) ==
  LET selected == IF options.selectors = <<>> THEN Outcome(TRUE, NewCall)
                    ELSE Include(policy, record.message, NewCall)
  IN  /\ Idle
      /\ call' = selected.call
      /\ todo' = IF selected.hit THEN Parts(record) ELSE <<>>
      /\ shown' = {}
      /\ UNCHANGED <<options, policy>>

(* filter(), the next of its decisions. *)
Decide ==
  LET redacts == Redacts(policy, Head(todo), call)
  IN  /\ ~Idle
      /\ todo' = Tail(todo)
      /\ IF options.sanitize
           THEN /\ call' = redacts.call
                /\ shown' = IF redacts.hit THEN shown ELSE shown \union {Head(todo)}
           ELSE /\ UNCHANGED call
                /\ shown' = shown \union {Head(todo)}
      /\ UNCHANGED <<options, policy>>

(* The logger is destroyed; a policy that is closed has no rules.          *)
Close ==
  /\ Idle
  /\ ~policy.closed
  /\ policy' = [policy EXCEPT !.closed = TRUE, !.sensitive = <<>>, !.selectors = <<>>]
  /\ UNCHANGED <<options, call, todo, shown>>

Next == (\E record \in Records : Begin(record)) \/ Decide \/ Close

Spec == Init /\ [][Next]_vars

-----------------------------------------------------------------------------
(* Fail closed: while the policy sanitizes, nothing that one of its rules  *)
(* matches leaves in the clear, under a key or as the message, whatever    *)
(* was spent before it in the record, also when a rule cannot be compiled, *)
(* a text cannot be matched or the policy is closed; and the search for    *)
(* required characters (Policy.testRule) never hides a match.              *)
NothingSensitiveShown ==
  options.sanitize =>
    \A pair \in shown :
      /\ \A rule \in ToSet(options.sensitive \o options.builtins) :
           ~Matches(rule, pair.value)
      /\ \A rule \in ToSet(options.sensitive) :
           pair.key # NoKey => ~Matches(rule, pair.key)
=============================================================================
