----------------------------- MODULE MCPrivacy ------------------------------
(* Every pattern of two operators or less over three characters, alone or  *)
(* beside another rule, and budgets that some records exhaust.             *)
EXTENDS Privacy

CONSTANTS a, b, c

Class(chars) == <<[kind |-> "class", chars |-> chars]>>
Assertion == <<[kind |-> "assertion"]>>
Repeat(p, lo, hi) == Append(p, [kind |-> "repeat", of |-> Len(p), min |-> lo, max |-> hi])

\* The nodes of a pattern, after n others.
After(n, p) ==
  [k \in DOMAIN p |->
     CASE p[k].kind = "repeat" -> [p[k] EXCEPT !.of = @ + n]
       [] p[k].kind \in {"sequence", "alternative"} -> [p[k] EXCEPT !.left = @ + n, !.right = @ + n]
       [] OTHER -> p[k]]
Both(how, p, q) ==
  p \o After(Len(p), q) \o <<[kind |-> how, left |-> Len(p), right |-> Len(p) + Len(q)]>>

Leaves == {Class({a}), Class({b}), Class({a, b}), Class({a, b, c}), Assertion}
Repeats == {Repeat(p, r[1], r[2]) : p \in Leaves, r \in {<<0, 1>>, <<1, 2>>, <<1, Unbounded>>}}
Simple == Leaves \union Repeats
Two == {Both(how, p, q) : how \in {"sequence", "alternative"}, p \in Simple, q \in Simple}
MCPatterns == Simple \union Two
              \union {Repeat(p, r, 1) : p \in Two, r \in {0, 1}}

Rule(p) == [pattern |-> p, sticky |-> FALSE, native |-> FALSE]
Sticky(p) == [pattern |-> p, sticky |-> TRUE, native |-> FALSE]
Certified(p) == [pattern |-> p, sticky |-> FALSE, native |-> TRUE]

Word == Certified(Both("sequence", Class({b}), Class({c})))

Option(user, builtins, selectors, sanitize) ==
  [sensitive |-> user, builtins |-> builtins, selectors |-> selectors, sanitize |-> sanitize]

MCOptions ==
  {Option(<<Rule(p)>>, <<>>, <<>>, TRUE) : p \in MCPatterns}
  \union {Option(<<Rule(p), Rule(q)>>, <<Word>>, <<>>, TRUE) : p, q \in Leaves}
  \union {Option(<<Sticky(p)>>, <<Word>>, <<Rule(Class({b}))>>, TRUE) : p \in Simple}
  \union {Option(<<Certified(p)>>, <<Word>>, <<>>, s) : p \in Simple, s \in BOOLEAN}

MCTexts == UNION {[1 .. n -> {a, b, c}] : n \in 1 .. 2} \union {<<>>, <<Broken>>, <<c, c, a>>}
Pair(k, v) == [key |-> k, value |-> v]

MCChars == {a, b, c}

MCRecords ==
  [message : {<<a>>, <<b, c>>},
   context : {<<>>} \union {<<Pair(k, v)>> : k \in {<<a>>, <<c>>}, v \in MCTexts},
   labels : {<<>>, <<Pair(<<b>>, <<c, b>>), Pair(<<c>>, <<a, c>>)>>}]
=============================================================================
