------------------------------- MODULE Lists -------------------------------
(***************************************************************************)
(* The list comprehensions of the code, [x for x in s if ...], and its     *)
(* assignments to an entry of a dict.  They are operators of their own     *)
(* instead of SelectSeq and @@, of which the provers know nothing.         *)
(***************************************************************************)
EXTENDS Naturals, Sequences

\* What of the first i entries of s is in P, in their order, for every i.
Kept(s, P) ==
  LET kept[i \in 0..Len(s)] ==
        IF i = 0 THEN <<>>
        ELSE IF s[i] \in P THEN Append(kept[i - 1], s[i]) ELSE kept[i - 1]
  IN kept
\* [x for x in s if x in P]
Only(s, P) == Kept(s, P)[Len(s)]

\* The different ones of the first i entries of s, by where each is first.
Firsts(s) ==
  LET firsts[i \in 0..Len(s)] ==
        IF i = 0 THEN <<>>
        ELSE IF \E j \in 1..(i - 1) : s[j] = s[i] THEN firsts[i - 1] ELSE Append(firsts[i - 1], s[i])
  IN firsts
\* for x in s: if x not in seen: ...
Distinct(s) == Firsts(s)[Len(s)]

\* The dict d after d[k] = v.
Put(d, k, v) == [x \in DOMAIN d \cup {k} |-> IF x = k THEN v ELSE d[x]]
============================================================================
