------------------------------ MODULE Versions ------------------------------
(***************************************************************************)
(* f8a_worker/solver.py: how versions are compared, how a specification of *)
(* an ecosystem is parsed, and how it is checked.                          *)
(*                                                                         *)
(* A version is the sequence of the parts between its dots and dashes: a   *)
(* natural number, or a negative one that stands for a word ("rc1",        *)
(* "Final": different words are different numbers).  A specification is a  *)
(* sequence of clauses of which one must hold, a clause a sequence of      *)
(* constraints which must all hold.                                        *)
(***************************************************************************)
EXTENDS Integers, Positions

CONSTANT Samples   (* versions to try the operators on                     *)

ASSUME SampleAssumption == Samples \subseteq Seq(Int)

VARIABLE sample    (* three of them                                        *)

Con(o, v) == [op |-> o, ver |-> v]
Dep(n, s) == [name |-> n, spec |-> s]

(* A part that is not a number counts as -1.                               *)
AsNumber(p) == IF p >= 0 THEN p ELSE -1

(* The shorter version is padded with zeros, above any word.               *)
Cardinal(v, n) == [i \in 1..n |-> IF i <= Len(v) THEN AsNumber(v[i]) ELSE 0]

Longest(a, b) == IF Len(a) > Len(b) THEN Len(a) ELSE Len(b)

Differ(l, r) == {i \in DOMAIN l : l[i] # r[i]}

(* Variant: stop at the end of the shorter version.                        *)
CompareUnpadded(a, b) ==
    LET n == Len(a) + Len(b) - Longest(a, b)
        l == Cardinal(a, n)
        r == Cardinal(b, n)
    IN  IF Differ(l, r) = {} THEN 0
        ELSE IF l[FirstOf(Differ(l, r))] > r[FirstOf(Differ(l, r))] THEN 1 ELSE -1

(* Python compares the two lists lexicographically.                        *)
compare_version(a, b) ==
    LET n == Longest(a, b)
        l == Cardinal(a, n)
        r == Cardinal(b, n)
    IN  IF Differ(l, r) = {} THEN 0
        ELSE IF l[FirstOf(Differ(l, r))] > r[FirstOf(Differ(l, r))] THEN 1 ELSE -1

(* Variant: the releases as the registry lists them.                       *)
NotSorted(s) == s

(* sorted(versions, key=cmp_to_key(compare_version)), which is stable.     *)
SortsBefore(s, j, i) == LET c == compare_version(s[j], s[i])
                        IN  c < 0 \/ (c = 0 /\ j <= i)

SortedTo(s, k) == CHOOSE i \in DOMAIN s : Cardinality({j \in DOMAIN s : SortsBefore(s, j, i)}) = k

Sorted(s) == [k \in DOMAIN s |-> s[SortedTo(s, k)]]
-----------------------------------------------------------------------------
(* Dependency.check; a constraint without an operator means "=".           *)
CompareSpec(version, c) ==
    LET comparison == compare_version(version, c.ver)
    IN  CASE c.op \in {"", "=", "=="} -> comparison = 0
          [] c.op = ">"               -> comparison = 1
          [] c.op = "<"               -> comparison = -1
          [] c.op = ">="              -> comparison >= 0
          [] c.op = "<="              -> comparison <= 0
          [] c.op = "!="              -> comparison # 0

CheckAll(version, clause) == \A i \in DOMAIN clause : CompareSpec(version, clause[i])

check(version, spec) == \E i \in DOMAIN spec : CheckAll(version, spec[i])
-----------------------------------------------------------------------------
AnyVersion == <<Con(">=", <<0, 0, 0>>)>>
Star       == <<Con("*", << >>)>>

(* NpmDependencyParser._parse_npm: the semver-ranger tool prints           *)
(* alternatives of one or two constraints or "*"; when it prints "null"    *)
(* (no alternative here) the dependency is left out.                       *)
ParseNpm(raws) ==
    LET Kept == Picked(raws, {i \in DOMAIN raws : raws[i].range # << >>})
        Clause(alt) == IF alt = Star THEN AnyVersion ELSE alt
    IN  [i \in DOMAIN Kept |->
            Dep(Kept[i].name, [j \in DOMAIN Kept[i].range |-> Clause(Kept[i].range[j])])]

(* ~= V.N is >= V.N and < V + 1; words after the numbers are ignored, and  *)
(* pip refuses ~= with a single part.                                      *)
LastNumber(v) == CHOOSE i \in DOMAIN v : v[i] >= 0 /\ \A j \in DOMAIN v : j > i => v[j] < 0

CompatibleRelease(v) ==
    LET k == LastNumber(v) - 1
    IN  <<Con(">=", v), Con("<", [i \in 1..k |-> IF i = k THEN v[i] + 1 ELSE v[i]])>>

(* PypiDependencyParser._parse_python: all specifiers make one clause,     *)
(* none means any version.  The tool expands "==V.*" for a V of one or two *)
(* numbers; what it prints otherwise cannot be split in two, and the       *)
(* specifier stays, with a star for its last part.                         *)
Expandable(v) == Len(v) <= 2 /\ \A i \in DOMAIN v : v[i] >= 0
StarPart == <<-1>>

ExtractOpVersion(c) ==
    CASE c.op = "~="  -> CompatibleRelease(c.ver)
      [] c.op = "==*" -> IF Expandable(c.ver) THEN CompatibleRelease(c.ver \o <<0>>)
                         ELSE <<Con("==", c.ver \o StarPart)>>
      [] c.op = "===" -> <<Con("==", c.ver)>>
      [] OTHER        -> <<c>>

ParsePypi(raws) ==
    LET Join(s) == LET J[i \in 0..Len(s)] ==
                           IF i = 0 THEN << >> ELSE J[i - 1] \o ExtractOpVersion(s[i])
                   IN  IF s = << >> THEN AnyVersion ELSE J[Len(s)]
    IN  [i \in DOMAIN raws |-> Dep(raws[i].name, <<Join(raws[i].range)>>)]
-----------------------------------------------------------------------------
(* NugetDependencyParser.parse.  A range is [open, lo, comma, hi, close],  *)
(* a bound << >> when it is empty and Space when it is one blank.          *)
Space     == <<-1>>
NoBranch  == Dep("no branch", << >>)
BadRange  == Dep("ValueError", << >>)
Unbound   == Dep("UnboundLocalError", << >>)
ParseErrors == {BadRange, Unbound}

(* "[1.0,]" and "[,1.0]" are read as a version with a comma in it.         *)
Garbled(r) == IF r.lo # << >> THEN [r.lo EXCEPT ![Len(r.lo)] = -1]
              ELSE IF r.hi # << >> THEN [r.hi EXCEPT ![1] = -1] ELSE <<-1>>

NugetRange(name, r) ==
    LET lo == r.lo # << >>  hi == r.hi # << >>  form == <<r.open, r.close>>
        D(cons)  == Dep(name, <<cons>>)
        above(o) == IF lo THEN <<Con(o, r.lo)>> ELSE << >>
        below(o) == IF hi THEN <<Con(o, r.hi)>> ELSE << >>
    IN  CASE form = <<"", "">>   -> D(<<Con(">=", r.lo)>>)
          [] form = <<"[", "]">> -> IF ~r.comma THEN IF lo THEN D(<<Con("==", r.lo)>>) ELSE NoBranch
                                    ELSE IF lo /\ hi THEN D(above(">=") \o below("<="))
                                    ELSE D(<<Con("==", Garbled(r))>>)
          [] form = <<"(", ")">> -> IF r.comma /\ (lo \/ hi) THEN D(above(">") \o below("<"))
                                    ELSE IF r.comma \/ lo THEN BadRange ELSE NoBranch
          [] form = <<"[", ")">> -> IF ~(r.comma /\ lo /\ hi) THEN NoBranch
                                    ELSE IF r.hi = Space THEN D(above(">="))
                                    ELSE D(above(">=") \o below("<"))
          [] form = <<"(", "]">> -> IF r.comma /\ ~lo /\ hi THEN D(below("<=")) ELSE NoBranch
          [] OTHER               -> NoBranch

(* A range that no branch recognises leaves the variable of the previous   *)
(* one, which is appended again; the first has none.                       *)
ParseNuget(raws) ==
    LET Ranged(j) == NugetRange(raws[j].name, raws[j].range)
        known(i)  == {j \in 1..i : Ranged(j) # NoBranch}
    IN  [i \in DOMAIN raws |-> IF known(i) = {} THEN Unbound ELSE Ranged(LastOf(known(i)))]
-----------------------------------------------------------------------------
(* NpmDependencyParser.restrict_versions over [name, op, ver] constraints: *)
(* per name and operator the highest lower bound or the lowest upper one;  *)
(* any other operator takes the version the loop used before.              *)
Highest(vs)      == Sorted(vs)[Len(vs)]

restrict_versions(cons) ==
    LET NamePos(n) == FirstOf({i \in DOMAIN cons : cons[i].name = n})
        KeyPos(c)  == FirstOf({i \in DOMAIN cons :
                                  cons[i].name = c.name /\ cons[i].op = c.op})
        keys       == {i \in DOMAIN cons : KeyPos(cons[i]) = i}
        Earlier(j, i) == \/ NamePos(cons[j].name) < NamePos(cons[i].name)
                         \/ cons[j].name = cons[i].name /\ j < i
        before(i)  == {j \in keys : Earlier(j, i)}
        Given(c) == Picked([i \in DOMAIN cons |-> cons[i].ver],
                           {i \in DOMAIN cons : cons[i].name = c.name /\ cons[i].op = c.op})
        Restricting(c) == IF c.op \in {">", ">="} THEN Highest(Given(c)) ELSE Sorted(Given(c))[1]
        chosen(i) == {j \in before(i) \cup {i} : cons[j].op \in {">", ">=", "<", "<="}}
        Latest(S) == CHOOSE j \in S : \A k \in S : k = j \/ Earlier(k, j)
        Used(i)   == IF chosen(i) = {} THEN cons[Len(cons)].ver ELSE Restricting(cons[Latest(chosen(i))])
    IN  {[name |-> cons[i].name, op |-> cons[i].op, ver |-> Used(i)] : i \in keys}
-----------------------------------------------------------------------------
SampleInit == sample \in [1..3 -> Samples]

(* sorted() needs an order: compare_version is one up to the versions that *)
(* it finds equal, also between versions of different lengths.             *)
CompareIsOrder ==
    LET a == sample[1]  b == sample[2]  c == sample[3]
    IN  /\ compare_version(a, b) = -compare_version(b, a)
        /\ compare_version(a, b) >= 0 /\ compare_version(b, c) >= 0 =>
               /\ compare_version(a, c) >= 0
               /\ compare_version(a, c) = 0 => compare_version(a, b) = 0

(* ~= in the words of PEP 440, which the code quotes: at least the version *)
(* and equal to it in all parts but the last.                              *)
CompatibleIsPrefixMatch ==
    LET v == sample[1]  w == sample[2]  n == Longest(v, w)
        Numbers(x) == \A i \in DOMAIN x : x[i] >= 0
    IN  Numbers(v) /\ Numbers(w) /\ Len(v) > 1 =>
            (CheckAll(w, CompatibleRelease(v)) <=>
                /\ compare_version(w, v) >= 0
                /\ \A i \in 1..(Len(v) - 1) : Cardinal(w, n)[i] = v[i])

(* Keeping only the most restricting constraint of each operator changes   *)
(* nothing for any version.                                                *)
RestrictKeepsMeaning ==
    \A lower \in {">", ">="}, upper \in {"<", "<="}, w \in Samples :
        LET Named(c) == [name |-> "x", op |-> c.op, ver |-> c.ver]
            cons == <<Con(lower, sample[1]), Con(upper, sample[2]),
                      Con(lower, sample[3]), Con(upper, sample[3])>>
            kept == restrict_versions([i \in DOMAIN cons |-> Named(cons[i])])
        IN  CheckAll(w, cons) <=> \A c \in kept : CompareSpec(w, c)

(* What the solvers rely on when they sort versions, expand an operator and *)
(* keep only the most restricting constraints.                             *)
VersionsAgree ==
    sample # << >> => CompareIsOrder /\ CompatibleIsPrefixMatch /\ RestrictKeepsMeaning
=============================================================================
