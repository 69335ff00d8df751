--------------------------- MODULE CodeEval_proofs ---------------------------
(***************************************************************************)
(* Proofs about CodeEval, for any rows, crates, suites and requests, any   *)
(* number of evaluations and raters, and any number of interruptions and   *)
(* of calls that time out.                                                 *)
(***************************************************************************)
EXTENDS CodeEval, FiniteSetTheorems, TLAPS


-----------------------------------------------------------------------------
(* Rounding, and the scale of a rate. *)

\* What \div and % mean.
LEMMA Division ==
    ASSUME NEW n \in Nat, NEW d \in Nat \ {0}
    PROVE  /\ n \div d \in Nat /\ n % d \in 0 .. d - 1
           /\ n = (n \div d) * d + (n % d)
<1> d \in Nat /\ d > 0
  OBVIOUS
<1>1. n = (n \div d) * d + (n % d)
  BY SMT
<1>2. n \div d \in Nat
  OBVIOUS
<1>3. n % d \in 0 .. d - 1
  OBVIOUS
<1> QED
  BY <1>1, <1>2, <1>3, Zenon

\* Products compare as their factors do.
LEMMA Products ==
    ASSUME NEW x \in Nat, NEW y \in Nat, NEW z \in Nat
    PROVE  /\ x <= y => x * z <= y * z
           /\ x < y /\ z # 0 => x * z < y * z
           /\ x * z \in Nat
<1>1. x * z \in Nat /\ y * z \in Nat
  OBVIOUS
<1>2. ASSUME NEW m \in Nat, y = x + m PROVE y * z = x * z + m * z /\ m * z \in Nat
  BY <1>2
<1>3. ASSUME x <= y PROVE x * z <= y * z
  <2>1. y - x \in Nat /\ y = x + (y - x)
    BY <1>3
  <2> QED
    BY <1>1, <1>2, <2>1
<1>4. ASSUME x < y, z # 0 PROVE x * z < y * z
  <2>1. y - x \in Nat /\ y = x + (y - x) /\ y - x # 0
    BY <1>4
  <2>2. (y - x) * z > 0
    BY <1>4, <2>1
  <2> QED
    BY <1>1, <1>2, <2>1, <2>2
<1> QED
  BY <1>1, <1>3, <1>4

\* What is rounded is off by a half at most.
LEMMA NearestBounds ==
    ASSUME NEW n \in Nat, NEW d \in Nat \ {0}
    PROVE  /\ Nearest(n, d) \in Nat
           /\ 2 * n <= 2 * (Nearest(n, d) * d) + d
           /\ 2 * (Nearest(n, d) * d) <= 2 * n + d
<1> DEFINE q == n \div d
           r == n % d
<1>1. q \in Nat /\ r \in Nat /\ r < d /\ n = q * d + r
  BY Division
<1>2. Nearest(n, d) = IF 2 * r < d \/ (2 * r = d /\ q % 2 = 0) THEN q ELSE q + 1
  BY DEF Nearest
<1> HIDE DEF q, r
<1>3. q * d \in Nat /\ (q + 1) * d = q * d + d
  BY <1>1
<1>4. CASE Nearest(n, d) = q /\ 2 * r <= d
  BY <1>1, <1>3, <1>4
<1>5. CASE Nearest(n, d) = q + 1 /\ 2 * r >= d
  BY <1>1, <1>3, <1>5
<1> QED
  BY <1>1, <1>2, <1>4, <1>5

\* What is larger is not rounded to less.
LEMMA NearestMonotone ==
    ASSUME NEW a \in Nat, NEW b \in Nat \ {0}, NEW c \in Nat, NEW d \in Nat \ {0},
           a * d <= c * b
    PROVE  Nearest(a, b) <= Nearest(c, d)
<1> DEFINE p == a \div b
           q == c \div d
           r == a % b
           s == c % d
<1>1. p \in Nat /\ r \in Nat /\ r < b /\ a = p * b + r
  BY Division
<1>2. q \in Nat /\ s \in Nat /\ s < d /\ c = q * d + s
  BY Division
<1>3. /\ Nearest(a, b) = IF 2 * r < b \/ (2 * r = b /\ p % 2 = 0) THEN p ELSE p + 1
      /\ Nearest(c, d) = IF 2 * s < d \/ (2 * s = d /\ q % 2 = 0) THEN q ELSE q + 1
  BY DEF Nearest
<1> HIDE DEF p, q, r, s
<1>4. /\ a * d = p * (b * d) + r * d
      /\ c * b = q * (b * d) + s * b
      /\ b * d \in Nat \ {0} /\ p * (b * d) \in Nat /\ q * (b * d) \in Nat
      /\ r * d \in Nat /\ s * b \in Nat
  <2>1. a * d = (p * b) * d + r * d /\ (p * b) * d = p * (b * d)
    BY <1>1
  <2>2. c * b = (q * d) * b + s * b /\ (q * d) * b = q * (b * d)
    BY <1>2
  <2>3. b * d \in Nat \ {0} /\ r * d \in Nat /\ s * b \in Nat
    BY <1>1, <1>2
  <2> QED
    BY <1>1, <1>2, <2>1, <2>2, <2>3
<1>5. CASE p < q
  BY <1>1, <1>2, <1>3, <1>5
<1>6. CASE p = q
  <2>1. r * d <= s * b
    BY <1>4, <1>6
  <2>2. ASSUME 2 * s <= d, s * b \in Nat PROVE 2 * r <= b
    <3>1. (2 * s) * b <= d * b
      BY <1>2, <2>2, Products
    <3>2. (2 * r) * d <= b * d
      BY <1>1, <1>2, <2>1, <3>1
    <3> QED
      BY <1>1, <3>2, Products
  <2>3. ASSUME 2 * s < d PROVE 2 * r < b
    <3>1. (2 * s) * b < d * b
      BY <1>2, <2>3, Products
    <3>2. (2 * r) * d < b * d
      BY <1>1, <1>2, <2>1, <3>1
    <3> QED
      BY <1>1, <3>2, Products
  <2> QED
    BY <1>1, <1>2, <1>3, <1>4, <1>6, <2>2, <2>3
<1>7. CASE q < p
  <2>1. (q + 1) * (b * d) <= p * (b * d)
    BY <1>1, <1>2, <1>4, <1>7, Products
  <2>2. (q + 1) * (b * d) = q * (b * d) + b * d
    BY <1>2, <1>4
  <2>3. s * b < d * b /\ d * b = b * d
    BY <1>2, Products
  <2> QED
    BY <1>4, <2>1, <2>2, <2>3
<1> QED
  BY <1>1, <1>2, <1>5, <1>6, <1>7

\* Two quotients that are less than g - 1 apart are rounded to less than g apart.
LEMMA RoundedGap ==
    ASSUME NEW a \in Nat, NEW b \in Nat \ {0}, NEW c \in Nat, NEW d \in Nat \ {0}, NEW g \in Nat,
           a * d - c * b < (g - 1) * (b * d)
    PROVE  Nearest(a, b) - Nearest(c, d) < g
<1> DEFINE p == Nearest(a, b)
           q == Nearest(c, d)
<1>1. p \in Nat /\ 2 * (p * b) <= 2 * a + b
  BY NearestBounds
<1>2. q \in Nat /\ 2 * c <= 2 * (q * d) + d
  BY NearestBounds
<1> HIDE DEF p, q
<1> SUFFICES ASSUME p >= q + g PROVE FALSE
  BY <1>1, <1>2 DEF p, q
<1>3. (2 * (p * b)) * d <= (2 * a + b) * d
  BY <1>1, Products
<1>4. (2 * c) * b <= (2 * (q * d) + d) * b
  BY <1>2, Products
<1>5. (q + g) * (b * d) <= p * (b * d)
  <2>1. b * d \in Nat /\ q + g \in Nat
    BY <1>2
  <2> QED
    BY <1>1, <2>1, Products
<1> DEFINE B == b * d
           A == a * d
           C == c * b
           X == p * B
           Y == q * B
           G == g * B
<1>6. A \in Nat /\ B \in Nat /\ C \in Nat /\ X \in Nat /\ Y \in Nat /\ G \in Nat
  BY <1>1, <1>2
<1>7. 2 * X <= 2 * A + B
  <2>1. (2 * (p * b)) * d = 2 * X
    BY <1>1
  <2>2. (2 * a + b) * d = 2 * A + B
    OBVIOUS
  <2> QED
    BY <1>3, <2>1, <2>2
<1>8. 2 * C <= 2 * Y + B
  <2>1. (2 * c) * b = 2 * C
    OBVIOUS
  <2>2. (2 * (q * d) + d) * b = 2 * Y + B
    BY <1>2
  <2> QED
    BY <1>4, <2>1, <2>2
<1>9. Y + G <= X
  <2>1. (q + g) * B = Y + G
    BY <1>2
  <2> QED
    BY <1>5, <2>1
<1>10. A - C < G - B
  <2>1. (g - 1) * B = G - B
    OBVIOUS
  <2> QED
    BY <2>1
<1> HIDE DEF A, B, C, X, Y, G
<1> QED
  BY <1>6, <1>7, <1>8, <1>9, <1>10

\* A whole number stays what it is.
LEMMA NearestExact ==
    ASSUME NEW z \in Nat, NEW d \in Nat \ {0}
    PROVE  Nearest(z * d, d) = z
<1> DEFINE n == z * d
           y == Nearest(n, d)
<1>1. n \in Nat
  OBVIOUS
<1>2. y \in Nat /\ 2 * n <= 2 * (y * d) + d /\ 2 * (y * d) <= 2 * n + d
  <2> HIDE DEF n
  <2> QED
    BY <1>1, NearestBounds
<1> HIDE DEF y
<1>3. ~(y < z)
  <2> SUFFICES ASSUME y < z PROVE FALSE
    OBVIOUS
  <2>1. (y + 1) * d <= z * d
    BY <1>2, Products
  <2>2. (y + 1) * d = y * d + d /\ y * d \in Nat
    BY <1>2
  <2> QED
    BY <1>1, <1>2, <2>1, <2>2
<1>4. ~(z < y)
  <2> SUFFICES ASSUME z < y PROVE FALSE
    OBVIOUS
  <2>1. (z + 1) * d <= y * d
    BY <1>2, Products
  <2>2. (z + 1) * d = z * d + d /\ y * d \in Nat
    BY <1>2
  <2> QED
    BY <1>1, <1>2, <2>1, <2>2
<1> QED
  BY <1>2, <1>3, <1>4 DEF y

\* 5 is given from 4.5 on, 1 up to 1.5.
LEMMA NearestIs ==
    ASSUME NEW n \in Nat, NEW d \in Nat \ {0}
    PROVE  /\ Nearest(n, d) = 5 => 9 * d <= 2 * n
           /\ Nearest(n, d) = 1 => 2 * n <= 3 * d
           /\ Nearest(d, d) = 1
<1>1. Nearest(1 * d, d) = 1 /\ 1 * d = d
  BY NearestExact
<1>2. 2 * n <= 2 * (Nearest(n, d) * d) + d /\ 2 * (Nearest(n, d) * d) <= 2 * n + d
  BY NearestBounds
<1>3. Nearest(n, d) = 5 => 9 * d <= 2 * n
  BY <1>2
<1>4. Nearest(n, d) = 1 => 2 * n <= 3 * d
  BY <1>2
<1> QED
  BY <1>1, <1>3, <1>4

\* A rate of n in d comes to a score of 1 to 5.
LEMMA RateInRange ==
    ASSUME NEW d \in Nat \ {0}, NEW n \in 0 .. d
    PROVE  RateToScore(n, d) \in 1 .. 5
<1> DEFINE x == RateToScore(n, d)
<1>1. d + 4 * n \in Nat /\ d \in Nat /\ 5 * d \in Nat
  OBVIOUS
<1>2. Nearest(d, d) = 1 /\ Nearest(5 * d, d) = 5
  BY NearestExact, NearestIs
<1>3. Nearest(d, d) <= x
  <2>1. d * d <= (d + 4 * n) * d
    BY Products, <1>1
  <2> QED
    BY <1>1, <2>1, NearestMonotone DEF RateToScore
<1>4. x <= Nearest(5 * d, d)
  <2>1. (d + 4 * n) * d <= (5 * d) * d
    BY Products, <1>1
  <2> QED
    BY <1>1, <2>1, NearestMonotone DEF RateToScore
<1>5. x \in Nat
  BY <1>1, NearestBounds DEF RateToScore
<1> HIDE DEF x
<1> QED
  BY <1>2, <1>3, <1>4, <1>5 DEF x

\* A higher rate does not come to a lower score, whatever it is a rate of.
LEMMA RateMonotone ==
    ASSUME NEW d \in Nat \ {0}, NEW n \in Nat, NEW c \in Nat \ {0}, NEW m \in Nat,
           m * d <= n * c
    PROVE  RateToScore(m, c) <= RateToScore(n, d)
<1>1. d + 4 * n \in Nat /\ c + 4 * m \in Nat
  OBVIOUS
<1>2. (c + 4 * m) * d <= (d + 4 * n) * c
  <2>1. (c + 4 * m) * d = c * d + 4 * (m * d) /\ (d + 4 * n) * c = c * d + 4 * (n * c)
    OBVIOUS
  <2>2. c * d \in Nat /\ m * d \in Nat /\ n * c \in Nat
    OBVIOUS
  <2> QED
    BY <2>1, <2>2
<1> QED
  BY <1>1, <1>2, NearestMonotone DEF RateToScore

-----------------------------------------------------------------------------
(* The invariant: what is measured so far is true of the crate, and with   *)
(* the calls to come it is what was asked for.                             *)

PCs     == {"new", "calls", "finish", "complete", "failed"}
Calling == {"deps", "compile", "baseline", "mutants", "structural"} \cup Suites

Typed ==
    /\ crate \in [Rows -> Crates \cup {NoCrate}]
    /\ scores = [r \in Rows |-> scores[r]]
    /\ pc \in [Evals -> PCs]
    /\ ask \in [Evals -> EvalRequest]
    /\ todo \in [Evals -> Seq(Calling)]
    /\ dims = [e \in Evals |-> dims[e]]
    /\ blurred \subseteq Evals

\* f says nothing of the crate k that is not true, whatever failed (b).
Sound(q, k, f, b) ==
    /\ "deps" \in DOMAIN f /\ f["deps"] = 1 => \E d \in k.deps : Offender(d)
    /\ "compile" \in DOMAIN f =>
          /\ f["compile"] \in {1, 5}
          /\ f["compile"] = 5 => k.builds /\ q.gate
          /\ f["compile"] = 1 => b \/ ~k.builds \/ ~q.gate
    /\ \A s \in Suites \cap DOMAIN f : f[s] = SuiteScore(k, s) \/ (f[s] = 1 /\ b)
    /\ "mutation" \in DOMAIN f => k.own = "passing" /\ (f["mutation"] > 1 => k.killed > 0)
    /\ "structural" \in DOMAIN f =>
          /\ "compile" \in DOMAIN f
          /\ f["structural"] = 5 => Clean(k) /\ (f["compile"] = 5 => k.lints)
          /\ f["structural"] = 1 => b \/ ~Clean(k) \/ ~k.lints

Gated(q) == <<"compile">> \o Behind(q)

\* The calls t to come and the dimensions of f make up what q asks for.
Whole(q, k, f, b, t) ==
    IF "compile" \notin DOMAIN f
    THEN /\ t \in {Calls(q), Gated(q)}
         /\ DOMAIN f \subseteq {"deps"}
    ELSE IF f["compile"] = 5
    THEN /\ Range(t) \subseteq q.suites \cup {"baseline", "mutants", "structural"}
         /\ \A s \in q.suites : s \in DOMAIN f \cup Range(t)
         /\ "mutants" \in Range(t) => k.own = "passing"
         /\ q.mutants /\ k.own = "passing" /\ k.killed > 0 /\ ~b
               => "mutation" \in DOMAIN f \/ "baseline" \in Range(t) \/ "mutants" \in Range(t)
    ELSE /\ Range(t) \subseteq {"structural"}
         /\ DOMAIN f \subseteq {"deps", "compile", "structural"}

\* What an evaluation measures in which no call fails: the dimensions that apply, and what
\* each of them comes to.
Passes(q, k) == q.gate /\ k.builds

Applies(q, k) ==
    {d \in Dimensions :
        \/ d = "compile"
        \/ d = "deps" /\ q.deps
        \/ d = "structural" /\ q.structural
        \/ d \in q.suites /\ Passes(q, k)
        \/ /\ d = "mutation" /\ q.mutants /\ Passes(q, k)
           /\ k.own = "passing" /\ k.killed + k.missed # 0}

Score(q, k, d) ==
    CASE d = "deps"       -> IF \E x \in k.deps : Offender(x) THEN 1 ELSE 5
      [] d = "compile"    -> IF Passes(q, k) THEN 5 ELSE 1
      [] d = "structural" -> IF Clean(k) /\ (Passes(q, k) => k.lints) THEN 5 ELSE 1
      [] d = "mutation"   -> RateToScore(k.killed, k.killed + k.missed)
      [] OTHER            -> SuiteScore(k, d)

\* The calls that lead to a dimension, and those that are asked for.
Ahead(d) == IF d = "mutation" THEN {"baseline", "mutants"} ELSE {d}

Asked(q) ==
    {c \in Calling :
        \/ c = "compile" \/ c \in q.suites
        \/ c = "deps" /\ q.deps
        \/ c = "structural" /\ q.structural
        \/ c \in {"baseline", "mutants"} /\ q.mutants}

\* f is what a clear evaluation measures, but for what the calls t have still to find.
Exact(q, k, f, t) ==
    /\ DOMAIN f \subseteq Applies(q, k)
    /\ \A d \in DOMAIN f : f[d] = Score(q, k, d)
    /\ \A d \in Applies(q, k) \ DOMAIN f : Ahead(d) \cap Range(t) # {}
    /\ Range(t) \subseteq Asked(q)

Holds(q, k, f, b, t) ==
    Sound(q, k, f, b) /\ Whole(q, k, f, b, t) /\ (~b => Exact(q, k, f, t))

Running(e) ==
    /\ Subject(e) \in Crates
    /\ Holds(ask[e], Subject(e), dims[e], e \in blurred, todo[e])

Recorded(r, x) ==
    /\ pc[x.by] \in {"finish", "complete", "failed"} /\ ask[x.by].target = r
    /\ crate[r] \in Crates
    /\ Holds(ask[x.by], crate[r], x.dims, x.by \in blurred, <<>>)

Kept(e) == (pc[e] = "new" => dims[e] = NoDims) /\ (pc[e] = "calls" => Running(e))

IInv ==
    /\ Typed
    /\ \A e \in Evals : Kept(e)
    /\ \A r \in Rows : \A x \in scores[r] : x.by \in Evals => Recorded(r, x)

-----------------------------------------------------------------------------
(* The calls that an evaluation makes. *)

\* What two sequences hold together.
LEMMA RangeOfConcat ==
    ASSUME NEW S, NEW s \in Seq(S), NEW t \in Seq(S)
    PROVE  s \o t \in Seq(S) /\ Range(s \o t) = Range(s) \cup Range(t)
<1> s \o t \in Seq(S)
  OBVIOUS
<1>1. Range(s \o t) \subseteq Range(s) \cup Range(t)
  BY DEF Range
<1>2. ASSUME NEW x \in Range(s) PROVE x \in Range(s \o t)
  <2>1. PICK i \in DOMAIN s : x = s[i]
    BY DEF Range
  <2> i \in DOMAIN (s \o t) /\ (s \o t)[i] = x
    BY <2>1
  <2> QED
    BY DEF Range
<1>3. ASSUME NEW x \in Range(t) PROVE x \in Range(s \o t)
  <2>1. PICK i \in DOMAIN t : x = t[i]
    BY DEF Range
  <2> Len(s) + i \in DOMAIN (s \o t) /\ (s \o t)[Len(s) + i] = x
    BY <2>1
  <2> QED
    BY DEF Range
<1> QED
  BY <1>1, <1>2, <1>3

\* SetToSeq lists the members of a finite set, and nothing else.
LEMMA ListsAll ==
    ASSUME NEW S, IsFiniteSet(S)
    PROVE  SetToSeq(S) \in Seq(S) /\ Range(SetToSeq(S)) = S
<1> DEFINE n == Cardinality(S)
           f == SetToSeq(S)
<1>1. n \in Nat
  BY FS_CardinalityType
<1>2. \E g : g \in [1 .. n -> S] /\ IsInjective(g)
  <2>1. PICK g : g \in Bijection(1 .. n, S)
    BY FS_CardinalityType, <1>1 DEF ExistsBijection
  <2> QED
    BY <2>1 DEF Bijection, Injection, IsInjective
<1>3. f \in [1 .. n -> S] /\ IsInjective(f)
  BY <1>2 DEF SetToSeq
<1> HIDE DEF f
<1>4. f \in Seq(S)
  BY <1>1, <1>3
<1>5. Range(f) = S
  <2>1. f \in Injection(1 .. n, S)
    BY <1>3 DEF Injection, IsInjective
  <2>2. f \in Surjection(1 .. n, S)
    <3>1. Cardinality(1 .. n) = n
      BY <1>1, FS_Interval
    <3> QED
      BY <2>1, <3>1, FS_Injection
  <2> QED
    BY <2>2 DEF Surjection, Range
<1> QED
  BY <1>4, <1>5 DEF f

\* What a sequence holds is its head and what its tail holds.
LEMMA HeadAndTail ==
    ASSUME NEW S, NEW t \in Seq(S), t # <<>>
    PROVE  /\ Head(t) \in S /\ Tail(t) \in Seq(S)
           /\ Range(t) = {Head(t)} \cup Range(Tail(t))
<1>1. Head(t) \in S /\ Tail(t) \in Seq(S)
  OBVIOUS
<1>2. Range(t) \subseteq {Head(t)} \cup Range(Tail(t))
  <2> SUFFICES ASSUME NEW i \in DOMAIN t, i # 1
               PROVE  t[i] \in Range(Tail(t))
    BY DEF Range
  <2>1. i - 1 \in DOMAIN Tail(t) /\ Tail(t)[i - 1] = t[i]
    OBVIOUS
  <2> QED
    BY <2>1 DEF Range
<1>3. Head(t) \in Range(t)
  BY DEF Range
<1>4. Range(Tail(t)) \subseteq Range(t)
  BY DEF Range
<1> QED
  BY <1>1, <1>2, <1>3, <1>4

\* A call that is optional.
LEMMA WhenIs ==
    ASSUME NEW b \in BOOLEAN, NEW c \in Calling
    PROVE  When(b, c) \in Seq(Calling) /\ Range(When(b, c)) = IF b THEN {c} ELSE {}
<1>1. <<c>> \in Seq(Calling) /\ Range(<<c>>) = {c}
  BY DEF Range
<1>2. <<>> \in Seq(Calling) /\ Range(<<>>) = {}
  BY DEF Range
<1> QED
  BY <1>1, <1>2 DEF When

\* The dependencies come first if they were asked for, then the gate, then the rest.
LEMMA CallsAre ==
    ASSUME NEW q \in EvalRequest
    PROVE  /\ Behind(q) \in Seq(Calling)
           /\ Range(Behind(q)) = q.suites \cup (IF q.mutants THEN {"baseline"} ELSE {})
                                    \cup (IF q.structural THEN {"structural"} ELSE {})
           /\ Gated(q) \in Seq(Calling) /\ Gated(q) # <<>>
           /\ Head(Gated(q)) = "compile" /\ Tail(Gated(q)) = Behind(q)
           /\ Calls(q) \in Seq(Calling) /\ Calls(q) # <<>>
           /\ Head(Calls(q)) \in {"deps", "compile"}
           /\ Head(Calls(q)) = "compile" => Calls(q) = Gated(q)
           /\ Head(Calls(q)) = "deps" => Tail(Calls(q)) = Gated(q)
           /\ Range(Gated(q)) = {"compile"} \cup Range(Behind(q))
           /\ Range(Calls(q)) = (IF q.deps THEN {"deps"} ELSE {}) \cup Range(Gated(q))
<1> DEFINE S == SetToSeq(q.suites)
           M == When(q.mutants, "baseline")
           R == When(q.structural, "structural")
<1>1. S \in Seq(Calling) /\ Range(S) = q.suites
  <2>1. q.suites \subseteq Suites /\ IsFiniteSet(q.suites)
    BY CodeEvalAssumption, FS_Subset DEF EvalRequest
  <2>2. S \in Seq(q.suites) /\ Range(S) = q.suites
    BY <2>1, ListsAll
  <2> HIDE DEF S
  <2> QED
    BY <2>1, <2>2 DEF Calling
<1>2. M \in Seq(Calling) /\ Range(M) = IF q.mutants THEN {"baseline"} ELSE {}
  BY WhenIs DEF Calling, EvalRequest
<1>3. R \in Seq(Calling) /\ Range(R) = IF q.structural THEN {"structural"} ELSE {}
  BY WhenIs DEF Calling, EvalRequest
<1>4. Behind(q) = S \o M \o R
  BY DEF Behind
<1> HIDE DEF S, M, R
<1>5. S \o M \in Seq(Calling) /\ Range(S \o M) = Range(S) \cup Range(M)
  BY <1>1, <1>2, RangeOfConcat
<1>6. Behind(q) \in Seq(Calling) /\ Range(Behind(q)) = Range(S) \cup Range(M) \cup Range(R)
  <2> DEFINE Z == S \o M
  <2>1. Z \in Seq(Calling) /\ Range(Z) = Range(S) \cup Range(M) /\ Behind(q) = Z \o R
    BY <1>4, <1>5
  <2> HIDE DEF Z
  <2>2. Z \o R \in Seq(Calling) /\ Range(Z \o R) = Range(Z) \cup Range(R)
    BY <2>1, <1>3, RangeOfConcat
  <2> QED
    BY <2>1, <2>2
<1>7. /\ Gated(q) \in Seq(Calling) /\ Gated(q) # <<>>
      /\ Head(Gated(q)) = "compile" /\ Tail(Gated(q)) = Behind(q)
  <2>1. "compile" \in Calling
    BY DEF Calling
  <2> QED
    BY <2>1, <1>6 DEF Gated
<1>a. Range(Gated(q)) = {"compile"} \cup Range(Behind(q))
  <2> DEFINE Z == Behind(q)
             c == <<"compile">>
  <2>1. c \in Seq(Calling) /\ Range(c) = {"compile"} /\ Z \in Seq(Calling) /\ Gated(q) = c \o Z
    BY <1>6 DEF Range, Calling, Gated
  <2> HIDE DEF c, Z
  <2>2. Range(c \o Z) = Range(c) \cup Range(Z)
    BY <2>1, RangeOfConcat
  <2> QED
    BY <2>1, <2>2 DEF Z
<1>8. CASE q.deps
  <2>1. Calls(q) = <<"deps">> \o Gated(q)
    <3>1. Calls(q) = (<<"deps">> \o <<"compile">>) \o Behind(q)
      BY <1>8 DEF Calls, When
    <3> QED
      BY <3>1, <1>6 DEF Gated, Calling
  <2>2. /\ Calls(q) \in Seq(Calling) /\ Calls(q) # <<>>
        /\ Head(Calls(q)) = "deps" /\ Tail(Calls(q)) = Gated(q)
    BY <2>1, <1>7 DEF Calling
  <2>3. Range(Calls(q)) = {"deps"} \cup Range(Gated(q))
    BY <2>2, HeadAndTail
  <2> QED
    BY <2>2, <2>3, <1>1, <1>2, <1>3, <1>6, <1>7, <1>8, <1>a
<1>9. CASE ~q.deps
  <2>1. Calls(q) = Gated(q)
    <3>1. Calls(q) = (<<>> \o <<"compile">>) \o Behind(q)
      BY <1>9 DEF Calls, When
    <3>2. <<>> \o <<"compile">> = <<"compile">>
      OBVIOUS
    <3> QED
      BY <3>1, <3>2 DEF Gated
  <2> QED
    BY <2>1, <1>1, <1>2, <1>3, <1>6, <1>7, <1>9, <1>a
<1> QED
  BY <1>8, <1>9

-----------------------------------------------------------------------------
(* What a call finds, and what is left to do. *)

Plus(f, d, v) == [x \in DOMAIN f \cup {d} |-> IF x = d THEN v ELSE f[x]]

\* A call leads to one dimension.
LEMMA AheadIsOne ==
    ASSUME NEW c \in Dimensions, NEW d \in Dimensions, Ahead(c) \cap Ahead(d) # {}
    PROVE  c = d
<1>1. {"baseline", "mutants"} \cap Dimensions = {}
  BY CodeEvalAssumption DEF Dimensions, Builtin
<1> QED
  BY <1>1 DEF Ahead

\* What a call has found is no longer ahead; u are the calls that stay.
LEMMA ExactlyFound ==
    ASSUME NEW q, NEW k, NEW f, NEW t, NEW u, NEW d \in Applies(q, k),
           Exact(q, k, f, t), Range(u) \subseteq Asked(q),
           \A x \in Applies(q, k) \ DOMAIN f : x # d /\ Ahead(x) \cap Range(t) # {}
                => Ahead(x) \cap Range(u) # {}
    PROVE  Exact(q, k, Plus(f, d, Score(q, k, d)), u)
BY DEF Exact, Plus

\* ... and it was the next one of t.
LEMMA ExactlyNext ==
    ASSUME NEW q, NEW k, NEW f, NEW t \in Seq(Calling), t # <<>>, Exact(q, k, f, t),
           NEW d \in Applies(q, k), Head(t) \in Ahead(d)
    PROVE  Exact(q, k, Plus(f, d, Score(q, k, d)), Tail(t))
<1>1. Range(t) = {Head(t)} \cup Range(Tail(t))
  BY HeadAndTail
<1>2. \A x \in Applies(q, k) : Head(t) \in Ahead(x) => x = d
  BY AheadIsOne DEF Applies
<1>3. Range(Tail(t)) \subseteq Asked(q)
  BY <1>1 DEF Exact
<1> DEFINE u == Tail(t)
<1> HIDE DEF u
<1>4. Exact(q, k, Plus(f, d, Score(q, k, d)), u)
  BY <1>1, <1>2, <1>3, ExactlyFound DEF u
<1> QED
  BY <1>4 DEF u

\* The next call finds nothing that applies.
LEMMA ExactlyPassed ==
    ASSUME NEW q, NEW k, NEW f, NEW t \in Seq(Calling), t # <<>>, Exact(q, k, f, t),
           \A d \in Applies(q, k) : Head(t) \notin Ahead(d)
    PROVE  Exact(q, k, f, Tail(t))
<1>1. Range(t) = {Head(t)} \cup Range(Tail(t))
  BY HeadAndTail
<1> DEFINE u == Tail(t)
<1> HIDE DEF u
<1>2. Exact(q, k, f, u)
  BY <1>1 DEF Exact, u
<1> QED
  BY <1>2 DEF u

\* What is asked for is in the request.
LEMMA AskedFor ==
    ASSUME NEW q \in EvalRequest, NEW k, NEW f, NEW t \in Seq(Calling), t # <<>>,
           Exact(q, k, f, t)
    PROVE  /\ Head(t) \in Asked(q)
           /\ Head(t) = "deps" => q.deps
           /\ Head(t) = "structural" => q.structural
           /\ Head(t) \in {"baseline", "mutants"} => q.mutants
           /\ Head(t) \in Suites => Head(t) \in q.suites
           /\ "compile" \in DOMAIN f => (f["compile"] = 5 <=> Passes(q, k))
<1>1. Head(t) \in Asked(q)
  BY HeadAndTail DEF Exact
<1>2. /\ q.suites \subseteq Suites
      /\ Suites \cap (Builtin \cup {"baseline", "mutants"}) = {}
  BY CodeEvalAssumption DEF EvalRequest
<1>3. "compile" \in DOMAIN f => (f["compile"] = 5 <=> Passes(q, k))
  BY DEF Exact, Score
<1> QED
  BY <1>1, <1>2, <1>3 DEF Asked, Builtin

\* A call that fails makes nothing wrong that was right.
LEMMA HoldsBlurred ==
    ASSUME NEW q, NEW k, NEW f, NEW t, NEW b \in BOOLEAN, NEW c \in BOOLEAN,
           Holds(q, k, f, b, t), b => c
    PROVE  Holds(q, k, f, c, t)
<1>1. Sound(q, k, f, c)
  BY DEF Holds, Sound
<1>2. Whole(q, k, f, c, t)
  BY DEF Holds, Whole
<1> QED
  BY <1>1, <1>2 DEF Holds

\* In front of the gate, and behind it.
LEMMA InFront ==
    ASSUME NEW q \in EvalRequest, NEW k, NEW f, NEW b \in BOOLEAN, NEW t \in Seq(Calling),
           Holds(q, k, f, b, t), t # <<>>, Head(t) \in {"deps", "compile"}
    PROVE  "compile" \notin DOMAIN f /\ t \in {Calls(q), Gated(q)} /\ DOMAIN f \subseteq {"deps"}
<1>1. "deps" \notin q.suites /\ "compile" \notin q.suites
  BY CodeEvalAssumption DEF Builtin, EvalRequest
<1>2. Head(t) \in Range(t)
  BY HeadAndTail
<1>3. Whole(q, k, f, b, t)
  BY DEF Holds
<1>4. "compile" \notin DOMAIN f
  <2>1. CASE "compile" \in DOMAIN f /\ f["compile"] = 5
    <3>1. Range(t) \subseteq q.suites \cup {"baseline", "mutants", "structural"}
      BY <1>3, <2>1 DEF Whole
    <3> QED
      BY <1>1, <1>2, <3>1
  <2>2. CASE "compile" \in DOMAIN f /\ f["compile"] # 5
    <3>1. Range(t) \subseteq {"structural"}
      BY <1>3, <2>2 DEF Whole
    <3> QED
      BY <1>2, <3>1
  <2> QED
    BY <2>1, <2>2
<1> QED
  BY <1>3, <1>4 DEF Whole

LEMMA Through ==
    ASSUME NEW q \in EvalRequest, NEW k, NEW f, NEW b \in BOOLEAN, NEW t \in Seq(Calling),
           Holds(q, k, f, b, t), t # <<>>, Head(t) \notin {"deps", "compile"}
    PROVE  /\ "compile" \in DOMAIN f
           /\ Head(t) # "structural" => f["compile"] = 5
<1>1. Head(t) \in Range(t) /\ Whole(q, k, f, b, t)
  BY HeadAndTail DEF Holds
<1>2. "compile" \in DOMAIN f
  BY <1>1, CallsAre DEF Whole
<1>3. Range(t) \subseteq {"structural"} \/ f["compile"] = 5
  BY <1>1, <1>2 DEF Whole
<1> QED
  BY <1>1, <1>2, <1>3

\* run_deps_check takes the point away only for an offender.
LEMMA DepsMeasured ==
    ASSUME NEW q \in EvalRequest, NEW k, NEW f, NEW b \in BOOLEAN, NEW t \in Seq(Calling),
           Holds(q, k, f, b, t), t # <<>>, Head(t) = "deps",
           NEW v, v = 1 => \E d \in k.deps : Offender(d), b \/ v = Score(q, k, "deps")
    PROVE  Holds(q, k, Plus(f, "deps", v), b, Tail(t))
<1> DEFINE g == Plus(f, "deps", v)
<1>1. "deps" \notin Suites /\ q.suites \subseteq Suites
  BY CodeEvalAssumption DEF Builtin, EvalRequest
<1>3. "compile" \notin DOMAIN f /\ t \in {Calls(q), Gated(q)} /\ DOMAIN f \subseteq {"deps"}
  BY InFront
<1>4. Tail(t) = Gated(q)
  BY <1>3, CallsAre
<1>5. DOMAIN g = {"deps"} /\ g["deps"] = v
  BY <1>3 DEF Plus
<1> HIDE DEF g
<1>6. Sound(q, k, g, b)
  BY <1>1, <1>5 DEF Sound
<1>7. Whole(q, k, g, b, Tail(t))
  BY <1>4, <1>5 DEF Whole
<1>8. ASSUME ~b PROVE Exact(q, k, g, Tail(t))
  <2>1. Exact(q, k, f, t)
    BY <1>8 DEF Holds
  <2>2. "deps" \in Applies(q, k) /\ Head(t) \in Ahead("deps")
    BY <2>1, AskedFor DEF Applies, Ahead, Dimensions, Builtin
  <2>3. v = Score(q, k, "deps")
    BY <1>8
  <2> QED
    BY <2>1, <2>2, <2>3, ExactlyNext DEF g
<1> QED
  BY <1>6, <1>7, <1>8 DEF Holds, g

\* Behind a gate that is passed every suite is to come, behind one that is not no build is.
LEMMA GateMeasured ==
    ASSUME NEW q \in EvalRequest, NEW k, NEW f, NEW b \in BOOLEAN, NEW t \in Seq(Calling),
           Holds(q, k, f, b, t), t # <<>>, Head(t) = "compile"
    PROVE  /\ k.builds /\ q.gate => Holds(q, k, Plus(f, "compile", 5), b, Tail(t))
           /\ b \/ ~k.builds \/ ~q.gate =>
                 Holds(q, k, Plus(f, "compile", 1), b, When(q.structural, "structural"))
<1> DEFINE g(v) == Plus(f, "compile", v)
<1>1. /\ Suites \cap {"deps", "compile", "mutants"} = {} /\ q.suites \subseteq Suites
      /\ q.structural \in BOOLEAN
  BY CodeEvalAssumption DEF Builtin, EvalRequest
<1>3. "compile" \notin DOMAIN f /\ t \in {Calls(q), Gated(q)} /\ DOMAIN f \subseteq {"deps"}
  BY InFront
<1>4. Tail(t) = Behind(q)
  BY <1>3, CallsAre
<1>5. ASSUME NEW v \in {1, 5}, v = 5 => k.builds /\ q.gate, v = 1 => b \/ ~k.builds \/ ~q.gate
      PROVE  /\ Sound(q, k, g(v), b)
             /\ DOMAIN g(v) = DOMAIN f \cup {"compile"} /\ g(v)["compile"] = v
  <2>1. /\ DOMAIN g(v) = DOMAIN f \cup {"compile"} /\ g(v)["compile"] = v
        /\ "deps" \in DOMAIN f => g(v)["deps"] = f["deps"]
    BY DEF Plus
  <2>2. "deps" \in DOMAIN f /\ f["deps"] = 1 => \E d \in k.deps : Offender(d)
    BY DEF Holds, Sound
  <2>3. Suites \cap DOMAIN g(v) = {} /\ {"mutation", "structural"} \cap DOMAIN g(v) = {}
    BY <1>1, <1>3, <2>1
  <2> HIDE DEF g
  <2> QED
    BY <1>5, <2>1, <2>2, <2>3 DEF Sound
<1> HIDE DEF g
<1>6. ASSUME k.builds, q.gate PROVE Holds(q, k, g(5), b, Tail(t))
  <2>1. /\ Sound(q, k, g(5), b)
        /\ DOMAIN g(5) = DOMAIN f \cup {"compile"} /\ g(5)["compile"] = 5
    BY <1>5, <1>6
  <2>2. Range(Tail(t)) = q.suites \cup (IF q.mutants THEN {"baseline"} ELSE {})
                            \cup (IF q.structural THEN {"structural"} ELSE {})
    BY <1>4, CallsAre
  <2>3. Whole(q, k, g(5), b, Tail(t))
    <3> DEFINE u == Tail(t)
    <3>1. /\ Range(u) \subseteq q.suites \cup {"baseline", "mutants", "structural"}
          /\ q.suites \subseteq Range(u)
          /\ "mutants" \notin Range(u)
          /\ q.mutants => "baseline" \in Range(u)
      BY <2>2, <1>1
    <3> HIDE DEF u
    <3>2. Whole(q, k, g(5), b, u)
      BY <2>1, <3>1 DEF Whole
    <3> QED
      BY <3>2 DEF u
  <2>4. ASSUME ~b PROVE Exact(q, k, g(5), Tail(t))
    <3>1. Exact(q, k, f, t)
      BY <2>4 DEF Holds
    <3>2. "compile" \in Applies(q, k) /\ Head(t) \in Ahead("compile") /\ Score(q, k, "compile") = 5
      BY <1>6 DEF Applies, Ahead, Score, Passes, Dimensions, Builtin
    <3> QED
      BY <3>1, <3>2, ExactlyNext DEF g
  <2> QED
    BY <2>1, <2>3, <2>4 DEF Holds
<1>7. ASSUME b \/ ~k.builds \/ ~q.gate
      PROVE  Holds(q, k, g(1), b, When(q.structural, "structural"))
  <2>1. /\ Sound(q, k, g(1), b)
        /\ DOMAIN g(1) = DOMAIN f \cup {"compile"} /\ g(1)["compile"] = 1
    BY <1>5, <1>7
  <2>2. Range(When(q.structural, "structural")) \subseteq {"structural"}
    BY WhenIs, <1>1 DEF Calling
  <2>3. Whole(q, k, g(1), b, When(q.structural, "structural"))
    BY <2>1, <2>2, <1>3 DEF Whole
  <2>4. ASSUME ~b PROVE Exact(q, k, g(1), When(q.structural, "structural"))
    <3> DEFINE u == When(q.structural, "structural")
    <3>1. Exact(q, k, f, t)
      BY <2>4 DEF Holds
    <3>2. "compile" \in Applies(q, k) /\ Score(q, k, "compile") = 1 /\ ~Passes(q, k)
      BY <1>7, <2>4 DEF Applies, Score, Passes, Dimensions, Builtin
    <3>3. Range(u) = IF q.structural THEN {"structural"} ELSE {}
      BY WhenIs, <1>1 DEF Calling
    <3>4. t = Gated(q) /\ "deps" \notin Range(t)
      BY <1>1, <1>3, CallsAre
    <3> HIDE DEF u
    <3>5. Range(u) \subseteq Asked(q)
      BY <3>3 DEF Asked, Calling
    <3>6. ASSUME NEW x \in Applies(q, k) \ DOMAIN f, x # "compile", Ahead(x) \cap Range(t) # {}
          PROVE  Ahead(x) \cap Range(u) # {}
      BY <3>2, <3>3, <3>4, <3>6 DEF Applies, Ahead
    <3>7. Exact(q, k, Plus(f, "compile", Score(q, k, "compile")), u)
      BY <3>1, <3>2, <3>5, <3>6, ExactlyFound
    <3> QED
      BY <3>2, <3>7 DEF g, u
  <2> QED
    BY <2>1, <2>3, <2>4 DEF Holds
<1> QED
  BY <1>6, <1>7 DEF g

\* The score of a suite is that of its pass rate, or 1 when it timed out.
LEMMA SuiteMeasured ==
    ASSUME NEW q \in EvalRequest, NEW k, NEW f, NEW b \in BOOLEAN, NEW t \in Seq(Calling),
           Holds(q, k, f, b, t), t # <<>>, Head(t) \in Suites,
           NEW v, v = SuiteScore(k, Head(t)) \/ (v = 1 /\ b)
    PROVE  Holds(q, k, Plus(f, Head(t), v), b, Tail(t))
<1> DEFINE s == Head(t)
           g == Plus(f, s, v)
<1>1. /\ s \in Suites /\ q.suites \subseteq Suites
      /\ s \notin {"compile", "deps", "mutation", "structural", "baseline", "mutants"}
  BY CodeEvalAssumption DEF Builtin, EvalRequest
<1>2. "compile" \in DOMAIN f /\ f["compile"] = 5
  BY <1>1, Through
<1>3. Range(t) = {s} \cup Range(Tail(t))
  BY HeadAndTail
<1>4. /\ DOMAIN g = DOMAIN f \cup {s} /\ g[s] = v
      /\ \A x \in DOMAIN f : x # s => g[x] = f[x]
  BY DEF Plus
<1>5. v = SuiteScore(k, s) \/ (v = 1 /\ b)
  OBVIOUS
<1> HIDE DEF s, g
<1>6. Sound(q, k, g, b)
  BY <1>1, <1>4, <1>5 DEF Holds, Sound
<1>7. Whole(q, k, g, b, Tail(t))
  BY <1>1, <1>2, <1>3, <1>4 DEF Holds, Whole
<1>8. ASSUME ~b PROVE Exact(q, k, g, Tail(t))
  <2>1. Exact(q, k, f, t)
    BY <1>8 DEF Holds
  <2>2. s \in Applies(q, k) /\ s \in Ahead(s)
    BY <1>1, <1>2, <2>1, AskedFor DEF Applies, Ahead, Dimensions, s
  <2>3. v = Score(q, k, s)
    BY <1>1, <1>5, <1>8 DEF Score
  <2> QED
    BY <2>1, <2>2, <2>3, ExactlyNext DEF g, s
<1> QED
  BY <1>6, <1>7, <1>8 DEF Holds, g, s

\* Only the mutation score comes of the baseline and the mutants.
LEMMA LeadsToMutation ==
    ASSUME NEW q, NEW k, NEW d \in Applies(q, k), NEW c \in {"baseline", "mutants"}, c \in Ahead(d),
           q \in EvalRequest
    PROVE  k.own = "passing" /\ k.killed + k.missed # 0
<1>1. CASE d = "mutation"
  <2>1. "mutation" \notin Suites /\ q.suites \subseteq Suites
    BY CodeEvalAssumption DEF Builtin, EvalRequest
  <2> QED
    BY <1>1, <2>1 DEF Applies
<1>2. CASE d # "mutation"
  <2>1. d = c /\ d \in Dimensions
    BY <1>2 DEF Ahead, Applies
  <2> QED
    BY <2>1, CodeEvalAssumption DEF Dimensions, Builtin
<1> QED
  BY <1>1, <1>2

\* The mutants come only where the tests of the model pass.
LEMMA BaselineTaken ==
    ASSUME NEW q \in EvalRequest, NEW k, NEW f, NEW b \in BOOLEAN, NEW t \in Seq(Calling),
           Holds(q, k, f, b, t), t # <<>>, Head(t) = "baseline"
    PROVE  /\ k.own = "passing" => Holds(q, k, f, b, <<"mutants">> \o Tail(t))
           /\ b \/ k.own # "passing" => Holds(q, k, f, b, Tail(t))
<1>1. "baseline" \notin Suites /\ q.suites \subseteq Suites
  BY CodeEvalAssumption DEF EvalRequest
<1>2. "compile" \in DOMAIN f /\ f["compile"] = 5
  BY Through
<1>3. Range(t) = {"baseline"} \cup Range(Tail(t)) /\ Tail(t) \in Seq(Calling)
  BY HeadAndTail
<1>4. Range(<<"mutants">> \o Tail(t)) = {"mutants"} \cup Range(Tail(t))
  <2> DEFINE m == <<"mutants">>
             u == Tail(t)
  <2>1. m \in Seq(Calling) /\ Range(m) = {"mutants"} /\ u \in Seq(Calling)
    BY <1>3 DEF Range, Calling
  <2> HIDE DEF m, u
  <2>2. Range(m \o u) = Range(m) \cup Range(u)
    BY <2>1, RangeOfConcat
  <2> QED
    BY <2>1, <2>2 DEF m, u
<1>5. ASSUME k.own = "passing" PROVE Whole(q, k, f, b, <<"mutants">> \o Tail(t))
  <2> DEFINE u == <<"mutants">> \o Tail(t)
  <2> HIDE DEF u
  <2> SUFFICES Whole(q, k, f, b, u)
    BY DEF u
  <2> Range(u) = {"mutants"} \cup Range(Tail(t))
    BY <1>4 DEF u
  <2> QED
    BY <1>1, <1>2, <1>3, <1>5 DEF Holds, Whole
<1>6. ASSUME b \/ k.own # "passing" PROVE Whole(q, k, f, b, Tail(t))
  BY <1>1, <1>2, <1>3, <1>6 DEF Holds, Whole
<1>7. ASSUME ~b PROVE Exact(q, k, f, <<"mutants">> \o Tail(t))
  <2> DEFINE u == <<"mutants">> \o Tail(t)
  <2>1. Exact(q, k, f, t)
    BY <1>7 DEF Holds
  <2>2. Range(u) \subseteq Asked(q)
    BY <1>3, <1>4, <2>1, AskedFor DEF Exact, Asked, Calling
  <2>3. Range(u) = {"mutants"} \cup Range(Tail(t))
    BY <1>4
  <2> HIDE DEF u
  <2>4. ASSUME NEW d \in Applies(q, k) \ DOMAIN f PROVE Ahead(d) \cap Range(u) # {}
    <3>1. Ahead(d) \cap Range(t) # {} /\ d \in Dimensions
      BY <2>1 DEF Exact, Applies
    <3>2. "baseline" \notin Dimensions
      BY CodeEvalAssumption DEF Dimensions, Builtin
    <3>3. "baseline" \in Ahead(d) => "mutants" \in Ahead(d)
      BY <3>1, <3>2 DEF Ahead
    <3> QED
      BY <3>1, <3>3, <2>3, <1>3
  <2>5. Exact(q, k, f, u)
    BY <2>1, <2>2, <2>4 DEF Exact
  <2> QED
    BY <2>5 DEF u
<1>8. ASSUME ~b, k.own # "passing" PROVE Exact(q, k, f, Tail(t))
  <2>1. Exact(q, k, f, t)
    BY <1>8 DEF Holds
  <2>2. \A d \in Applies(q, k) : Head(t) \notin Ahead(d)
    BY <1>8, LeadsToMutation
  <2> QED
    BY <2>1, <2>2, ExactlyPassed
<1> QED
  BY <1>5, <1>6, <1>7, <1>8 DEF Holds

\* Mutation testing records nothing, or a rate.
LEMMA MutantsCounted ==
    ASSUME NEW q \in EvalRequest, NEW k, NEW f, NEW b \in BOOLEAN, NEW t \in Seq(Calling),
           Holds(q, k, f, b, t), t # <<>>, Head(t) = "mutants"
    PROVE  /\ b \/ ~(k.killed > 0 \/ k.killed + k.missed # 0) => Holds(q, k, f, b, Tail(t))
           /\ \A v : /\ v > 1 => k.killed > 0
                     /\ b \/ (k.killed + k.missed # 0 /\ v = Score(q, k, "mutation"))
                  => Holds(q, k, Plus(f, "mutation", v), b, Tail(t))
<1>1. "mutants" \notin Suites /\ "mutation" \notin Suites /\ q.suites \subseteq Suites
  BY CodeEvalAssumption DEF Builtin, EvalRequest
<1>2. "compile" \in DOMAIN f /\ f["compile"] = 5
  BY Through
<1>3. Range(t) = {"mutants"} \cup Range(Tail(t)) /\ Tail(t) \in Seq(Calling)
  BY HeadAndTail
<1>4. k.own = "passing"
  BY <1>2, <1>3 DEF Holds, Whole
<1>5. ASSUME b \/ ~(k.killed > 0 \/ k.killed + k.missed # 0) PROVE Holds(q, k, f, b, Tail(t))
  <2>1. Sound(q, k, f, b) /\ Whole(q, k, f, b, Tail(t))
    BY <1>1, <1>2, <1>3, <1>5 DEF Holds, Whole
  <2>2. ASSUME ~b PROVE Exact(q, k, f, Tail(t))
    <3>1. Exact(q, k, f, t)
      BY <2>2 DEF Holds
    <3>2. \A d \in Applies(q, k) : Head(t) \notin Ahead(d)
      BY <1>5, <2>2, LeadsToMutation
    <3> QED
      BY <3>1, <3>2, ExactlyPassed
  <2> QED
    BY <2>1, <2>2 DEF Holds
<1>6. ASSUME NEW v, v > 1 => k.killed > 0,
             b \/ (k.killed + k.missed # 0 /\ v = Score(q, k, "mutation"))
      PROVE  Holds(q, k, Plus(f, "mutation", v), b, Tail(t))
  <2> DEFINE g == Plus(f, "mutation", v)
  <2>1. /\ DOMAIN g = DOMAIN f \cup {"mutation"} /\ g["mutation"] = v
        /\ \A x \in DOMAIN f : x # "mutation" => g[x] = f[x]
    BY DEF Plus
  <2> HIDE DEF g
  <2>2. Sound(q, k, g, b)
    BY <1>1, <1>4, <1>6, <2>1 DEF Holds, Sound
  <2>3. Whole(q, k, g, b, Tail(t))
    BY <1>1, <1>2, <1>3, <2>1 DEF Holds, Whole
  <2>4. ASSUME ~b PROVE Exact(q, k, g, Tail(t))
    <3>1. Exact(q, k, f, t)
      BY <2>4 DEF Holds
    <3>2. "mutation" \in Applies(q, k) /\ Head(t) \in Ahead("mutation")
      BY <1>2, <1>4, <1>6, <2>4, <3>1, AskedFor DEF Applies, Ahead, Dimensions, Builtin
    <3>3. v = Score(q, k, "mutation")
      BY <1>6, <2>4
    <3> QED
      BY <3>1, <3>2, <3>3, ExactlyNext DEF g
  <2> QED
    BY <2>2, <2>3, <2>4 DEF Holds, g
<1> QED
  BY <1>5, <1>6

\* The structural check gives 5 for a clean crate and 1 for any other.
LEMMA Inspected ==
    ASSUME NEW q \in EvalRequest, NEW k, NEW f, NEW b \in BOOLEAN, NEW t \in Seq(Calling),
           Holds(q, k, f, b, t), t # <<>>, Head(t) = "structural",
           NEW v \in {1, 5},
           v = 5 => Clean(k) /\ (f["compile"] = 5 => k.lints),
           v = 1 => b \/ ~(Clean(k) /\ (f["compile"] = 5 => k.lints))
    PROVE  Holds(q, k, Plus(f, "structural", v), b, Tail(t))
<1> DEFINE g == Plus(f, "structural", v)
<1>1. "structural" \notin Suites /\ q.suites \subseteq Suites
  BY CodeEvalAssumption DEF Builtin, EvalRequest
<1>2. "compile" \in DOMAIN f
  BY Through
<1>3. Range(t) = {"structural"} \cup Range(Tail(t)) /\ Tail(t) \in Seq(Calling)
  BY HeadAndTail
<1>4. /\ DOMAIN g = DOMAIN f \cup {"structural"} /\ g["structural"] = v
      /\ \A x \in DOMAIN f : x # "structural" => g[x] = f[x]
  BY DEF Plus
<1> HIDE DEF g
<1>5. Sound(q, k, g, b)
  BY <1>1, <1>2, <1>4 DEF Holds, Sound
<1>6. Whole(q, k, g, b, Tail(t))
  <2>1. CASE f["compile"] = 5
    BY <2>1, <1>1, <1>2, <1>3, <1>4 DEF Holds, Whole
  <2>2. CASE f["compile"] # 5
    BY <2>2, <1>1, <1>2, <1>3, <1>4 DEF Holds, Whole
  <2> QED
    BY <2>1, <2>2
<1>7. ASSUME ~b PROVE Exact(q, k, g, Tail(t))
  <2>1. Exact(q, k, f, t)
    BY <1>7 DEF Holds
  <2>2. /\ "structural" \in Applies(q, k) /\ Head(t) \in Ahead("structural")
        /\ f["compile"] = 5 <=> Passes(q, k)
    BY <1>2, <2>1, AskedFor DEF Applies, Ahead, Dimensions, Builtin
  <2>3. v = Score(q, k, "structural")
    BY <1>7, <2>2 DEF Score
  <2> QED
    BY <2>1, <2>2, <2>3, ExactlyNext DEF g
<1> QED
  BY <1>5, <1>6, <1>7 DEF Holds, g

-----------------------------------------------------------------------------
(* The steps. *)

\* Nothing has been asked or measured at first.
LEMMA InitHolds == Init => IInv
<1> SUFFICES ASSUME Init PROVE IInv
  OBVIOUS
<1>1. NoRequest \in EvalRequest
  BY DEF NoRequest, EvalRequest, Rows
<1>2. Typed
  BY <1>1 DEF Init, Typed, PCs
<1>3. \A e \in Evals : Kept(e)
  BY DEF Init, Kept
<1> QED
  BY <1>2, <1>3 DEF Init, IInv

Measures(e) ==
    \/ \E s \in Suites : RunSuite(e, s)
    \/ CheckDeps(e) \/ Compile(e) \/ Baseline(e) \/ Mutate(e) \/ Structural(e)

\* What a call leaves alone.
LEMMA CallFrame ==
    ASSUME Typed, NEW e \in Evals, Measures(e)
    PROVE  /\ pc[e] = "calls" /\ todo[e] \in Seq(Calling) /\ todo[e] # <<>>
           /\ UNCHANGED <<crate, scores, pc, ask>>
           /\ \A g \in Evals \ {e} : todo'[g] = todo[g] /\ dims'[g] = dims[g]
           /\ dims' = [g \in Evals |-> dims'[g]]
           /\ blurred' = blurred \/ blurred' = blurred \cup {e}
<1> USE DEF Typed, Next1, Found, NotApplicable, Clear, Blur
<1>1. CASE \E s \in Suites : RunSuite(e, s)
  BY <1>1 DEF RunSuite
<1>2. CASE CheckDeps(e)
  BY <1>2 DEF CheckDeps
<1>3. CASE Compile(e)
  BY <1>3 DEF Compile
<1>4. CASE Baseline(e)
  BY <1>4 DEF Baseline
<1>5. CASE Mutate(e)
  BY <1>5 DEF Mutate
<1>6. CASE Structural(e)
  BY <1>6 DEF Structural
<1> QED
  BY <1>1, <1>2, <1>3, <1>4, <1>5, <1>6 DEF Measures

\* A dimension more ...
LEMMA FoundIs ==
    ASSUME Typed, NEW e \in Evals, NEW d, NEW v, NEW cs, Found(e, d, v, cs)
    PROVE  dims'[e] = Plus(dims[e], d, v) /\ todo'[e] = cs
BY DEF Typed, Found, Plus

\* ... or none.
LEMMA NotApplicableIs ==
    ASSUME Typed, NEW e \in Evals, NEW cs, NotApplicable(e, cs)
    PROVE  dims'[e] = dims[e] /\ todo'[e] = cs
BY DEF Typed, NotApplicable

\* Every call of an evaluation keeps what is measured true, and whole with what is to come.
LEMMA CallHolds ==
    ASSUME Typed, NEW e \in Evals, Measures(e), Running(e)
    PROVE  Running(e)' /\ todo'[e] \in Seq(Calling)
<1> DEFINE q == ask[e]
           k == Subject(e)
           f == dims[e]
           b == e \in blurred
           c == e \in blurred'
           t == todo[e]
           Onward == Holds(q, k, dims'[e], c, todo'[e]) /\ todo'[e] \in Seq(Calling)
<1>1. /\ pc[e] = "calls" /\ t \in Seq(Calling) /\ t # <<>>
      /\ UNCHANGED <<crate, scores, pc, ask>>
      /\ blurred' = blurred \/ blurred' = blurred \cup {e}
  BY CallFrame
<1>2. q \in EvalRequest /\ k \in Crates /\ b \in BOOLEAN /\ c \in BOOLEAN
  BY <1>1 DEF Typed, Running
<1>3. k \in Crate
  BY <1>2, CodeEvalAssumption
<1>4. Holds(q, k, f, c, t)
  <2>1. Holds(q, k, f, b, t) /\ (b => c)
    BY <1>1 DEF Running
  <2> HIDE DEF q, k, f, b, c, t
  <2> QED
    BY <1>2, <2>1, HoldsBlurred
<1>5. Tail(t) \in Seq(Calling) /\ Rest(e) = Tail(t)
  BY <1>1, HeadAndTail DEF Rest
<1>6. SUFFICES Onward
  BY <1>1, <1>2 DEF Running, Subject
<1>7. Clear => c = b
  BY DEF Clear
<1>8. Blur(e) => c
  BY DEF Blur
<1>9. ASSUME NEW s \in Suites, RunSuite(e, s) PROVE Onward
  <2>1. Head(t) = s
    BY <1>9 DEF RunSuite, Next1
  <2>2. PICK v : Found(e, s, v, Rest(e)) /\ (v = SuiteScore(k, s) \/ (v = 1 /\ c))
    BY <1>9, <1>8 DEF RunSuite, Fails
  <2>3. dims'[e] = Plus(f, s, v) /\ todo'[e] = Tail(t)
    BY <2>2, <1>5, FoundIs
  <2> HIDE DEF q, k, f, b, c, t
  <2>4. Holds(q, k, Plus(f, Head(t), v), c, Tail(t))
    BY <1>1, <1>2, <1>4, <2>1, <2>2, SuiteMeasured
  <2> QED
    BY <2>1, <2>3, <2>4, <1>5
<1>10. ASSUME CheckDeps(e) PROVE Onward
  <2>1. Head(t) = "deps"
    BY <1>10 DEF CheckDeps, Next1
  <2>2. PICK v : /\ Found(e, "deps", v, Rest(e)) /\ (v = 1 => \E d \in k.deps : Offender(d))
                 /\ c \/ v = Score(q, k, "deps")
    BY <1>10, <1>8 DEF CheckDeps, Fails, Compiles, Score
  <2>3. dims'[e] = Plus(f, "deps", v) /\ todo'[e] = Tail(t)
    BY <2>2, <1>5, FoundIs
  <2> HIDE DEF q, k, f, b, c, t
  <2>4. Holds(q, k, Plus(f, "deps", v), c, Tail(t))
    BY <1>1, <1>2, <1>4, <2>1, <2>2, DepsMeasured
  <2> QED
    BY <2>3, <2>4, <1>5
<1>11. ASSUME Compile(e) PROVE Onward
  <2>1. Head(t) = "compile"
    BY <1>11 DEF Compile, Next1
  <2>2. \/ k.builds /\ q.gate /\ Found(e, "compile", 5, Rest(e))
        \/ (c \/ ~k.builds \/ ~q.gate) /\ Found(e, "compile", 1, BehindGate(e))
    BY <1>11, <1>8 DEF Compile, Fails, Compiles
  <2>3. \/ k.builds /\ q.gate /\ dims'[e] = Plus(f, "compile", 5) /\ todo'[e] = Tail(t)
        \/ /\ c \/ ~k.builds \/ ~q.gate
           /\ dims'[e] = Plus(f, "compile", 1) /\ todo'[e] = When(q.structural, "structural")
    BY <2>2, <1>5, FoundIs DEF BehindGate
  <2>4. When(q.structural, "structural") \in Seq(Calling)
    BY <1>2, WhenIs DEF EvalRequest, Calling
  <2> HIDE DEF q, k, f, b, c, t
  <2>5. /\ k.builds /\ q.gate => Holds(q, k, Plus(f, "compile", 5), c, Tail(t))
        /\ c \/ ~k.builds \/ ~q.gate =>
              Holds(q, k, Plus(f, "compile", 1), c, When(q.structural, "structural"))
    BY <1>1, <1>2, <1>4, <2>1, GateMeasured
  <2> QED
    BY <2>3, <2>4, <2>5, <1>5
<1>12. ASSUME Baseline(e) PROVE Onward
  <2>1. Head(t) = "baseline"
    BY <1>12 DEF Baseline, Next1
  <2>2. \/ k.own = "passing" /\ NotApplicable(e, <<"mutants">> \o Rest(e))
        \/ (c \/ k.own # "passing") /\ NotApplicable(e, Rest(e))
    BY <1>12, <1>8 DEF Baseline
  <2>3. /\ dims'[e] = f
        /\ \/ k.own = "passing" /\ todo'[e] = <<"mutants">> \o Tail(t)
           \/ (c \/ k.own # "passing") /\ todo'[e] = Tail(t)
    BY <2>2, <1>5, NotApplicableIs
  <2>4. <<"mutants">> \o Tail(t) \in Seq(Calling)
    BY <1>5 DEF Calling
  <2> HIDE DEF q, k, f, b, c, t
  <2>5. /\ k.own = "passing" => Holds(q, k, f, c, <<"mutants">> \o Tail(t))
        /\ c \/ k.own # "passing" => Holds(q, k, f, c, Tail(t))
    BY <1>1, <1>2, <1>4, <2>1, BaselineTaken
  <2> QED
    BY <2>3, <2>4, <2>5, <1>5
<1>13. ASSUME Mutate(e) PROVE Onward
  <2>1. Head(t) = "mutants"
    BY <1>13 DEF Mutate, Next1
  <2>2. \/ /\ c \/ ~(k.killed > 0 \/ k.killed + k.missed # 0)
           /\ NotApplicable(e, Rest(e))
        \/ \E v : /\ Found(e, "mutation", v, Rest(e)) /\ (v > 1 => k.killed > 0)
                  /\ k.killed + k.missed # 0 /\ v = Score(q, k, "mutation")
    <3> DEFINE v == RateToScore(k.killed, k.killed + k.missed)
    <3>1. k.killed \in Nat /\ k.missed \in Nat
      BY <1>3 DEF Crate
    <3>2. CASE Clear /\ k.killed + k.missed = 0 /\ NotApplicable(e, Rest(e))
      BY <3>2, <3>1
    <3>3. CASE Clear /\ k.killed + k.missed # 0 /\ Found(e, "mutation", v, Rest(e))
      <4>1. v > 1 => k.killed > 0
        <5> SUFFICES ASSUME k.killed = 0 PROVE v = 1
          BY <3>1
        <5>1. k.killed + k.missed \in Nat \ {0}
          BY <3>1, <3>3
        <5>2. v = Nearest(k.killed + k.missed, k.killed + k.missed)
          BY <3>1 DEF RateToScore
        <5> QED
          BY <5>1, <5>2, NearestIs
      <4>2. v = Score(q, k, "mutation")
        BY DEF Score
      <4> QED
        BY <3>3, <4>1, <4>2
    <3>4. CASE NotApplicable(e, Rest(e)) /\ Blur(e)
      BY <3>4, <1>8
    <3> QED
      BY <1>13, <3>2, <3>3, <3>4 DEF Mutate
  <2>3. \/ /\ c \/ ~(k.killed > 0 \/ k.killed + k.missed # 0)
           /\ dims'[e] = f /\ todo'[e] = Tail(t)
        \/ \E v : /\ v > 1 => k.killed > 0
                  /\ k.killed + k.missed # 0 /\ v = Score(q, k, "mutation")
                  /\ dims'[e] = Plus(f, "mutation", v) /\ todo'[e] = Tail(t)
    BY <2>2, <1>5, FoundIs, NotApplicableIs
  <2> HIDE DEF q, k, f, b, c, t
  <2>4. /\ c \/ ~(k.killed > 0 \/ k.killed + k.missed # 0) => Holds(q, k, f, c, Tail(t))
        /\ \A v : /\ v > 1 => k.killed > 0
                  /\ c \/ (k.killed + k.missed # 0 /\ v = Score(q, k, "mutation"))
               => Holds(q, k, Plus(f, "mutation", v), c, Tail(t))
    BY <1>1, <1>2, <1>4, <2>1, MutantsCounted
  <2> QED
    BY <2>3, <2>4, <1>5
<1>14. ASSUME Structural(e) PROVE Onward
  <2>1. Head(t) = "structural"
    BY <1>14 DEF Structural, Next1
  <2>2. PICK v \in {1, 5} : /\ Found(e, "structural", v, Rest(e))
                            /\ v = 5 => Clean(k) /\ (f["compile"] = 5 => k.lints)
                            /\ v = 1 => c \/ ~(Clean(k) /\ (f["compile"] = 5 => k.lints))
    BY <1>14, <1>8 DEF Structural, Fails, Compiles
  <2>3. dims'[e] = Plus(f, "structural", v) /\ todo'[e] = Tail(t)
    BY <2>2, <1>5, FoundIs
  <2> HIDE DEF q, k, f, b, c, t
  <2>4. Holds(q, k, Plus(f, "structural", v), c, Tail(t))
    BY <1>1, <1>2, <1>4, <2>1, <2>2, Inspected
  <2> QED
    BY <2>3, <2>4, <1>5
<1> QED
  BY <1>9, <1>10, <1>11, <1>12, <1>13, <1>14 DEF Measures

Done == {"finish", "complete", "failed"}

\* What a row or an evaluation may do to those that it does not touch.
Steady(E) ==
    /\ \A r \in Rows : crate[r] # NoCrate => crate'[r] = crate[r]
    /\ blurred \subseteq blurred'
    /\ \A e \in E : /\ UNCHANGED <<pc[e], ask[e], todo[e], dims[e]>>
                    /\ e \in blurred' => e \in blurred
    /\ \A e \in Evals : pc[e] \in Done => pc'[e] \in Done /\ ask'[e] = ask[e]

\* Nothing changes for an evaluation that does not act, nor for a score that is recorded.
LEMMA OthersKept ==
    ASSUME Typed, NEW E, Steady(E), NEW e \in Evals \cap E, Kept(e)
    PROVE  Kept(e)'
<1>1. UNCHANGED <<pc[e], ask[e], todo[e], dims[e]>> /\ (e \in blurred' <=> e \in blurred)
  BY DEF Steady
<1>2. ASSUME pc'[e] = "calls" PROVE Running(e)'
  <2>1. Subject(e) \in Crates /\ Holds(ask[e], Subject(e), dims[e], e \in blurred, todo[e])
    BY <1>1, <1>2 DEF Kept, Running
  <2>2. ask[e].target \in Rows /\ NoCrate \notin Crates
    BY CodeEvalAssumption DEF Typed, EvalRequest
  <2>3. Subject(e)' = Subject(e)
    BY <1>1, <2>1, <2>2 DEF Steady, Subject
  <2> QED
    BY <1>1, <2>1, <2>3 DEF Running
<1> QED
  BY <1>1, <1>2 DEF Kept

LEMMA RecordStays ==
    ASSUME Typed, Steady({}), NEW r \in Rows, NEW x, x.by \in Evals, Recorded(r, x)
    PROVE  Recorded(r, x)'
<1> DEFINE b == x.by \in blurred
           c == x.by \in blurred'
<1>1. NoCrate \notin Crates
  BY CodeEvalAssumption
<1>2. crate[r] \in Crates /\ pc[x.by] \in Done /\ ask[x.by].target = r
      /\ Holds(ask[x.by], crate[r], x.dims, b, <<>>)
  BY DEF Recorded, Done
<1>3. crate'[r] = crate[r] /\ pc'[x.by] \in Done /\ ask'[x.by] = ask[x.by] /\ (b => c)
  BY <1>1, <1>2 DEF Steady
<1>4. Holds(ask[x.by], crate[r], x.dims, c, <<>>)
  <2>1. b \in BOOLEAN /\ c \in BOOLEAN
    OBVIOUS
  <2> HIDE DEF b, c
  <2> QED
    BY <1>2, <1>3, <2>1, HoldsBlurred
<1> QED
  BY <1>2, <1>3, <1>4 DEF Recorded, Done

\* A step that adds no score of an evaluation.
LEMMA SteadyStep ==
    ASSUME IInv, NEW E \in SUBSET Evals, Steady(E),
           \A r \in Rows : \A x \in scores'[r] \ scores[r] : x.by \notin Evals,
           Typed', \A e \in Evals \ E : Kept(e)'
    PROVE  IInv'
<1>1. \A e \in Evals : Kept(e)'
  BY OthersKept DEF IInv
<1>2. ASSUME NEW r \in Rows, NEW x \in scores'[r], x.by \in Evals PROVE Recorded(r, x)'
  <2>1. x \in scores[r] /\ Recorded(r, x) /\ Typed
    BY <1>2 DEF IInv
  <2>2. Steady({})
    BY DEF Steady
  <2> QED
    BY <2>1, <2>2, <1>2, RecordStays
<1> QED
  BY <1>1, <1>2 DEF IInv

\* A call of an evaluation.
LEMMA CallStep ==
    ASSUME IInv, NEW e \in Evals, Measures(e)
    PROVE  IInv'
<1>1. Typed /\ Kept(e)
  BY DEF IInv
<1>2. /\ pc[e] = "calls"
      /\ UNCHANGED <<crate, scores, pc, ask>>
      /\ \A g \in Evals \ {e} : todo'[g] = todo[g] /\ dims'[g] = dims[g]
      /\ dims' = [g \in Evals |-> dims'[g]]
      /\ blurred' = blurred \/ blurred' = blurred \cup {e}
  BY <1>1, CallFrame
<1>3. Running(e)' /\ todo'[e] \in Seq(Calling)
  BY <1>1, <1>2, CallHolds DEF Kept
<1>4. todo' = [g \in Evals |-> todo'[g]]
  <2> USE <1>1 DEF Typed, Found, NotApplicable
  <2> QED
    BY DEF Measures, RunSuite, CheckDeps, Compile, Baseline, Mutate, Structural
<1>5. Typed'
  BY <1>1, <1>2, <1>3, <1>4 DEF Typed
<1>6. Steady(Evals \ {e})
  BY <1>1, <1>2 DEF Steady
<1>7. Kept(e)'
  BY <1>2, <1>3 DEF Kept
<1> QED
  BY <1>2, <1>5, <1>6, <1>7, SteadyStep

\* Everything that applies is ahead at first.
LEMMA StartsExact ==
    ASSUME NEW q \in EvalRequest, NEW k, NEW f, DOMAIN f = {}
    PROVE  Exact(q, k, f, Calls(q))
<1> DEFINE t == Calls(q)
<1>1. Range(t) = (IF q.deps THEN {"deps"} ELSE {}) \cup {"compile"} \cup q.suites
                    \cup (IF q.mutants THEN {"baseline"} ELSE {})
                    \cup (IF q.structural THEN {"structural"} ELSE {})
  BY CallsAre
<1>2. q.suites \subseteq Suites
  BY DEF EvalRequest
<1> HIDE DEF t
<1>3. Range(t) \subseteq Asked(q)
  BY <1>1, <1>2 DEF Asked, Calling
<1>4. ASSUME NEW d \in Applies(q, k) PROVE Ahead(d) \cap Range(t) # {}
  <2>1. CASE d = "mutation"
    <3>1. q.mutants
      BY <2>1, <1>2, CodeEvalAssumption DEF Applies, Builtin
    <3>2. "baseline" \in Ahead(d) /\ "baseline" \in Range(t)
      BY <2>1, <3>1, <1>1 DEF Ahead
    <3> QED
      BY <3>2
  <2>2. CASE d # "mutation"
    <3>1. d \in Range(t)
      BY <2>2, <1>1 DEF Applies
    <3> QED
      BY <2>2, <3>1 DEF Ahead
  <2> QED
    BY <2>1, <2>2
<1>5. Exact(q, k, f, t)
  BY <1>3, <1>4 DEF Exact
<1> QED
  BY <1>5 DEF t

\* An evaluation starts.
LEMMA StartStep ==
    ASSUME IInv, NEW e \in Evals, NEW q \in EvalRequests, Start(e, q)
    PROVE  IInv'
<1>1. Typed /\ Kept(e) /\ q \in EvalRequest /\ q.target \in Rows
  BY CodeEvalAssumption DEF IInv, EvalRequest
<1>2. Calls(q) \in Seq(Calling)
  BY <1>1, CallsAre
<1>3. /\ pc[e] = "new" /\ crate[q.target] \in Crates /\ dims[e] = NoDims
      /\ pc'[e] = "calls" /\ ask'[e] = q /\ todo'[e] = Calls(q) /\ dims' = dims /\ crate' = crate
  BY <1>1 DEF Start, GoTo, Kept, Typed
<1>4. Typed'
  BY <1>1, <1>2 DEF Start, GoTo, Typed, PCs
<1>5. Steady(Evals \ {e})
  BY <1>1, <1>3 DEF Steady, Start, GoTo, Typed, Done
<1>6. Kept(e)'
  <2>1. DOMAIN NoDims = {}
    BY DEF NoDims
  <2>2. Sound(q, crate[q.target], NoDims, e \in blurred')
    BY <2>1 DEF Sound
  <2>3. Whole(q, crate[q.target], NoDims, e \in blurred', Calls(q))
    BY <2>1 DEF Whole
  <2>4. Exact(q, crate[q.target], NoDims, Calls(q))
    BY <1>1, <2>1, StartsExact
  <2> QED
    BY <1>3, <2>2, <2>3, <2>4 DEF Kept, Running, Holds, Subject
<1>7. scores' = scores
  BY DEF Start
<1> QED
  BY <1>4, <1>5, <1>6, <1>7, SteadyStep

\* An evaluation that ends, or never begins.
LEMMA OverStep ==
    ASSUME IInv, NEW e \in Evals,
           (\E r \in Rows : Refuse(e, r)) \/ ServiceFails(e) \/ Finish(e) \/ Interrupt(e)
    PROVE  IInv'
<1>1. Typed /\ <<>> \in Seq(Calling)
  BY DEF IInv
<1>2. /\ UNCHANGED <<crate, scores, ask, blurred>>
      /\ pc'[e] \in Done
      /\ \A g \in Evals \ {e} : UNCHANGED <<pc[g], todo[g], dims[g]>>
      /\ Typed'
  <2> USE <1>1 DEF Typed, GoTo, Over, Done, PCs
  <2>1. CASE \E r \in Rows : Refuse(e, r)
    BY <2>1 DEF Refuse
  <2>2. CASE ServiceFails(e)
    BY <2>2 DEF ServiceFails
  <2>3. CASE Finish(e)
    BY <2>3 DEF Finish
  <2>4. CASE Interrupt(e)
    BY <2>4 DEF Interrupt
  <2> QED
    BY <2>1, <2>2, <2>3, <2>4
<1>3. Steady(Evals \ {e})
  BY <1>2 DEF Steady
<1>4. Kept(e)'
  BY <1>2 DEF Kept, Done
<1> QED
  BY <1>2, <1>3, <1>4, SteadyStep

\* A row gets its artifact, or a score of a judge or a person.
LEMMA RowStep ==
    ASSUME IInv,
           \/ \E r \in Rows, c \in Crates : Generate(r, c)
           \/ \E p \in Raters, r \in Rows, f \in RaterScores : Rate(p, r, f)
    PROVE  IInv'
<1>1. Typed /\ Evals \cap Raters = {}
  BY CodeEvalAssumption DEF IInv
<1>2. CASE \E r \in Rows, c \in Crates : Generate(r, c)
  <2>1. Typed' /\ Steady(Evals) /\ scores' = scores
    BY <1>1, <1>2 DEF Generate, Typed, Steady
  <2> QED
    BY <2>1, SteadyStep
<1>3. CASE \E p \in Raters, r \in Rows, f \in RaterScores : Rate(p, r, f)
  <2>1. PICK p \in Raters, r \in Rows, f \in RaterScores : Rate(p, r, f)
    BY <1>3
  <2>2. Typed' /\ Steady(Evals)
    BY <1>1, <2>1 DEF Rate, AddScore, Typed, Steady
  <2>3. \A s \in Rows : \A x \in scores'[s] \ scores[s] : x.by \notin Evals
    BY <1>1, <2>1 DEF Rate, AddScore, Typed
  <2> QED
    BY <2>2, <2>3, SteadyStep
<1> QED
  BY <1>2, <1>3

\* An evaluation records what it measured.
LEMMA ApplyStep ==
    ASSUME IInv, NEW e \in Evals, Apply(e)
    PROVE  IInv'
<1> DEFINE s == ask[e].target
           y == [by |-> e, dims |-> dims[e]]
<1>1. Typed /\ Kept(e) /\ s \in Rows
  BY DEF IInv, Typed, EvalRequest
<1>2. /\ pc[e] = "calls" /\ todo[e] = <<>> /\ pc'[e] = "finish"
      /\ UNCHANGED <<crate, ask, todo, dims, blurred>>
      /\ \A g \in Evals \ {e} : pc'[g] = pc[g]
      /\ \A r \in Rows : scores'[r] \subseteq scores[r] \cup (IF r = s THEN {y} ELSE {})
      /\ Typed'
  BY <1>1 DEF Apply, AddScore, GoTo, Typed, PCs
<1>3. Steady(Evals \ {e}) /\ Steady({})
  BY <1>2 DEF Steady, Done
<1>4. \A g \in Evals : Kept(g)'
  BY <1>1, <1>2, <1>3, OthersKept DEF IInv, Kept
<1>5. ASSUME NEW r \in Rows, NEW x, r = s, x = y PROVE Recorded(r, x)'
  <2>1. crate[r] \in Crates /\ Holds(ask[e], crate[r], x.dims, e \in blurred, <<>>)
    BY <1>1, <1>2, <1>5 DEF Kept, Running, Subject
  <2> QED
    BY <1>2, <1>5, <2>1 DEF Recorded
<1>6. ASSUME NEW r \in Rows, NEW x \in scores'[r], x.by \in Evals PROVE Recorded(r, x)'
  <2>1. CASE x \in scores[r]
    BY <2>1, <1>1, <1>3, <1>6, RecordStays DEF IInv
  <2>2. CASE r = s /\ x = y
    BY <2>2, <1>5
  <2> QED
    BY <2>1, <2>2, <1>2
<1> QED
  BY <1>2, <1>4, <1>6 DEF IInv

\* Every step keeps the invariant.
LEMMA IInvStep == IInv /\ [Next]_vars => IInv'
<1> SUFFICES ASSUME IInv, [Next]_vars PROVE IInv'
  OBVIOUS
<1>1. CASE UNCHANGED vars
  BY <1>1 DEF vars, IInv, Typed, Kept, Running, Recorded, Subject
<1>2. ASSUME NEW e \in Evals, Step(e) PROVE IInv'
  <2>1. CASE \E q \in EvalRequests : Start(e, q)
    BY <2>1, StartStep
  <2>2. CASE Measures(e)
    BY <2>2, CallStep
  <2>3. CASE Apply(e)
    BY <2>3, ApplyStep
  <2>4. CASE (\E r \in Rows : Refuse(e, r)) \/ ServiceFails(e) \/ Finish(e) \/ Interrupt(e)
    BY <2>4, OverStep
  <2> QED
    BY <1>2, <2>1, <2>2, <2>3, <2>4 DEF Step, Measures
<1> QED
  BY <1>1, <1>2, RowStep DEF Next

\* The invariant holds, whatever fails and whatever order the evaluations come in.
THEOREM Invariance == Spec => []IInv
<1> QED
  BY InitHolds, IInvStep, PTL DEF Spec

-----------------------------------------------------------------------------
(* What the scores say. *)

\* _rate_to_score: 5 takes seven eighths of the tests, 1 at most one eighth.
LEMMA ScoreOfSuite ==
    ASSUME NEW k \in Crate, NEW s \in Suites
    PROVE  /\ SuiteScore(k, s) = 5 => 8 * k.passed[s] >= 7 * Tests
           /\ SuiteScore(k, s) = 1 => 8 * k.passed[s] <= Tests
<1>1. k.passed[s] \in Nat /\ Tests \in Nat \ {0}
  BY CodeEvalAssumption DEF Crate
<1>2. Tests + 4 * k.passed[s] \in Nat
  BY <1>1
<1>3. SuiteScore(k, s) = Nearest(Tests + 4 * k.passed[s], Tests)
  BY DEF SuiteScore, RateToScore
<1>4. /\ SuiteScore(k, s) = 5 => 9 * Tests <= 2 * (Tests + 4 * k.passed[s])
      /\ SuiteScore(k, s) = 1 => 2 * (Tests + 4 * k.passed[s]) <= 3 * Tests
  <2> DEFINE n == Tests + 4 * k.passed[s]
  <2> HIDE DEF n
  <2>1. /\ Nearest(n, Tests) = 5 => 9 * Tests <= 2 * n
        /\ Nearest(n, Tests) = 1 => 2 * n <= 3 * Tests
    BY <1>1, <1>2, NearestIs DEF n
  <2> QED
    BY <2>1, <1>3 DEF n
<1> HIDE DEF SuiteScore
<1> QED
  BY <1>1, <1>4

\* What the invariant says of a score that an evaluation recorded.
LEMMA Earned ==
    ASSUME IInv, NEW r \in Rows, NEW x \in scores[r], x.by \in Evals
    PROVE  LET q == ask[x.by]
               f == x.dims
               b == x.by \in blurred
           IN  /\ pc[x.by] \in {"finish", "complete", "failed"} /\ q.target = r
               /\ q \in EvalRequest /\ crate[r] \in Crate
               /\ Sound(q, crate[r], f, b)
               /\ "compile" \in DOMAIN f
               /\ f["compile"] # 5 => DOMAIN f \subseteq {"deps", "compile", "structural"}
               /\ f["compile"] = 5 =>
                     /\ q.suites \subseteq DOMAIN f
                     /\ q.mutants /\ crate[r].own = "passing" /\ crate[r].killed > 0 /\ ~b
                           => "mutation" \in DOMAIN f
<1> DEFINE q == ask[x.by]
           f == x.dims
           b == x.by \in blurred
<1>1. Recorded(r, x) /\ q \in EvalRequest
  BY DEF IInv, Typed
<1>2. Sound(q, crate[r], f, b) /\ Whole(q, crate[r], f, b, <<>>)
  BY <1>1 DEF Recorded, Holds
<1>3. "compile" \in DOMAIN f
  BY <1>1, <1>2, CallsAre DEF Whole
<1>4. Range(<<>>) = {}
  BY DEF Range
<1>5. crate[r] \in Crate
  BY <1>1, CodeEvalAssumption DEF Recorded
<1> QED
  BY <1>1, <1>2, <1>3, <1>4, <1>5 DEF Recorded, Whole

\* execute_code_eval_job: for any crates, suites and requests, and whatever fails on the way,
\* the scores of an evaluation are those of a whole run and what the crate deserves.
THEOREM EarnedScores == Spec => []ScoresAreEarned
<1>1. IInv => ScoresAreEarned
  <2> SUFFICES ASSUME IInv, NEW r \in Rows, NEW x \in scores[r], x.by \in Evals
               PROVE  /\ pc[x.by] \in {"finish", "complete", "failed"} /\ ask[x.by].target = r
                      /\ Deserved(ask[x.by], crate[r], x.dims, x.by \in blurred)
    BY DEF ScoresAreEarned
  <2> DEFINE q == ask[x.by]
             k == crate[r]
             f == x.dims
             b == x.by \in blurred
             clear == ~b /\ (q.gate \/ ~k.builds)
  <2>1. /\ pc[x.by] \in {"finish", "complete", "failed"} /\ q.target = r
        /\ q \in EvalRequest /\ k \in Crate
        /\ Sound(q, k, f, b)
        /\ "compile" \in DOMAIN f
        /\ f["compile"] # 5 => DOMAIN f \subseteq {"deps", "compile", "structural"}
        /\ f["compile"] = 5 =>
              /\ q.suites \subseteq DOMAIN f
              /\ q.mutants /\ k.own = "passing" /\ k.killed > 0 /\ ~b => "mutation" \in DOMAIN f
    BY Earned
  <2>2. /\ q.suites \subseteq Suites
        /\ Suites \cap {"deps", "compile", "structural"} = {}
    BY <2>1, CodeEvalAssumption DEF EvalRequest, Builtin
  <2>3. clear => ~b /\ (q.gate \/ ~k.builds)
    OBVIOUS
  <2> HIDE DEF q, k, f, b, clear
  <2>4. /\ f["compile"] \in {1, 5}
        /\ f["compile"] = 5 => k.builds /\ q.gate
        /\ clear => (f["compile"] = 1 => ~k.builds)
    BY <2>1, <2>3 DEF Sound
  <2>5. \A s \in q.suites : s \in DOMAIN f <=> f["compile"] = 5
    BY <2>1, <2>2
  <2>6. ASSUME NEW s \in q.suites, s \in DOMAIN f
        PROVE  /\ k.builds
               /\ f[s] = 5 => 8 * k.passed[s] >= 7 * Tests
               /\ clear /\ f[s] = 1 => 8 * k.passed[s] <= Tests
    <3>1. f[s] = SuiteScore(k, s) \/ (f[s] = 1 /\ b)
      BY <2>1, <2>2, <2>6 DEF Sound
    <3>2. s \in Suites
      BY <2>2
    <3>3. /\ SuiteScore(k, s) = 5 => 8 * k.passed[s] >= 7 * Tests
          /\ SuiteScore(k, s) = 1 => 8 * k.passed[s] <= Tests
      BY <2>1, <3>2, ScoreOfSuite
    <3> QED
      BY <2>3, <2>4, <2>5, <2>6, <3>1, <3>3
  <2>7. /\ "mutation" \in DOMAIN f => k.builds /\ k.own = "passing"
        /\ "mutation" \in DOMAIN f /\ f["mutation"] > 1 => k.killed > 0
    BY <2>1, <2>4 DEF Sound
  <2>8. /\ "structural" \in DOMAIN f /\ f["structural"] = 5 =>
              Clean(k) /\ (f["compile"] = 5 => k.lints)
        /\ clear /\ "structural" \in DOMAIN f /\ f["structural"] = 1 => ~Clean(k) \/ ~k.lints
    BY <2>1, <2>3 DEF Sound
  <2>9. clear /\ q.mutants /\ k.builds /\ k.own = "passing" /\ k.killed > 0
           => "mutation" \in DOMAIN f
    BY <2>1, <2>3, <2>4
  <2>10. Deserved(q, k, f, b)
    BY <2>1, <2>4, <2>5, <2>6, <2>7, <2>8, <2>9 DEF Deserved, clear
  <2> QED
    BY <2>1, <2>10 DEF q, k, f, b
<1> QED
  BY <1>1, Invariance, PTL

\* _req_satisfiable errs only on the bare "0".
LEMMA OffenderIs ==
    ASSUME NEW d \in Dep, Offender(d)
    PROVE  \/ ~d.known
           \/ \A v \in d.published : ~CargoTakes(d, v)
           \/ d.major = 0 /\ d.minor = Unset
<1> SUFFICES ASSUME d.known, d.major # 0 \/ d.minor # Unset,
                    NEW v \in d.published, CargoTakes(d, v)
             PROVE  FALSE
  OBVIOUS
<1>1. ~ReqSatisfiable(d)
  BY DEF Offender
<1>2. v[1] = d.major /\ d.major \in Nat
  BY DEF CargoTakes, Dep
<1>3. d.major = 0 => v[2] = d.minor
  BY DEF CargoTakes
<1> QED
  BY <1>1, <1>2, <1>3 DEF ReqSatisfiable

\* check_dependencies: for any Cargo.toml and any versions in the index, a crate loses the
\* point only for a name that is not there or a requirement that no version meets, but for "0".
THEOREM FlagsHaveCause == Spec => []FlaggedForCause
<1>1. IInv => FlaggedForCause
  <2> SUFFICES ASSUME IInv, NEW r \in Rows, NEW x \in scores[r],
                      x.by \in Evals, "deps" \in DOMAIN x.dims, x.dims["deps"] = 1
               PROVE  \E d \in crate[r].deps : \/ ~d.known
                                               \/ \A v \in d.published : ~CargoTakes(d, v)
                                               \/ d.major = 0 /\ d.minor = Unset
    BY DEF FlaggedForCause
  <2>1. crate[r] \in Crate /\ Sound(ask[x.by], crate[r], x.dims, x.by \in blurred)
    BY Earned
  <2>2. PICK d \in crate[r].deps : Offender(d)
    BY <2>1 DEF Sound
  <2>3. d \in Dep
    BY <2>1 DEF Crate
  <2> QED
    BY <2>2, <2>3, OffenderIs
<1> QED
  BY <1>1, Invariance, PTL

-----------------------------------------------------------------------------
(* Sums.  The library's sum chooses a recursive function over the subsets of *)
(* a domain; it is there, it is the only one, and the order in which it takes *)
(* the members makes no difference.                                           *)

\* A finite set has no endless chain of smaller and smaller subsets.
LEMMA SubsetsWellFounded ==
    ASSUME NEW S, IsFiniteSet(S)
    PROVE  IsWellFoundedOn(StrictSubsetOrdering(S), SUBSET S)
<1>1. FiniteSubsetsOf(S) = SUBSET S
  BY FS_FiniteSubsetsOfFinite
<1> QED
  BY <1>1, FS_StrictSubsetOrderingWellFounded

\* Induction over the subsets of a finite set; P holds those of which it is known.
LEMMA SubsetInduction ==
    ASSUME NEW S, IsFiniteSet(S), NEW P,
           \A s \in SUBSET S : (\A t \in SUBSET s : t # s => t \in P) => s \in P
    PROVE  S \in P
<1> DEFINE Bad == {s \in SUBSET S : s \notin P}
<1> SUFFICES ASSUME Bad # {} PROVE FALSE
  OBVIOUS
<1>1. IsWellFoundedOn(StrictSubsetOrdering(S), SUBSET S)
  BY SubsetsWellFounded
<1>2. PICK s \in Bad : \A t \in Bad : ~(<<t, s>> \in StrictSubsetOrdering(S))
  <2>1. Bad \subseteq SUBSET S
    OBVIOUS
  <2> HIDE DEF Bad
  <2> QED
    BY <1>1, <2>1, WFMin
<1>3. ASSUME NEW t \in SUBSET s, t # s PROVE t \in P
  <2>1. <<t, s>> \in StrictSubsetOrdering(S)
    BY <1>3 DEF StrictSubsetOrdering
  <2> QED
    BY <1>2, <2>1
<1> QED
  BY <1>3

First(s) == CHOOSE x \in s : TRUE

\* g sums f over every subset of S.
Summing(g, f, S) ==
    g = [s \in SUBSET S |-> IF s = {} THEN 0 ELSE f[First(s)] + g[s \ {First(s)}]]

Totals(g, f, S) ==
    g \in [SUBSET S -> Nat] /\ Summing(g, f, S) /\ \A x \in S : f[x] \in Nat

\* Two functions that sum the same numbers give the same sum.
LEMMA SumsAgree ==
    ASSUME NEW S, NEW T \in SUBSET S, IsFiniteSet(S), NEW f, NEW e, NEW g, NEW h,
           Summing(g, f, S), Summing(h, e, T), \A x \in T : f[x] = e[x]
    PROVE  g[T] = h[T]
<1> DEFINE P == {s \in SUBSET T : g[s] = h[s]}
<1>1. ASSUME NEW s \in SUBSET T, \A t \in SUBSET s : t # s => t \in P
      PROVE  s \in P
  <2>1. /\ g[s] = IF s = {} THEN 0 ELSE f[First(s)] + g[s \ {First(s)}]
        /\ h[s] = IF s = {} THEN 0 ELSE e[First(s)] + h[s \ {First(s)}]
    BY DEF Summing
  <2>2. CASE s # {}
    <3>1. First(s) \in s
      BY <2>2 DEF First
    <3>2. s \ {First(s)} \in P
      BY <1>1, <3>1
    <3> QED
      BY <2>1, <2>2, <3>1, <3>2
  <2> QED
    BY <2>1, <2>2
<1>2. T \in P
  <2>1. IsFiniteSet(T)
    BY FS_Subset
  <2> HIDE DEF P
  <2> QED
    BY <1>1, <2>1, SubsetInduction
<1> QED
  BY <1>2

\* There is a function that sums f over the subsets of a finite set.
LEMMA SumExists ==
    ASSUME NEW S, IsFiniteSet(S), NEW f, \A x \in S : f[x] \in Nat
    PROVE  \E g : Totals(g, f, S)
<1> DEFINE P == {s \in SUBSET S : \E g : Totals(g, f, s)}
<1>1. ASSUME NEW s \in SUBSET S, \A t \in SUBSET s : t # s => t \in P
      PROVE  s \in P
  <2>1. CASE s = {}
    <3>1. Totals([t \in SUBSET s |-> 0], f, s)
      BY <2>1 DEF Totals, Summing
    <3> QED
      BY <3>1
  <2>2. CASE s # {}
    <3> DEFINE H(t) == CHOOSE h : Totals(h, f, t)
               u == s \ {First(s)}
               G == [t \in SUBSET s |-> IF t = s THEN f[First(s)] + H(u)[u] ELSE H(t)[t]]
    <3>1. First(s) \in s /\ u \in SUBSET s /\ u # s
      BY <2>2 DEF First
    <3>2. ASSUME NEW t \in SUBSET s, t # s PROVE Totals(H(t), f, t)
      BY <1>1, <3>2
    <3> HIDE DEF H
    <3>3. ASSUME NEW t \in SUBSET s, t # s PROVE G[t] = H(t)[t] /\ G[t] \in Nat
      BY <3>2, <3>3 DEF Totals
    <3>4. G[s] = f[First(s)] + G[u] /\ G[s] \in Nat
      <4>1. G[s] = f[First(s)] + H(u)[u] /\ f[First(s)] \in Nat
        BY <3>1
      <4> HIDE DEF u, G
      <4>2. G[u] = H(u)[u] /\ G[u] \in Nat
        BY <3>1, <3>3
      <4> QED
        BY <4>1, <4>2
    <3>5. ASSUME NEW t \in SUBSET s, t # s
          PROVE  G[t] = IF t = {} THEN 0 ELSE f[First(t)] + G[t \ {First(t)}]
      <4>1. G[t] = IF t = {} THEN 0 ELSE f[First(t)] + H(t)[t \ {First(t)}]
        BY <3>2, <3>3, <3>5 DEF Totals, Summing
      <4>2. CASE t # {}
        <5> DEFINE v == t \ {First(t)}
        <5>1. v \in SUBSET t /\ v \in SUBSET s /\ v # s
          BY <3>5
        <5>2. G[v] = H(v)[v]
          BY <5>1, <3>3
        <5>3. Totals(H(t), f, t) /\ Totals(H(v), f, v) /\ IsFiniteSet(t)
          BY <5>1, <3>2, <3>5, FS_Subset
        <5> HIDE DEF v
        <5>4. H(t)[v] = H(v)[v]
          BY <5>1, <5>3, SumsAgree DEF Totals
        <5> QED
          BY <4>1, <4>2, <5>2, <5>4 DEF v
      <4> QED
        BY <4>1, <4>2
    <3>6. Summing(G, f, s)
      <4> SUFFICES ASSUME NEW t \in SUBSET s
                   PROVE  G[t] = IF t = {} THEN 0 ELSE f[First(t)] + G[t \ {First(t)}]
        BY DEF Summing
      <4> HIDE DEF G
      <4> QED
        BY <2>2, <3>4, <3>5
    <3>7. G \in [SUBSET s -> Nat]
      <4>1. \A t \in SUBSET s : G[t] \in Nat
        BY <3>3, <3>4
      <4> QED
        BY <4>1
    <3> QED
      BY <3>6, <3>7 DEF Totals
  <2> QED
    BY <2>1, <2>2
<1>2. S \in P
  <2> HIDE DEF P
  <2> QED
    BY <1>1, SubsetInduction
<1> QED
  BY <1>2

\* What the library sums.
LEMMA SumIs ==
    ASSUME NEW S, IsFiniteSet(S), NEW T \in SUBSET S, NEW f, NEW g, Totals(g, f, S),
           NEW e, DOMAIN e = T, \A x \in T : e[x] = f[x]
    PROVE  SumFunction(e) = g[T]
<1> DEFINE C == CHOOSE c : Summing(c, e, T)
<1>1. SumFunction(e) = C[T]
  BY DEF SumFunction, SumFunctionOnSet, FoldFunctionOnSet, MapThenFoldSet, Summing, First
<1>2. Summing(C, e, T)
  <2>1. \E c : Summing(c, e, T)
    BY SumExists, FS_Subset DEF Totals
  <2> QED
    BY <2>1
<1> HIDE DEF C
<1>3. g[T] = C[T]
  BY <1>2, SumsAgree DEF Totals
<1> QED
  BY <1>1, <1>3

\* Any member may be taken first.
LEMMA TakeAny ==
    ASSUME NEW S, IsFiniteSet(S), NEW f, NEW g, Totals(g, f, S)
    PROVE  /\ g[{}] = 0
           /\ \A s \in SUBSET S : \A y \in s : g[s] = f[y] + g[s \ {y}]
<1>1. g[{}] = 0
  BY DEF Totals, Summing
<1> DEFINE P == {s \in SUBSET S : \A y \in s : g[s] = f[y] + g[s \ {y}]}
<1>2. ASSUME NEW s \in SUBSET S, \A t \in SUBSET s : t # s => t \in P
      PROVE  s \in P
  <2> SUFFICES ASSUME NEW y \in s PROVE g[s] = f[y] + g[s \ {y}]
    OBVIOUS
  <2> DEFINE x == First(s)
  <2>1. x \in s /\ g[s] = f[x] + g[s \ {x}]
    BY DEF First, Totals, Summing
  <2>2. CASE y # x
    <3> DEFINE a == s \ {x}
               b == s \ {y}
               c == s \ {x, y}
    <3>1. a \in P /\ b \in P /\ y \in a /\ x \in b
      BY <1>2, <2>1, <2>2
    <3>2. a \ {y} = c /\ b \ {x} = c
      OBVIOUS
    <3>3. g[a] = f[y] + g[c] /\ g[b] = f[x] + g[c]
      BY <3>1, <3>2
    <3>4. g[a] \in Nat /\ g[b] \in Nat /\ g[c] \in Nat /\ f[x] \in Nat /\ f[y] \in Nat
      BY <2>1 DEF Totals
    <3> HIDE DEF a, b, c, x
    <3>5. f[x] + (f[y] + g[c]) = f[y] + (f[x] + g[c])
      BY <3>4
    <3> QED
      BY <2>1, <3>3, <3>5 DEF a, b
  <2> QED
    BY <2>1, <2>2
<1>3. ASSUME NEW s \in SUBSET S PROVE s \in P
  <2>1. IsFiniteSet(s)
    BY FS_Subset
  <2>2. \A t \in SUBSET s : (\A u \in SUBSET t : u # t => u \in P) => t \in P
    BY <1>2
  <2> HIDE DEF P
  <2> QED
    BY <2>1, <2>2, SubsetInduction
<1> QED
  BY <1>1, <1>3

\* Sums compare as their terms do.
LEMMA SumsCompare ==
    ASSUME NEW S, IsFiniteSet(S), NEW f, NEW g, NEW e, NEW h, Totals(g, f, S), Totals(h, e, S),
           NEW T \in SUBSET S, NEW a \in Nat, NEW b \in Nat,
           \A x \in T : a * f[x] <= b * e[x]
    PROVE  a * g[T] <= b * h[T]
<1> DEFINE P == {s \in SUBSET T : a * g[s] <= b * h[s]}
<1>1. ASSUME NEW s \in SUBSET T, \A t \in SUBSET s : t # s => t \in P
      PROVE  s \in P
  <2>1. g[{}] = 0 /\ h[{}] = 0
    BY TakeAny
  <2>2. CASE s # {}
    <3> PICK x \in s : TRUE
      BY <2>2
    <3> DEFINE t == s \ {x}
    <3>1. t \in P
      BY <1>1
    <3>2. g[s] = f[x] + g[t] /\ h[s] = e[x] + h[t]
      BY TakeAny
    <3>3. g[t] \in Nat /\ h[t] \in Nat /\ f[x] \in Nat /\ e[x] \in Nat
      BY DEF Totals
    <3>4. a * g[t] <= b * h[t] /\ a * f[x] <= b * e[x]
      BY <3>1
    <3> HIDE DEF t
    <3>5. a * (f[x] + g[t]) = a * f[x] + a * g[t] /\ b * (e[x] + h[t]) = b * e[x] + b * h[t]
      BY <3>3
    <3>6. a * g[s] <= b * h[s]
      BY <3>2, <3>3, <3>4, <3>5
    <3> QED
      BY <3>6
  <2> QED
    BY <2>1, <2>2
<1>2. T \in P
  <2>1. IsFiniteSet(T)
    BY FS_Subset
  <2> HIDE DEF P
  <2> QED
    BY <1>1, <2>1, SubsetInduction
<1> QED
  BY <1>2

-----------------------------------------------------------------------------
(* What a row with one clear evaluation comes to. *)

Weighted == DOMAIN Weights \cap Dimensions

\* The dimensions that count for a row with the crate k, and what each contributes.
Counts(q, k) == DOMAIN Weights \cap Applies(q, k)

Marks(q, k) ==
    [d \in Weighted |-> IF d \in Applies(q, k) THEN Weights[d] * (100 * Score(q, k, d)) ELSE 0]

\* There are finitely many dimensions.
LEMMA WeightedFinite == IsFiniteSet(Weighted)
<1>1. IsFiniteSet(Builtin)
  <2>1. IsFiniteSet({"compile"} \cup ({"deps"} \cup ({"mutation"} \cup {"structural"})))
    BY FS_Union, FS_Singleton
  <2> QED
    BY <2>1 DEF Builtin
<1> QED
  BY <1>1, FS_Union, FS_Subset, CodeEvalAssumption DEF Weighted, Dimensions

\* A score is one of 1 to 5.
LEMMA ScoreInRange ==
    ASSUME NEW q \in EvalRequest, NEW k \in Crate, NEW d \in Applies(q, k)
    PROVE  Score(q, k, d) \in 1 .. 5
<1>1. CASE d \in {"deps", "compile", "structural"}
  BY <1>1 DEF Score
<1>2. CASE d = "mutation"
  <2>1. k.killed + k.missed \in Nat \ {0} /\ k.killed \in 0 .. k.killed + k.missed
    <3>1. "mutation" \notin Suites /\ q.suites \subseteq Suites
      BY CodeEvalAssumption DEF Builtin, EvalRequest
    <3>2. k.killed + k.missed # 0
      BY <1>2, <3>1 DEF Applies
    <3>3. k.killed \in Nat /\ k.missed \in Nat
      BY DEF Crate
    <3> QED
      BY <3>2, <3>3
  <2>2. Score(q, k, d) = RateToScore(k.killed, k.killed + k.missed)
    BY <1>2 DEF Score
  <2> QED
    BY <2>1, <2>2, RateInRange
<1>3. CASE d \in Suites
  <2>1. k.passed[d] \in 0 .. Tests /\ Tests \in Nat \ {0}
    BY <1>3, CodeEvalAssumption DEF Crate
  <2>2. Score(q, k, d) = RateToScore(k.passed[d], Tests)
    BY <1>3, CodeEvalAssumption DEF Score, SuiteScore, Builtin
  <2> QED
    BY <2>1, <2>2, RateInRange
<1> QED
  BY <1>1, <1>2, <1>3 DEF Applies, Dimensions, Builtin

\* The marks are numbers, of 100 to 500 for each point of weight.
LEMMA MarksBetween ==
    ASSUME WeightsFit, NEW q \in EvalRequest, NEW k \in Crate
    PROVE  \A d \in Weighted :
              /\ Weights[d] \in Nat /\ Marks(q, k)[d] \in Nat
              /\ d \in Applies(q, k) => /\ Marks(q, k)[d] = Weights[d] * (100 * Score(q, k, d))
                                       /\ 100 * Weights[d] <= Marks(q, k)[d]
                                       /\ Marks(q, k)[d] <= 500 * Weights[d]
<1> SUFFICES ASSUME NEW d \in Weighted
             PROVE  /\ Weights[d] \in Nat /\ Marks(q, k)[d] \in Nat
                    /\ d \in Applies(q, k) =>
                          /\ Marks(q, k)[d] = Weights[d] * (100 * Score(q, k, d))
                          /\ 100 * Weights[d] <= Marks(q, k)[d]
                          /\ Marks(q, k)[d] <= 500 * Weights[d]
  OBVIOUS
<1>1. Weights[d] \in Nat
  BY DEF WeightsFit, Weighted
<1>2. CASE d \notin Applies(q, k)
  BY <1>1, <1>2 DEF Marks
<1>3. CASE d \in Applies(q, k)
  <2> DEFINE v == 100 * Score(q, k, d)
             w == Weights[d]
  <2>1. v \in Nat /\ 100 <= v /\ v <= 500
    BY <1>3, ScoreInRange
  <2>2. Marks(q, k)[d] = w * v
    BY <1>3 DEF Marks
  <2>3. w \in Nat
    BY <1>1
  <2> HIDE DEF v, w
  <2>4. 100 * w <= v * w /\ v * w <= 500 * w /\ v * w = w * v /\ v * w \in Nat
    BY <2>1, <2>3, Products
  <2> QED
    BY <1>3, <2>2, <2>3, <2>4 DEF v, w
<1> QED
  BY <1>2, <1>3

\* The sum of one number is the number.
LEMMA SumOfOne ==
    ASSUME NEW x, NEW e, DOMAIN e = {x}, e[x] \in Nat
    PROVE  SumFunction(e) = e[x]
<1> DEFINE G == {x}
<1>1. IsFiniteSet(G) /\ \A y \in G : e[y] \in Nat
  BY FS_Singleton
<1>2. x \in G /\ G \ {x} = {} /\ DOMAIN e = G
  OBVIOUS
<1> HIDE DEF G
<1>3. PICK g : Totals(g, e, G)
  BY <1>1, SumExists
<1>4. SumFunction(e) = g[G]
  BY <1>1, <1>2, <1>3, SumIs
<1>5. g[{}] = 0 /\ \A s \in SUBSET G : \A y \in s : g[s] = e[y] + g[s \ {y}]
  BY <1>1, <1>3, TakeAny
<1>6. g[G] = e[x] + g[G \ {x}]
  BY <1>2, <1>5
<1>7. g[G] = e[x] + 0
  BY <1>2, <1>5, <1>6
<1> QED
  BY <1>4, <1>7

\* The average of one score, in hundredths.
LEMMA AverageOfOne ==
    \A r, x, d, v : scores[r] = {x} /\ d \in DOMAIN x.dims /\ x.dims[d] = v /\ v \in 1 .. 5
        => Average(r, d) = 100 * v
<1> TAKE r, x, d, v
<1> HAVE scores[r] = {x} /\ d \in DOMAIN x.dims /\ x.dims[d] = v /\ v \in 1 .. 5
<1>1. Given(r, d) = {x}
  BY DEF Given
<1> DEFINE G == Given(r, d)
           e == [y \in G |-> y.dims[d]]
           c == x.dims[d]
<1>2. IsFiniteSet(G) /\ Cardinality(G) = 1
  BY <1>1, FS_Singleton
<1>3. SumFunction(e) = c
  <2>1. DOMAIN e = {x} /\ e[x] = c /\ c \in Nat
    BY <1>1
  <2> HIDE DEF e, c
  <2> QED
    BY <2>1, SumOfOne
<1>4. Average(r, d) = Nearest(100 * c, 1)
  BY <1>2, <1>3 DEF Average
<1>5. Nearest(100 * c, 1) = 100 * c
  <2> DEFINE n == 100 * c
  <2>1. n \in Nat
    OBVIOUS
  <2> HIDE DEF n
  <2>2. Nearest(n * 1, 1) = n
    BY <2>1, NearestExact
  <2> QED
    BY <2>1, <2>2 DEF n
<1> QED
  BY <1>1, <1>4, <1>5

\* The row has been measured in one clear evaluation, of the crate k for the request q.
Clearly(r, q, k) ==
    /\ Measured(r) = Counts(q, k)
    /\ \A d \in Counts(q, k) : Average(r, d) = 100 * Score(q, k, d)

\* The composite of such a row, out of the sums of its weights and of its marks.
LEMMA CompositeIs ==
    ASSUME WeightsFit, NEW q \in EvalRequest, NEW k \in Crate, NEW r, Clearly(r, q, k),
           NEW g, Totals(g, Weights, Weighted), NEW h, Totals(h, Marks(q, k), Weighted)
    PROVE  /\ WeightTotal(r) = g[Counts(q, k)]
           /\ Contributions(r) = h[Counts(q, k)]
<1> DEFINE D == Counts(q, k)
<1>1. Measured(r) = D
  BY DEF Clearly
<1>2. D \in SUBSET Weighted
  BY DEF Counts, Weighted, Applies
<1>3. \A d \in D : Weights[d] * Average(r, d) = Marks(q, k)[d]
  <2> SUFFICES ASSUME NEW d \in D PROVE Weights[d] * Average(r, d) = Marks(q, k)[d]
    OBVIOUS
  <2>1. d \in Applies(q, k) /\ d \in Weighted
    BY <1>2 DEF Counts
  <2>2. Average(r, d) = 100 * Score(q, k, d)
    BY DEF Clearly
  <2> QED
    BY <2>1, <2>2 DEF Marks
<1>4. \A d \in Weighted : Weights[d] \in Nat /\ Marks(q, k)[d] \in Nat
  BY MarksBetween
<1> HIDE DEF D
<1>5. WeightTotal(r) = g[D]
  <2> DEFINE e == [d \in Measured(r) |-> Weights[d]]
  <2>1. DOMAIN e = D /\ \A d \in D : e[d] = Weights[d] /\ e[d] \in Nat
    BY <1>1, <1>2, <1>4
  <2>2. WeightTotal(r) = SumFunction(e)
    BY DEF WeightTotal
  <2> HIDE DEF e
  <2> QED
    BY <1>2, <2>1, <2>2, SumIs, WeightedFinite
<1>6. Contributions(r) = h[D]
  <2> DEFINE e == [d \in Measured(r) |-> Weights[d] * Average(r, d)]
             f == Marks(q, k)
  <2>1. DOMAIN e = D /\ \A d \in D : e[d] = f[d] /\ e[d] \in Nat
    BY <1>1, <1>2, <1>3, <1>4
  <2>2. Contributions(r) = SumFunction(e)
    BY DEF Contributions
  <2> HIDE DEF e, f
  <2> QED
    BY <1>2, <2>1, <2>2, SumIs, WeightedFinite DEF f
<1> QED
  BY <1>5, <1>6 DEF D

\* One score, of a clear evaluation that is over, measures the row clearly.
LEMMA ClearlyMeasured ==
    ASSUME NEW q \in EvalRequest, NEW k \in Crate, NEW r, NEW x, NEW f,
           scores[r] = {x}, x.dims = f, Exact(q, k, f, <<>>)
    PROVE  Clearly(r, q, k)
<1>1. DOMAIN f = Applies(q, k) /\ \A d \in Applies(q, k) : f[d] = Score(q, k, d)
  BY DEF Exact, Range
<1>2. Measured(r) = Counts(q, k)
  BY <1>1 DEF Measured, Given, Counts
<1>3. ASSUME NEW d \in Counts(q, k) PROVE Average(r, d) = 100 * Score(q, k, d)
  <2>1. f[d] = Score(q, k, d) /\ f[d] \in 1 .. 5 /\ d \in DOMAIN f
    BY <1>1, ScoreInRange DEF Counts
  <2>2. Average(r, d) = 100 * f[d]
    BY <2>1, AverageOfOne
  <2> QED
    BY <2>1, <2>2
<1> QED
  BY <1>2, <1>3 DEF Clearly

-----------------------------------------------------------------------------
(* Why the better row is not rejected: the dimensions that count for both    *)
(* speak for it, and what counts for one of them only is worth too little.   *)

\* What WeightsFit says of numbers; a gap of 0 or 1 would fit no weights.
LEMMA GapOfTwo ==
    ASSUME WeightsFit
    PROVE  /\ MinGap \in Nat /\ MinGap >= 2
           /\ \A d \in {"compile", "mutation", "deps", "structural"} : Weight(d) \in Nat
           /\ Weight("compile") > 0
           /\ 40000 * Weight("mutation") < (MinGap - 1) * (Weight("compile") + Weight("mutation"))
           /\ 40000 * (Weight("deps") + Weight("structural"))
                 < (MinGap - 1) * (Weight("compile") + (Weight("deps") + Weight("structural")))
<1>1. \A d \in {"compile", "mutation", "deps", "structural"} : Weight(d) \in Nat
  BY DEF WeightsFit, Weight
<1> DEFINE c == Weight("compile")
           m == Weight("mutation")
<1>2. c \in Nat /\ m \in Nat /\ MinGap \in Nat /\ 40000 * m < (MinGap - 1) * (c + m)
  BY <1>1, CodeEvalAssumption DEF WeightsFit
<1>3. Weight("compile") > 0
  BY DEF WeightsFit
<1>4. 40000 * (Weight("deps") + Weight("structural"))
         < (MinGap - 1) * (Weight("compile") + (Weight("deps") + Weight("structural")))
  <2>1. Weight("compile") + Weight("deps") + Weight("structural")
           = Weight("compile") + (Weight("deps") + Weight("structural"))
    BY <1>1
  <2> QED
    BY <2>1 DEF WeightsFit
<1> HIDE DEF c, m
<1>5. MinGap >= 2
  <2> SUFFICES ASSUME MinGap <= 1 PROVE FALSE
    BY <1>2
  <2>1. CASE MinGap = 1
    BY <1>2, <2>1
  <2>2. CASE MinGap = 0
    <3>1. (0 - 1) * (c + m) <= 0
      BY <1>2
    <3> QED
      BY <1>2, <2>2, <3>1
  <2> QED
    BY <1>2, <2>1, <2>2
<1> QED
  BY <1>1, <1>2, <1>3, <1>4, <1>5 DEF c, m

\* The better crate is given no lower a score, if the gate lets pass both or neither.
LEMMA NoLower ==
    ASSUME NEW q \in EvalRequest, NEW k \in Crate, NEW m \in Crate, AsGood(k, m),
           Passes(q, k) <=> Passes(q, m), NEW d \in Applies(q, k) \cap Applies(q, m)
    PROVE  Score(q, m, d) <= Score(q, k, d)
<1>1. CASE d = "deps"
  BY <1>1 DEF Score, AsGood
<1>2. CASE d = "compile"
  BY <1>2 DEF Score
<1>3. CASE d = "structural"
  BY <1>3 DEF Score, AsGood
<1>4. CASE d = "mutation"
  <2>1. "mutation" \notin Suites /\ q.suites \subseteq Suites
    BY CodeEvalAssumption DEF Builtin, EvalRequest
  <2>2. k.killed + k.missed # 0 /\ m.killed + m.missed # 0
    BY <1>4, <2>1 DEF Applies
  <2>3. k.killed \in Nat /\ k.missed \in Nat /\ m.killed \in Nat /\ m.missed \in Nat
    BY DEF Crate
  <2>4. m.killed * (k.killed + k.missed) <= k.killed * (m.killed + m.missed)
    <3>1. k.killed * (m.killed + m.missed) >= m.killed * (k.killed + k.missed)
      BY DEF AsGood
    <3> QED
      BY <2>3, <3>1
  <2> DEFINE a == k.killed
             b == k.killed + k.missed
             c == m.killed
             e == m.killed + m.missed
  <2>5. a \in Nat /\ c \in Nat /\ b \in Nat \ {0} /\ e \in Nat \ {0} /\ c * b <= a * e
    BY <2>2, <2>3, <2>4
  <2>6. Score(q, k, d) = RateToScore(a, b) /\ Score(q, m, d) = RateToScore(c, e)
    BY <1>4 DEF Score
  <2> HIDE DEF a, b, c, e
  <2> QED
    BY <2>5, <2>6, RateMonotone
<1>5. CASE d \in Suites
  <2> DEFINE a == k.passed[d]
             c == m.passed[d]
  <2>1. a \in Nat /\ c \in Nat /\ Tests \in Nat \ {0} /\ c <= a
    BY <1>5, CodeEvalAssumption DEF Crate, AsGood
  <2>2. Score(q, k, d) = RateToScore(a, Tests) /\ Score(q, m, d) = RateToScore(c, Tests)
    BY <1>5, CodeEvalAssumption DEF Score, SuiteScore, Builtin
  <2> HIDE DEF a, c
  <2>3. c * Tests <= a * Tests
    BY <2>1, Products
  <2> QED
    BY <2>1, <2>2, <2>3, RateMonotone
<1> QED
  BY <1>1, <1>2, <1>3, <1>4, <1>5 DEF Applies, Dimensions, Builtin

\* Then the same applies to both, but for the mutation score.
LEMMA SameButMutation ==
    ASSUME NEW q \in EvalRequest, NEW k, NEW m, Passes(q, k) <=> Passes(q, m)
    PROVE  Applies(q, k) \ {"mutation"} = Applies(q, m) \ {"mutation"}
BY DEF Applies

\* What applies to a crate that the gate does not let pass.
LEMMA BehindTheGate ==
    ASSUME NEW q \in EvalRequest, NEW k, ~Passes(q, k)
    PROVE  /\ Applies(q, k) \subseteq {"compile", "deps", "structural"}
           /\ Score(q, k, "compile") = 1
BY DEF Applies, Score

\* The arithmetic of the three cases: a mutation score that only the better row has, one that
\* only the worse has, and a worse row that does not compile.
LEMMA TooLittle ==
    ASSUME NEW T \in Nat, NEW w \in Nat, NEW c \in Nat, NEW g \in Nat, c <= T, T # 0, g >= 1,
           40000 * w < (g - 1) * (c + w)
    PROVE  40000 * (w * T) < (g - 1) * (T * (T + w))
<1> DEFINE h == g - 1
           x == h * (c + w)
           y == h * (T + w)
<1>1. h \in Nat /\ x \in Nat /\ y \in Nat /\ 40000 * w < x
  OBVIOUS
<1>2. x <= y
  <2>1. (c + w) * h <= (T + w) * h
    BY <1>1, Products
  <2>2. (c + w) * h = x /\ (T + w) * h = y
    BY <1>1
  <2> QED
    BY <2>1, <2>2
<1>3. (40000 * w) * T < y * T
  <2> HIDE DEF x, y
  <2> QED
    BY <1>1, <1>2, Products
<1>4. (40000 * w) * T = 40000 * (w * T) /\ y * T = h * (T * (T + w))
  BY <1>1
<1> QED
  BY <1>3, <1>4

LEMMA GapIfAdded ==
    ASSUME NEW T \in Nat, NEW w \in Nat, NEW c \in Nat, NEW X \in Nat, NEW Y \in Nat, NEW Z \in Nat,
           NEW g \in Nat, c <= T, T # 0, Y <= X, Y <= 500 * T, X + 100 * w <= Z, g >= 1,
           40000 * w < (g - 1) * (c + w)
    PROVE  (100 * Y) * (T + w) - (100 * Z) * T < (g - 1) * (T * (T + w))
<1> DEFINE A == w * T
           B == Y * T
           C == Y * w
           D == Z * T
<1>1. A \in Nat /\ B \in Nat /\ C \in Nat /\ D \in Nat
  OBVIOUS
<1>2. (100 * Y) * (T + w) = 100 * B + 100 * C /\ (100 * Z) * T = 100 * D
  OBVIOUS
<1>3. B + 100 * A <= D
  <2>1. (Y + 100 * w) * T <= Z * T
    BY Products
  <2>2. (Y + 100 * w) * T = B + 100 * A
    OBVIOUS
  <2> QED
    BY <2>1, <2>2
<1>4. C <= 500 * A
  <2>1. Y * w <= (500 * T) * w
    BY Products
  <2>2. (500 * T) * w = 500 * A
    OBVIOUS
  <2> QED
    BY <2>1, <2>2
<1>5. 40000 * A < (g - 1) * (T * (T + w))
  BY TooLittle
<1> HIDE DEF A, B, C, D
<1>6. (100 * B + 100 * C) - 100 * D <= 40000 * A
  BY <1>1, <1>3, <1>4
<1> DEFINE R == (g - 1) * (T * (T + w))
<1>7. R \in Int
  OBVIOUS
<1> HIDE DEF R
<1>8. (100 * B + 100 * C) - 100 * D < R
  BY <1>1, <1>5, <1>6, <1>7 DEF R
<1> QED
  BY <1>2, <1>8 DEF R

LEMMA GapIfMissing ==
    ASSUME NEW T \in Nat, NEW w \in Nat, NEW c \in Nat, NEW X \in Nat, NEW Y \in Nat,
           NEW g \in Nat, c <= T, T # 0, 100 * T <= X, Y <= X + 500 * w, g >= 1,
           40000 * w < (g - 1) * (c + w)
    PROVE  (100 * Y) * T - (100 * X) * (T + w) < (g - 1) * ((T + w) * T)
<1> DEFINE A == w * T
           B == X * T
           C == X * w
           D == Y * T
<1>1. A \in Nat /\ B \in Nat /\ C \in Nat /\ D \in Nat
  OBVIOUS
<1>2. (100 * X) * (T + w) = 100 * B + 100 * C /\ (100 * Y) * T = 100 * D
  OBVIOUS
<1>3. D <= B + 500 * A
  <2>1. Y * T <= (X + 500 * w) * T
    BY Products
  <2>2. (X + 500 * w) * T = B + 500 * A
    OBVIOUS
  <2> QED
    BY <2>1, <2>2
<1>4. 100 * A <= C
  <2>1. (100 * T) * w <= X * w
    BY Products
  <2>2. (100 * T) * w = 100 * A
    OBVIOUS
  <2> QED
    BY <2>1, <2>2
<1>5. 40000 * A < (g - 1) * ((T + w) * T)
  <2>1. (T + w) * T = T * (T + w)
    OBVIOUS
  <2> QED
    BY <2>1, TooLittle
<1> DEFINE R == (g - 1) * ((T + w) * T)
<1>6. R \in Int
  OBVIOUS
<1> HIDE DEF A, B, C, D, R
<1>7. 100 * D - (100 * B + 100 * C) < R
  BY <1>1, <1>3, <1>4, <1>5, <1>6 DEF R
<1> QED
  BY <1>2, <1>7 DEF R

LEMMA GapIfFailed ==
    ASSUME NEW T \in Nat, NEW c \in Nat, NEW u \in Nat, NEW U \in Nat, NEW X \in Nat, NEW Y \in Nat,
           NEW g \in Nat, T # 0, c # 0, u <= U, 100 * T <= X, Y <= 100 * c + 500 * u, g >= 1,
           40000 * U < (g - 1) * (c + U)
    PROVE  (100 * Y) * T - (100 * X) * (c + u) < (g - 1) * ((c + u) * T)
<1> DEFINE h == g - 1
           n == c + u
<1>1. h \in Nat /\ n \in Nat /\ n # 0
  OBVIOUS
<1>2. 40000 * u < h * n
  <2>1. (40000 * U) * n < (h * (c + U)) * n
    <3>1. h * (c + U) \in Nat
      OBVIOUS
    <3> HIDE DEF n
    <3> QED
      BY <1>1, <3>1, Products
  <2>2. u * c <= U * c
    BY Products
  <2>3. (40000 * u) * (c + U) <= (40000 * U) * n
    <3>1. (40000 * u) * (c + U) = 40000 * (u * c) + 40000 * (u * U)
      OBVIOUS
    <3>2. (40000 * U) * n = 40000 * (U * c) + 40000 * (u * U)
      OBVIOUS
    <3>3. u * c \in Nat /\ U * c \in Nat /\ u * U \in Nat
      OBVIOUS
    <3> QED
      BY <2>2, <3>1, <3>2, <3>3
  <2>4. (h * (c + U)) * n = (h * n) * (c + U)
    BY <1>1
  <2>5. h * n \in Nat /\ c + U \in Nat /\ 40000 * u \in Nat
    BY <1>1
  <2> DEFINE p == 40000 * u
             r == h * n
             s == c + U
  <2>6. p * s < r * s
    <3>1. p * s \in Nat /\ r * s \in Nat /\ (40000 * U) * n \in Nat
      BY <2>5
    <3> QED
      BY <2>1, <2>3, <2>4, <3>1
  <2> HIDE DEF p, r, s, h, n
  <2>7. p \in Nat /\ r \in Nat /\ s \in Nat
    BY <2>5 DEF p, r, s
  <2>8. ~(r <= p)
    BY <2>6, <2>7, Products
  <2> QED
    BY <2>7, <2>8 DEF p, r
<1>3. (40000 * u) * T < (h * n) * T
  <2>1. h * n \in Nat
    BY <1>1
  <2> HIDE DEF h, n
  <2> QED
    BY <1>2, <2>1, Products
<1>4. (100 * Y) * T <= 10000 * (c * T) + 50000 * (u * T)
  <2>1. Y * T <= (100 * c + 500 * u) * T
    BY Products
  <2>2. (100 * c + 500 * u) * T = 100 * (c * T) + 500 * (u * T) /\ (100 * Y) * T = 100 * (Y * T)
    OBVIOUS
  <2>3. c * T \in Nat /\ u * T \in Nat /\ Y * T \in Nat
    OBVIOUS
  <2> QED
    BY <2>1, <2>2, <2>3
<1>5. 10000 * (c * T) + 10000 * (u * T) <= (100 * X) * n
  <2>1. (100 * T) * n <= X * n
    BY <1>1, Products
  <2>2. (100 * T) * n = 100 * (c * T) + 100 * (u * T) /\ (100 * X) * n = 100 * (X * n)
    OBVIOUS
  <2>3. c * T \in Nat /\ u * T \in Nat /\ X * n \in Nat
    OBVIOUS
  <2> QED
    BY <2>1, <2>2, <2>3
<1>6. (40000 * u) * T = 40000 * (u * T) /\ (h * n) * T = h * (n * T)
  BY <1>1
<1> DEFINE a == (100 * Y) * T
           b == (100 * X) * n
           e == c * T
           f == u * T
           r == h * (n * T)
<1>7. a \in Nat /\ b \in Nat /\ e \in Nat /\ f \in Nat /\ r \in Nat
  BY <1>1
<1>8. /\ 40000 * f < r
      /\ a <= 10000 * e + 50000 * f
      /\ 10000 * e + 10000 * f <= b
  BY <1>3, <1>4, <1>5, <1>6
<1> HIDE DEF a, b, e, f, r
<1>9. a - b < r
  BY <1>7, <1>8
<1> QED
  BY <1>9 DEF a, b, r, h, n

\* What D comes to is one dimension d, and the rest.
LEMMA TakeOut ==
    ASSUME NEW f, NEW g, Totals(g, f, Weighted), NEW D \in SUBSET Weighted, NEW d \in D
    PROVE  g[D] = f[d] + g[D \ {d}] /\ g[D] \in Nat /\ g[D \ {d}] \in Nat /\ f[d] \in Nat
<1>1. g[D] = f[d] + g[D \ {d}]
  BY WeightedFinite, TakeAny
<1> QED
  BY <1>1 DEF Totals

\* The marks of what applies are worth 1 to 5 for each of the weights.
LEMMA TotalBetween ==
    ASSUME WeightsFit, NEW q \in EvalRequest, NEW k \in Crate, NEW D \in SUBSET Counts(q, k),
           NEW g, Totals(g, Weights, Weighted), NEW h, Totals(h, Marks(q, k), Weighted)
    PROVE  /\ g[D] \in Nat /\ h[D] \in Nat
           /\ 100 * g[D] <= h[D] /\ h[D] <= 500 * g[D]
<1> DEFINE M == Marks(q, k)
<1>1. D \in SUBSET Weighted /\ D \subseteq Applies(q, k)
  BY DEF Counts, Weighted, Applies
<1>2. \A d \in Weighted :
         /\ Weights[d] \in Nat /\ M[d] \in Nat
         /\ d \in Applies(q, k) => 100 * Weights[d] <= M[d] /\ M[d] <= 500 * Weights[d]
  BY MarksBetween
<1>3. g[D] \in Nat /\ h[D] \in Nat
  BY <1>1 DEF Totals
<1> HIDE DEF M
<1>4. 100 * g[D] <= 1 * h[D]
  <2>1. \A d \in D : 100 * Weights[d] <= 1 * M[d]
    BY <1>1, <1>2
  <2>2. Totals(h, M, Weighted)
    BY DEF M
  <2> QED
    BY <1>1, <1>2, <2>1, <2>2, WeightedFinite, SumsCompare
<1>5. 1 * h[D] <= 500 * g[D]
  <2>1. \A d \in D : 1 * M[d] <= 500 * Weights[d]
    BY <1>1, <1>2
  <2>2. Totals(h, M, Weighted)
    BY DEF M
  <2> QED
    BY <1>1, <1>2, <2>1, <2>2, WeightedFinite, SumsCompare
<1> QED
  BY <1>3, <1>4, <1>5

\* The marks of the better crate are worth no less, where the gate makes no difference.
LEMMA TotalNoLower ==
    ASSUME WeightsFit, NEW q \in EvalRequest, NEW k \in Crate, NEW m \in Crate, AsGood(k, m),
           Passes(q, k) <=> Passes(q, m),
           NEW D, D \subseteq Counts(q, k), D \subseteq Counts(q, m),
           NEW h, Totals(h, Marks(q, k), Weighted), NEW l, Totals(l, Marks(q, m), Weighted)
    PROVE  l[D] <= h[D]
<1> DEFINE K == Marks(q, k)
           M == Marks(q, m)
<1>1. D \in SUBSET Weighted /\ D \subseteq Applies(q, k) \cap Applies(q, m)
  BY DEF Counts, Weighted, Applies
<1>2. \A d \in Weighted : M[d] \in Nat /\ K[d] \in Nat
  BY MarksBetween
<1>3. ASSUME NEW d \in D PROVE 1 * M[d] <= 1 * K[d]
  <2> DEFINE x == 100 * Score(q, m, d)
             y == 100 * Score(q, k, d)
             w == Weights[d]
  <2>1. x \in Nat /\ y \in Nat /\ x <= y
    <3>1. Score(q, m, d) <= Score(q, k, d)
      BY <1>1, NoLower
    <3>2. Score(q, m, d) \in 1 .. 5 /\ Score(q, k, d) \in 1 .. 5
      BY <1>1, ScoreInRange
    <3> QED
      BY <3>1, <3>2
  <2>2. M[d] = w * x /\ K[d] = w * y /\ w \in Nat
    BY <1>1, MarksBetween
  <2> HIDE DEF x, y, w
  <2>3. x * w <= y * w /\ x * w = w * x /\ y * w = w * y
    BY <2>1, <2>2, Products
  <2> QED
    BY <1>1, <1>2, <2>2, <2>3
<1>4. Totals(h, K, Weighted) /\ Totals(l, M, Weighted)
  OBVIOUS
<1>5. h[D] \in Nat /\ l[D] \in Nat
  BY <1>1 DEF Totals
<1> HIDE DEF K, M
<1>6. 1 * l[D] <= 1 * h[D]
  BY <1>1, <1>2, <1>3, <1>4, WeightedFinite, SumsCompare
<1> QED
  BY <1>5, <1>6

\* A better crate's composite is less than MinGap below that of the worse.
LEMMA NotFarBehind ==
    ASSUME WeightsFit, NEW q \in EvalRequest, NEW k \in Crate, NEW m \in Crate, AsGood(k, m),
           NEW g, Totals(g, Weights, Weighted),
           NEW h, Totals(h, Marks(q, k), Weighted), NEW l, Totals(l, Marks(q, m), Weighted),
           g[Counts(q, k)] # 0, g[Counts(q, m)] # 0
    PROVE  Nearest(100 * l[Counts(q, m)], g[Counts(q, m)])
              - Nearest(100 * h[Counts(q, k)], g[Counts(q, k)]) < MinGap
<1> DEFINE Dk == Counts(q, k)
           Dm == Counts(q, m)
           cw == Weight("compile")
<1>1. /\ Dk \in SUBSET Weighted /\ Dm \in SUBSET Weighted
      /\ Dk \subseteq Applies(q, k) /\ Dm \subseteq Applies(q, m)
  BY DEF Counts, Weighted, Applies
<1>2. /\ g[Dk] \in Nat \ {0} /\ g[Dm] \in Nat \ {0} /\ h[Dk] \in Nat /\ l[Dm] \in Nat
      /\ 100 * g[Dk] <= h[Dk] /\ h[Dk] <= 500 * g[Dk]
      /\ 100 * g[Dm] <= l[Dm] /\ l[Dm] <= 500 * g[Dm]
  BY TotalBetween
<1>3. MinGap \in Nat /\ MinGap >= 2
  BY GapOfTwo
<1>4. "compile" \in Dk /\ "compile" \in Dm /\ "compile" \in Weighted /\ Weights["compile"] = cw
  <2>1. "compile" \in DOMAIN Weights
    BY GapOfTwo DEF Weight
  <2> QED
    BY <2>1 DEF Counts, Applies, Weighted, Dimensions, Builtin, Weight
<1>5. \A d \in Weighted : Weights[d] \in Nat /\ Weights[d] = Weight(d)
  BY MarksBetween DEF Weighted, Weight
<1>9. ASSUME NEW D \in SUBSET Weighted, NEW d \in D
      PROVE  g[D] = Weights[d] + g[D \ {d}] /\ g[D] \in Nat /\ g[D \ {d}] \in Nat
  BY TakeOut
<1>10. ASSUME NEW D \in SUBSET Weighted, NEW d \in D
       PROVE  /\ h[D] = Marks(q, k)[d] + h[D \ {d}] /\ h[D \ {d}] \in Nat
              /\ l[D] = Marks(q, m)[d] + l[D \ {d}] /\ l[D \ {d}] \in Nat
  BY TakeOut
<1> HIDE DEF Dk, Dm
<1>6. SUFFICES (100 * l[Dm]) * g[Dk] - (100 * h[Dk]) * g[Dm] < (MinGap - 1) * (g[Dm] * g[Dk])
  <2> DEFINE a == 100 * l[Dm]
             c == 100 * h[Dk]
  <2>1. a \in Nat /\ c \in Nat
    BY <1>2
  <2> HIDE DEF a, c
  <2>2. Nearest(a, g[Dm]) - Nearest(c, g[Dk]) < MinGap
    BY <1>2, <1>3, <1>6, <2>1, RoundedGap DEF a, c
  <2> QED
    BY <2>2 DEF a, c, Dk, Dm
<1>7. CASE ~(Passes(q, k) <=> Passes(q, m))
  <2>1. ~Passes(q, m)
    BY <1>7 DEF Passes, AsGood
  <2> DEFINE E == Dm \ {"compile"}
             u == g[E]
             wd == Weight("deps")
             wt == Weight("structural")
             U == wd + wt
  <2>2. g[Dm] = cw + u /\ u \in Nat /\ cw \in Nat \ {0}
    <3>1. g[Dm] = Weights["compile"] + u /\ u \in Nat
      BY <1>1, <1>4, <1>9
    <3>2. cw \in Nat \ {0}
      BY GapOfTwo
    <3> QED
      BY <1>4, <3>1, <3>2
  <2>3. Dm \subseteq {"compile", "deps", "structural"} /\ Score(q, m, "compile") = 1
    BY <1>1, <2>1, BehindTheGate
  <2>4. u <= U /\ U \in Nat
    <3>1. wd \in Nat /\ wt \in Nat
      BY GapOfTwo
    <3>2. g[{}] = 0
      BY <1>5, WeightedFinite, TakeAny
    <3>3. E \in SUBSET Weighted /\ E \subseteq {"deps", "structural"}
      BY <1>1, <2>3
    <3> HIDE DEF E, wd, wt
    <3>4. CASE "deps" \in E
      <4>1. g[E] = wd + g[E \ {"deps"}]
        BY <1>5, <1>9, <3>3, <3>4 DEF wd
      <4> DEFINE F == E \ {"deps"}
      <4>2. CASE "structural" \in F
        <5>1. F \in SUBSET Weighted /\ F \ {"structural"} = {}
          BY <3>3
        <5> HIDE DEF F
        <5>2. g[F] = wt + g[F \ {"structural"}]
          BY <1>5, <1>9, <4>2, <5>1 DEF wt
        <5> QED
          BY <3>1, <3>2, <4>1, <5>1, <5>2 DEF F
      <4>3. CASE F = {}
        BY <3>1, <3>2, <4>1, <4>3
      <4> QED
        BY <3>3, <4>2, <4>3
    <3>5. CASE "deps" \notin E /\ "structural" \in E
      <4>1. g[E] = wt + g[E \ {"structural"}] /\ E \ {"structural"} = {}
        BY <1>5, <1>9, <3>3, <3>5 DEF wt
      <4> QED
        BY <3>1, <3>2, <4>1
    <3>6. CASE E = {}
      BY <3>1, <3>2, <3>6
    <3> QED
      BY <3>1, <3>3, <3>4, <3>5, <3>6
  <2>5. l[Dm] <= 100 * cw + 500 * u
    <3> DEFINE M == Marks(q, m)
    <3>2. l[Dm] = M["compile"] + l[E] /\ l[E] \in Nat
      BY <1>1, <1>4, <1>10
    <3>3. M["compile"] = cw * (100 * 1)
      <4>1. "compile" \in Applies(q, m)
        BY <1>1, <1>4
      <4> QED
        BY <1>4, <2>3, <4>1 DEF Marks
    <3>4. l[E] <= 500 * u
      <4>1. E \in SUBSET Counts(q, m)
        BY DEF Dm
      <4> HIDE DEF E
      <4> QED
        BY <4>1, TotalBetween
    <3> HIDE DEF M, E, cw
    <3> QED
      BY <2>2, <3>2, <3>3, <3>4
  <2>6. 40000 * U < (MinGap - 1) * (cw + U)
    BY GapOfTwo
  <2> HIDE DEF u, U, cw
  <2> QED
    BY <1>2, <1>3, <2>2, <2>4, <2>5, <2>6, GapIfFailed
<1>8. ASSUME Passes(q, k) <=> Passes(q, m)
      PROVE  (100 * l[Dm]) * g[Dk] - (100 * h[Dk]) * g[Dm] < (MinGap - 1) * (g[Dm] * g[Dk])
  <2>1. Dk \ {"mutation"} = Dm \ {"mutation"}
    BY <1>8, SameButMutation DEF Dk, Dm, Counts
  <2> DEFINE wm == Weight("mutation")
  <2>2. wm \in Nat /\ 40000 * wm < (MinGap - 1) * (cw + wm) /\ cw \in Nat
    BY GapOfTwo
  <2>3. ASSUME NEW D, D = Dk \/ D = Dm PROVE cw <= g[D]
    <3>1. g[D] = cw + g[D \ {"compile"}] /\ g[D \ {"compile"}] \in Nat
      BY <1>1, <1>4, <1>9, <2>3
    <3> QED
      BY <2>2, <3>1
  <2>4. CASE Dk = Dm
    <3>1. l[Dm] <= h[Dk]
      BY <1>8, <2>4, TotalNoLower DEF Dk, Dm
    <3> DEFINE T == g[Dk]
               X == h[Dk]
               Y == l[Dm]
    <3>2. T \in Nat \ {0} /\ X \in Nat /\ Y \in Nat /\ Y <= X /\ g[Dm] = T
      BY <1>2, <2>4, <3>1
    <3> HIDE DEF T, X, Y
    <3>3. (100 * Y) * T <= (100 * X) * T
      BY <3>2, Products
    <3>4. (MinGap - 1) * (T * T) > 0
      BY <1>3, <3>2
    <3>5. (100 * Y) * T \in Nat /\ (100 * X) * T \in Nat /\ (MinGap - 1) * (T * T) \in Int
      BY <1>3, <3>2
    <3>6. (100 * Y) * T - (100 * X) * T < (MinGap - 1) * (T * T)
      BY <3>3, <3>4, <3>5
    <3> QED
      BY <3>2, <3>6 DEF T, X, Y
  <2>5. CASE "mutation" \in Dk /\ "mutation" \notin Dm
    <3>1. Dm = Dk \ {"mutation"}
      BY <2>1, <2>5
    <3>2. g[Dk] = wm + g[Dm]
      BY <1>1, <1>5, <1>9, <2>5, <3>1
    <3>3. h[Dk] >= 100 * wm + h[Dm] /\ h[Dm] \in Nat
      <4> DEFINE K == Marks(q, k)
      <4>2. 100 * wm <= K["mutation"] /\ K["mutation"] \in Nat
        BY <1>1, <1>5, <2>5, MarksBetween
      <4>4. h[Dk] = K["mutation"] + h[Dm] /\ h[Dm] \in Nat
        BY <1>1, <1>10, <2>5, <3>1
      <4> HIDE DEF wm, K
      <4> QED
        BY <2>2, <4>2, <4>4
    <3>4. l[Dm] <= h[Dm]
      BY <1>8, <3>1, TotalNoLower DEF Dk, Dm
    <3>5. cw <= g[Dm]
      BY <2>3
    <3> HIDE DEF wm, cw
    <3> DEFINE T == g[Dm]
               X == h[Dm]
               Y == l[Dm]
               Z == h[Dk]
    <3>6. /\ T \in Nat /\ X \in Nat /\ Y \in Nat /\ Z \in Nat /\ cw <= T /\ T # 0
          /\ Y <= X /\ Y <= 500 * T /\ X + 100 * wm <= Z /\ MinGap >= 1 /\ g[Dk] = T + wm
      BY <1>2, <1>3, <2>2, <3>2, <3>3, <3>4, <3>5
    <3> HIDE DEF T, X, Y, Z
    <3>7. (100 * Y) * (T + wm) - (100 * Z) * T < (MinGap - 1) * (T * (T + wm))
      BY <1>3, <2>2, <3>6, GapIfAdded
    <3> QED
      BY <3>6, <3>7 DEF T, Y, Z
  <2>6. CASE "mutation" \in Dm /\ "mutation" \notin Dk
    <3>1. Dk = Dm \ {"mutation"}
      BY <2>1, <2>6
    <3>2. g[Dm] = wm + g[Dk]
      BY <1>1, <1>5, <1>9, <2>6, <3>1
    <3>3. l[Dm] <= 500 * wm + l[Dk] /\ l[Dk] \in Nat
      <4> DEFINE M == Marks(q, m)
      <4>2. M["mutation"] <= 500 * wm /\ M["mutation"] \in Nat
        BY <1>1, <1>5, <2>6, MarksBetween
      <4>4. l[Dm] = M["mutation"] + l[Dk] /\ l[Dk] \in Nat
        BY <1>1, <1>10, <2>6, <3>1
      <4> HIDE DEF wm, M
      <4> QED
        BY <2>2, <4>2, <4>4
    <3>4. l[Dk] <= h[Dk]
      BY <1>8, <3>1, TotalNoLower DEF Dk, Dm
    <3>5. cw <= g[Dk]
      BY <2>3
    <3> HIDE DEF wm, cw
    <3> DEFINE T == g[Dk]
               X == h[Dk]
               Y == l[Dm]
    <3>6. /\ T \in Nat /\ X \in Nat /\ Y \in Nat /\ cw <= T /\ T # 0
          /\ 100 * T <= X /\ Y <= X + 500 * wm /\ MinGap >= 1 /\ g[Dm] = T + wm
      BY <1>2, <1>3, <2>2, <3>2, <3>3, <3>4, <3>5
    <3> HIDE DEF T, X, Y
    <3>7. (100 * Y) * T - (100 * X) * (T + wm) < (MinGap - 1) * ((T + wm) * T)
      BY <1>3, <2>2, <3>6, GapIfMissing
    <3> QED
      BY <3>6, <3>7 DEF T, X, Y
  <2> QED
    BY <2>1, <2>4, <2>5, <2>6
<1> QED
  BY <1>7, <1>8

\* Any two rows whose one score each is that of a clear evaluation, asked the same.
LEMMA ClearRow ==
    ASSUME NEW q \in EvalRequest, NEW k \in Crate, NEW r, NEW x, NEW p, NEW f, scores[r] = {x},
           x.dims = f, Holds(p, k, f, FALSE, <<>>),
           p \in EvalRequest, q = [p EXCEPT !.target = Parent]
    PROVE  Clearly(r, q, k)
<1>1. Exact(p, k, f, <<>>)
  BY DEF Holds
<1>2. /\ q.gate = p.gate /\ q.suites = p.suites /\ q.deps = p.deps
      /\ q.mutants = p.mutants /\ q.structural = p.structural
  BY DEF EvalRequest
<1>3. Passes(p, k) <=> Passes(q, k)
  BY <1>2 DEF Passes
<1>4. Applies(p, k) = Applies(q, k)
  BY <1>2, <1>3 DEF Applies
<1>5. \A d : Score(p, k, d) = Score(q, k, d)
  BY <1>3 DEF Score
<1>6. Asked(p) = Asked(q)
  BY <1>2 DEF Asked
<1>7. Exact(q, k, f, <<>>)
  BY <1>1, <1>4, <1>5, <1>6 DEF Exact
<1> QED
  BY <1>7, ClearlyMeasured

\* The composites of two rows that are measured clearly, for the same request.
LEMMA CompositesNear ==
    ASSUME WeightsFit, NEW q \in EvalRequest, NEW k \in Crate, NEW m \in Crate, AsGood(k, m),
           NEW r \in Candidates, Clearly(r, q, k), NEW s \in Candidates, Clearly(s, q, m)
    PROVE  ~(Composite(s) - Composite(r) >= MinGap)
<1>1. \A d \in Weighted :
         Weights[d] \in Nat /\ Marks(q, k)[d] \in Nat /\ Marks(q, m)[d] \in Nat
  BY MarksBetween
<1>2. PICK g : Totals(g, Weights, Weighted)
  BY <1>1, WeightedFinite, SumExists
<1>3. PICK h : Totals(h, Marks(q, k), Weighted)
  BY <1>1, WeightedFinite, SumExists
<1>4. PICK l : Totals(l, Marks(q, m), Weighted)
  BY <1>1, WeightedFinite, SumExists
<1> DEFINE a == 100 * l[Counts(q, m)]
           b == g[Counts(q, m)]
           c == 100 * h[Counts(q, k)]
           d == g[Counts(q, k)]
<1>5. WeightTotal(r) = d /\ 100 * Contributions(r) = c
  BY <1>2, <1>3, CompositeIs
<1>6. WeightTotal(s) = b /\ 100 * Contributions(s) = a
  BY <1>2, <1>4, CompositeIs
<1>7. b # 0 /\ d # 0
  BY <1>5, <1>6 DEF Candidates
<1>8. Nearest(a, b) - Nearest(c, d) < MinGap
  BY <1>2, <1>3, <1>4, <1>7, NotFarBehind
<1>9. a \in Nat /\ b \in Nat /\ c \in Nat /\ d \in Nat
  <2>1. Counts(q, k) \in SUBSET Weighted /\ Counts(q, m) \in SUBSET Weighted
    BY DEF Counts, Weighted, Applies
  <2> QED
    BY <1>2, <1>3, <1>4, <2>1 DEF Totals
<1> HIDE DEF a, b, c, d
<1>10. Nearest(a, b) \in Nat /\ Nearest(c, d) \in Nat /\ MinGap \in Nat
  BY <1>7, <1>9, NearestBounds, CodeEvalAssumption
<1>11. Composite(s) = Nearest(a, b) /\ Composite(r) = Nearest(c, d)
  BY <1>5, <1>6 DEF Composite
<1> QED
  BY <1>8, <1>10, <1>11

\* A row has finitely many scores.
Finitely == \A r \in Rows : IsFiniteSet(scores[r])

\* A step adds one score at most.
LEMMA FinitelyStep == Finitely /\ [Next]_vars => Finitely'
<1> SUFFICES ASSUME Finitely, [Next]_vars PROVE Finitely'
  OBVIOUS
<1>1. ASSUME NEW r, NEW p, NEW f, AddScore(r, p, f) PROVE Finitely'
  <2> DEFINE x == [by |-> p, dims |-> f]
  <2>1. scores' = [scores EXCEPT ![r] = @ \cup {x}]
    BY <1>1 DEF AddScore
  <2> HIDE DEF x
  <2> SUFFICES ASSUME NEW s \in Rows PROVE IsFiniteSet(scores'[s])
    BY DEF Finitely
  <2>2. scores'[s] = scores[s] \/ scores'[s] = scores[s] \cup {x}
    BY <2>1
  <2>3. IsFiniteSet(scores[s]) /\ IsFiniteSet(scores[s] \cup {x})
    BY FS_AddElement DEF Finitely
  <2> QED
    BY <2>2, <2>3
<1>2. CASE UNCHANGED scores
  BY <1>2 DEF Finitely
<1>3. ASSUME NEW p \in Raters, NEW r \in Rows, NEW f \in RaterScores, Rate(p, r, f) PROVE Finitely'
  BY <1>1, <1>3 DEF Rate
<1>4. ASSUME NEW e \in Evals, Apply(e) PROVE Finitely'
  BY <1>1, <1>2, <1>4 DEF Apply
<1>5. ASSUME NEW e \in Evals, Step(e), ~Apply(e) PROVE UNCHANGED scores
  BY <1>5 DEF Step, Start, Refuse, RunSuite, CheckDeps, Compile, Baseline, Mutate, Structural,
              ServiceFails, Finish, Interrupt, Found, NotApplicable
<1>6. ASSUME NEW r \in Rows, NEW c \in Crates, Generate(r, c) PROVE UNCHANGED scores
  BY <1>6 DEF Generate
<1> QED
  BY <1>2, <1>3, <1>4, <1>5, <1>6 DEF Next, vars

\* The invariant leaves no pair that is the wrong way round.
LEMMA BetterKept ==
    ASSUME WeightsFit, IInv, Finitely
    PROVE  BetterIsNotRejected
<1> SUFFICES ASSUME NEW w \in Pairs,
                    \A r \in {w[1], w[2]} : /\ Cardinality(scores[r]) = 1
                                            /\ \A x \in scores[r] : x.by \in Evals \ blurred,
                    {[ask[x.by] EXCEPT !.target = Parent] : x \in scores[w[1]]}
                       = {[ask[x.by] EXCEPT !.target = Parent] : x \in scores[w[2]]},
                    AsGood(crate[w[2]], crate[w[1]])
             PROVE  FALSE
  BY DEF BetterIsNotRejected
<1> DEFINE s == w[1]
           r == w[2]
<1>1. /\ s \in Candidates /\ r \in Candidates /\ Composite(s) - Composite(r) >= MinGap
      /\ s \in Rows /\ r \in Rows
  BY DEF Pairs, Candidates
<1>2. PICK x : scores[r] = {x}
  BY <1>1, FS_Singleton DEF Finitely
<1>3. PICK y : scores[s] = {y}
  BY <1>1, FS_Singleton DEF Finitely
<1>4. x.by \in Evals \ blurred /\ y.by \in Evals \ blurred
  BY <1>2, <1>3
<1> DEFINE p == ask[x.by]
           u == ask[y.by]
           q == [p EXCEPT !.target = Parent]
<1>5. [u EXCEPT !.target = Parent] = q
  BY <1>2, <1>3
<1>6. Recorded(r, x) /\ Recorded(s, y)
  BY <1>1, <1>2, <1>3, <1>4 DEF IInv
<1>7. /\ Holds(p, crate[r], x.dims, FALSE, <<>>) /\ crate[r] \in Crate
      /\ Holds(u, crate[s], y.dims, FALSE, <<>>) /\ crate[s] \in Crate
  <2>1. (x.by \in blurred) = FALSE /\ (y.by \in blurred) = FALSE
    BY <1>4
  <2> QED
    BY <1>6, <2>1, CodeEvalAssumption DEF Recorded
<1>8. p \in EvalRequest /\ u \in EvalRequest
  BY <1>4 DEF IInv, Typed
<1>9. q \in EvalRequest
  BY <1>8 DEF EvalRequest, Rows
<1> HIDE DEF p, u, q, r, s
<1>10. Clearly(r, q, crate[r])
  BY <1>2, <1>7, <1>8, <1>9, ClearRow DEF q
<1>11. Clearly(s, q, crate[s])
  BY <1>3, <1>5, <1>7, <1>8, <1>9, ClearRow
<1>12. AsGood(crate[r], crate[s])
  BY DEF r, s
<1> QED
  BY <1>1, <1>7, <1>9, <1>10, <1>11, <1>12, CompositesNear

\* compute_composite and _preferences_from_scores: with weights that fit the gap that is asked
\* for, no export takes the worse of two rows that were measured in the same way for the
\* better, although the average is taken over the dimensions that were measured, which may
\* not be the same for both.
THEOREM BetterStaysChosen ==
    ASSUME WeightsFit
    PROVE  Spec => []BetterIsNotRejected
<1>1. Init => Finitely
  BY FS_EmptySet DEF Init, Finitely
<1>2. Spec => []Finitely
  BY <1>1, FinitelyStep, PTL DEF Spec
<1>3. IInv /\ Finitely => BetterIsNotRejected
  BY BetterKept
<1> QED
  BY <1>2, <1>3, Invariance, PTL

=============================================================================
