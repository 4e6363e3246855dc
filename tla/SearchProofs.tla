---------------------------- MODULE SearchProofs ----------------------------
(***************************************************************************)
(* Proofs about what an owner process searches: the symbol lookups and the *)
(* traces, for any texts, tables, edges, depth and candidate cap, and the  *)
(* diffusion of hits over the code graph, for any graph, hits, unit of     *)
(* mass and eps.                                                           *)
(*                                                                         *)
(* A recursive function is what some function built step by step is        *)
(* (Steps), and what it computes follows by induction (Induct), which      *)
(* rests on the fact that a set of numbers has a least one.  A sum is such *)
(* a function of the set it is taken over, and sets grow by one member     *)
(* (FinInduct).                                                            *)
(***************************************************************************)
EXTENDS Lookup, Push, FiniteSetTheorems, WellFoundedInduction, TLAPS

-----------------------------------------------------------------------------
(* Induction *)

\* a set of numbers has a least one
LEMMA LeastNat ==
  ASSUME NEW T \in SUBSET Nat, T # {}
  PROVE  \E m \in T : \A n \in T : m <= n
<1> DEFINE R == {ss \in Nat \X Nat : ss[1] < ss[2]}
<1>1. IsWellFoundedOn(R, Nat)
  BY NatLessThanWellFounded DEF OpToRel
<1>2. PICK x \in T : \A y \in T : <<y, x>> \notin R
  BY <1>1, WFMin
<1>3. ASSUME NEW y \in T PROVE x <= y
  <2>1. y < x => <<y, x>> \in R
    OBVIOUS
  <2>2. <<y, x>> \notin R
    BY <1>2
  <2>3. x \in Nat /\ y \in Nat
    OBVIOUS
  <2> HIDE DEF R
  <2> QED
    BY <2>1, <2>2, <2>3
<1> QED
  BY <1>3

\* induction over the numbers
LEMMA Induct ==
  ASSUME NEW T \in SUBSET Nat, 0 \in T, \A n \in T : n + 1 \in T
  PROVE  T = Nat
<1>1. SUFFICES ASSUME Nat \ T # {} PROVE FALSE
  OBVIOUS
<1>2. PICK m \in Nat \ T : \A n \in Nat \ T : m <= n
  <2>1. Nat \ T \in SUBSET Nat
    OBVIOUS
  <2> QED
    BY <1>1, <2>1, LeastNat
<1>3. m - 1 \in T /\ (m - 1) + 1 = m
  <2>1. m \in Nat /\ m # 0
    BY <1>2
  <2>2. m - 1 \in Nat /\ ~(m <= m - 1) /\ (m - 1) + 1 = m
    BY <2>1
  <2> QED
    BY <2>2, <1>2
<1>4. (m - 1) + 1 \in T
  BY <1>3
<1> QED
  BY <1>3, <1>4, <1>2

\* the numbers up to one more
LEMMA UpTo == ASSUME NEW n \in Nat PROVE 1..(n + 1) = 1..n \cup {n + 1}
<1>1. ASSUME NEW i PROVE i \in 1..(n + 1) <=> i \in 1..n \/ i = n + 1
  OBVIOUS
<1> QED BY <1>1

\* f starts at v and goes on as g says
Maps(g, V) == g \in [Nat \X V -> V]
Runs(f, v, g, V) == f \in [Nat -> V] /\ f[0] = v /\ \A n \in Nat : f[n + 1] = g[<<n, f[n]>>]

\* functions that are built step by step
LEMMA Steps ==
  ASSUME NEW V, NEW v \in V, NEW g, Maps(g, V)
  PROVE  \E f : Runs(f, v, g, V)
<1>0. g \in [Nat \X V -> V]
  BY DEF Maps
<1> DEFINE Good(n) ==
      {f \in [0..n -> V] : f[0] = v /\ \A i \in Nat : i < n => f[i + 1] = g[<<i, f[i]>>]}
<1>1. \A n \in Nat : Good(n) # {}
  <2> DEFINE T == {n \in Nat : Good(n) # {}}
  <2>1. 0 \in T
    <3>1. [i \in 0..0 |-> v] \in Good(0)
      OBVIOUS
    <3> QED BY <3>1
  <2>2. ASSUME NEW n \in T PROVE n + 1 \in T
    <3>1. PICK f \in Good(n) : TRUE
      OBVIOUS
    <3> DEFINE h == [i \in 0..(n + 1) |-> IF i = n + 1 THEN g[<<n, f[n]>>] ELSE f[i]]
    <3>0. n \in Nat /\ f \in [0..n -> V]
      BY <3>1
    <3>2. h \in [0..(n + 1) -> V]
      <4>1. f[n] \in V
        BY <3>0
      <4>2. g[<<n, f[n]>>] \in V
        BY <3>0, <4>1, <1>0
      <4> QED BY <3>0, <4>2
    <3>3. h[0] = v
      BY <3>0, <3>1
    <3>4. ASSUME NEW i \in Nat, i < n + 1 PROVE h[i + 1] = g[<<i, h[i]>>]
      <4>1. CASE i = n
        <5>1. h[n + 1] = g[<<n, f[n]>>] /\ h[n] = f[n]
          BY <3>0
        <5> HIDE DEF h
        <5> QED BY <5>1, <4>1
      <4>2. CASE i < n
        <5>1. h[i + 1] = f[i + 1] /\ h[i] = f[i]
          BY <4>2, <3>0
        <5> QED BY <5>1, <3>1, <4>2
      <4> QED BY <4>1, <4>2, <3>4, <3>0
    <3> HIDE DEF h
    <3>5. h \in Good(n + 1)
      BY <3>2, <3>3, <3>4
    <3> QED BY <3>5, <3>0
  <2> HIDE DEF T
  <2>3. T = Nat
    <3>1. T \in SUBSET Nat
      BY DEF T
    <3> QED BY <2>1, <2>2, <3>1, Induct
  <2> QED BY <2>3 DEF T
<1>2. ASSUME NEW m \in Nat, NEW n \in Nat, m <= n, NEW e \in Good(m), NEW f \in Good(n)
      PROVE \A i \in 0..m : e[i] = f[i]
  <2> DEFINE T == {i \in Nat : i <= m => e[i] = f[i]}
  <2>1. 0 \in T
    BY <1>2
  <2>2. ASSUME NEW i \in T PROVE i + 1 \in T
    <3>1. CASE i + 1 <= m
      <4>1. i < m /\ i < n /\ i <= m
        BY <3>1, <1>2
      <4>2. e[i] = f[i]
        BY <4>1
      <4>3. e[i + 1] = g[<<i, e[i]>>] /\ f[i + 1] = g[<<i, f[i]>>]
        BY <4>1
      <4> QED BY <4>2, <4>3
    <3> QED BY <3>1
  <2> HIDE DEF T
  <2>3. T = Nat
    <3>1. T \in SUBSET Nat
      BY DEF T
    <3> QED BY <2>1, <2>2, <3>1, Induct
  <2> QED BY <2>3 DEF T
<1> DEFINE F == [n \in Nat |-> (CHOOSE f \in Good(n) : TRUE)[n]]
<1>3. ASSUME NEW n \in Nat, NEW f \in Good(n) PROVE F[n] = f[n]
  <2>1. (CHOOSE e \in Good(n) : TRUE) \in Good(n)
    BY <1>1
  <2> HIDE DEF Good
  <2>2. (CHOOSE e \in Good(n) : TRUE)[n] = f[n]
    <3>1. n <= n /\ n \in 0..n
      OBVIOUS
    <3> QED BY <1>2, <2>1, <3>1
  <2> QED BY <2>2
<1>4. ASSUME NEW n \in Nat PROVE F[n + 1] = g[<<n, F[n]>>] /\ F[n] \in V
  <2>0. n + 1 \in Nat
    OBVIOUS
  <2>1. PICK f \in Good(n + 1) : TRUE
    BY <1>1, <2>0
  <2> DEFINE e == [i \in 0..n |-> f[i]]
  <2>2. e \in Good(n)
    <3>1. e \in [0..n -> V] /\ e[0] = v
      BY <2>1
    <3>2. ASSUME NEW i \in Nat, i < n PROVE e[i + 1] = g[<<i, e[i]>>]
      <4>1. e[i + 1] = f[i + 1] /\ e[i] = f[i] /\ i < n + 1
        BY <3>2
      <4> QED BY <4>1, <2>1
    <3> HIDE DEF e
    <3> QED BY <3>1, <3>2
  <2>3. f[n + 1] = g[<<n, f[n]>>] /\ f[n] \in V
    BY <2>1
  <2>4. F[n] = f[n]
    <3>1. F[n] = e[n]
      BY <2>2, <1>3
    <3> QED BY <3>1
  <2>5. F[n + 1] = f[n + 1]
    BY <2>1, <2>0, <1>3
  <2> HIDE DEF F
  <2> QED BY <2>3, <2>4, <2>5
<1>5. F[0] = v
  <2>1. [i \in 0..0 |-> v] \in Good(0)
    OBVIOUS
  <2>2. F[0] = [i \in 0..0 |-> v][0]
    BY <2>1, <1>3
  <2> QED BY <2>2
<1>6. F \in [Nat -> V]
  BY <1>4
<1> QED
  <2> HIDE DEF F
  <2>1. Runs(F, v, g, V)
    BY <1>4, <1>5, <1>6 DEF Runs
  <2> QED BY <2>1
-----------------------------------------------------------------------------
(* Sequences *)

\* FlattenSeq appends one sequence after the other
LEMMA FlattenSteps ==
  ASSUME NEW T, NEW ss \in Seq(Seq(T))
  PROVE  \E f \in [Nat -> Seq(T)] :
           /\ f[0] = <<>>
           /\ \A i \in 1..Len(ss) : f[i] = f[i - 1] \o ss[i]
           /\ FlattenSeq(ss) = f[Len(ss)]
<1> DEFINE N == Len(ss)
           g == [p \in Nat \X Seq(T) |-> IF p[1] + 1 <= N THEN p[2] \o ss[p[1] + 1] ELSE p[2]]
           Body(h) == [i \in 1..N |-> IF i = 1 THEN ss[i] ELSE h[i - 1] \o ss[i]]
           H == CHOOSE h : h = Body(h)
<1>0. N \in Nat /\ \A i \in 1..N : ss[i] \in Seq(T)
  OBVIOUS
<1>1. PICK f \in [Nat -> Seq(T)] : f[0] = <<>> /\ \A n \in Nat : f[n + 1] = g[<<n, f[n]>>]
  <2>1. ASSUME NEW n \in Nat, NEW s \in Seq(T) PROVE g[<<n, s>>] \in Seq(T)
    <3>1. n + 1 <= N => ss[n + 1] \in Seq(T)
      BY <1>0
    <3> QED BY <3>1
  <2>2. g \in [Nat \X Seq(T) -> Seq(T)]
    <3>1. ASSUME NEW p \in Nat \X Seq(T) PROVE g[p] \in Seq(T)
      <4>1. p[1] \in Nat /\ p[2] \in Seq(T) /\ p = <<p[1], p[2]>>
        OBVIOUS
      <4> HIDE DEF g
      <4> QED BY <4>1, <2>1
    <3> QED BY <3>1
  <2>3. <<>> \in Seq(T)
    OBVIOUS
  <2>4. Maps(g, Seq(T))
    BY <2>2 DEF Maps
  <2> HIDE DEF g
  <2>5. PICK f : Runs(f, <<>>, g, Seq(T))
    BY <2>4, <2>3, Steps
  <2> QED BY <2>5 DEF Runs
<1>2. ASSUME NEW i \in 1..N PROVE f[i] = f[i - 1] \o ss[i]
  <2>1. i - 1 \in Nat /\ (i - 1) + 1 = i /\ i <= N
    BY <1>0
  <2>2. f[i] = g[<<i - 1, f[i - 1]>>] /\ f[i - 1] \in Seq(T)
    <3> HIDE DEF g
    <3> QED BY <1>1, <2>1
  <2> QED BY <2>1, <2>2
<1>3. CASE N = 0
  <2>1. ss = <<>> /\ FlattenSeq(ss) = ss
    BY <1>3 DEF FlattenSeq
  <2> QED BY <2>1, <1>1, <1>2
<1>4. CASE N # 0
  <2>1. FlattenSeq(ss) = H[N]
    BY <1>4 DEF FlattenSeq
  <2> DEFINE e == [i \in 1..N |-> f[i]]
  <2>2. e = Body(e)
    <3>1. ASSUME NEW i \in 1..N PROVE e[i] = IF i = 1 THEN ss[i] ELSE e[i - 1] \o ss[i]
      <4>1. CASE i = 1
        <5>1. f[1] = f[0] \o ss[1] /\ ss[1] \in Seq(T) /\ f[0] = <<>>
          <6> HIDE DEF g
          <6>1. f[1] = f[1 - 1] \o ss[1]
            BY <4>1, <1>2
          <6>2. ss[1] \in Seq(T) /\ 1 - 1 = 0
            BY <4>1, <1>0
          <6> QED BY <6>1, <6>2, <1>1
        <5> QED BY <5>1, <4>1
      <4>2. CASE i # 1
        <5>1. i - 1 \in 1..N
          BY <4>2, <1>0
        <5> QED BY <5>1, <4>2, <1>2
      <4> QED BY <4>1, <4>2
    <3> HIDE DEF e
    <3>2. e = [i \in 1..N |-> e[i]]
      BY DEF e
    <3> QED BY <3>1, <3>2
  <2>3. H = Body(H)
    <3> HIDE DEF e, Body
    <3> QED BY <2>2
  <2>4. ASSUME NEW i \in 1..N PROVE H[i] = f[i]
    <3> DEFINE P(n) == n \in 1..N => H[n] = f[n]
    <3>1. P(0)
      BY <1>0
    <3>2. ASSUME NEW n \in Nat, P(n) PROVE P(n + 1)
      <4> SUFFICES ASSUME n + 1 \in 1..N PROVE H[n + 1] = f[n + 1]
        OBVIOUS
      <4>1. (n + 1) - 1 = n /\ ss[n + 1] \in Seq(T)
        BY <1>0
      <4>2. H[n + 1] = IF n + 1 = 1 THEN ss[n + 1] ELSE H[n] \o ss[n + 1]
        <5> HIDE DEF H
        <5>1. Body(H)[n + 1] = IF n + 1 = 1 THEN ss[n + 1] ELSE H[n] \o ss[n + 1]
          BY <4>1
        <5> HIDE DEF Body
        <5> QED BY <5>1, <2>3
      <4>3. f[n + 1] = f[n] \o ss[n + 1]
        <5> HIDE DEF H
        <5> QED BY <4>1, <1>2
      <4>4. CASE n = 0
        <5>1. <<>> \o ss[n + 1] = ss[n + 1] /\ f[n] = <<>>
          <6> HIDE DEF g, H
          <6> QED BY <1>1, <4>1, <4>4
        <5>2. H[n + 1] = ss[n + 1]
          <6> HIDE DEF H
          <6> QED BY <4>2, <4>4
        <5> HIDE DEF H
        <5> QED BY <5>1, <5>2, <4>3
      <4>5. CASE n # 0
        <5>1. n \in 1..N
          BY <4>5, <1>0
        <5> HIDE DEF H
        <5>2. H[n] = f[n]
          BY <5>1, <3>2
        <5>3. H[n + 1] = H[n] \o ss[n + 1]
          <6>1. n + 1 # 1
            BY <4>5
          <6> QED BY <4>2, <6>1
        <5> QED BY <5>2, <5>3, <4>3
      <4> QED BY <4>4, <4>5
    <3> HIDE DEF P
    <3>3. \A n \in Nat : P(n)
      <4> DEFINE I == {n \in Nat : P(n)}
      <4>1. I \in SUBSET Nat /\ 0 \in I
        BY <3>1
      <4>2. ASSUME NEW n \in I PROVE n + 1 \in I
        <5>1. n \in Nat /\ P(n) /\ n + 1 \in Nat
          OBVIOUS
        <5>2. P(n + 1)
          BY <5>1, <3>2
        <5> QED BY <5>1, <5>2
      <4> HIDE DEF I
      <4>3. I = Nat
        BY <4>1, <4>2, Induct
      <4> QED BY <4>3 DEF I
    <3>4. i \in Nat
      OBVIOUS
    <3> QED BY <3>3, <3>4 DEF P
  <2>5. N \in 1..N
    BY <1>0, <1>4
  <2> HIDE DEF H
  <2> QED BY <2>1, <2>4, <2>5, <1>1, <1>2
<1> QED BY <1>3, <1>4

\* a sequence more is appended
LEMMA FlattenAppend ==
  ASSUME NEW T, NEW ss \in Seq(Seq(T)), NEW s \in Seq(T)
  PROVE  FlattenSeq(Append(ss, s)) = FlattenSeq(ss) \o s
<1> DEFINE N == Len(ss)
           st == Append(ss, s)
<1>0. N \in Nat /\ st \in Seq(Seq(T)) /\ Len(st) = N + 1 /\ st[N + 1] = s
      /\ \A i \in 1..N : st[i] = ss[i]
  OBVIOUS
<1>1. PICK f \in [Nat -> Seq(T)] :
        /\ f[0] = <<>>
        /\ \A i \in 1..N : f[i] = f[i - 1] \o ss[i]
        /\ FlattenSeq(ss) = f[N]
  BY FlattenSteps
<1>2. PICK h \in [Nat -> Seq(T)] :
        /\ h[0] = <<>>
        /\ \A i \in 1..(N + 1) : h[i] = h[i - 1] \o st[i]
        /\ FlattenSeq(st) = h[N + 1]
  <2> HIDE DEF st
  <2> QED BY <1>0, FlattenSteps
<1> HIDE DEF st
<1> DEFINE P(n) == n <= N => h[n] = f[n]
<1>3. P(0)
  BY <1>1, <1>2
<1>4. ASSUME NEW n \in Nat, P(n) PROVE P(n + 1)
  <2> SUFFICES ASSUME n + 1 <= N PROVE h[n + 1] = f[n + 1]
    OBVIOUS
  <2>2. n + 1 \in 1..N /\ n + 1 \in 1..(N + 1) /\ (n + 1) - 1 = n /\ n <= N
    BY <1>0
  <2>3. h[n + 1] = h[n] \o st[n + 1] /\ f[n + 1] = f[n] \o ss[n + 1]
    BY <2>2, <1>1, <1>2
  <2>4. h[n] = f[n]
    BY <1>4, <2>2
  <2> QED BY <2>2, <2>3, <2>4, <1>0
<1> HIDE DEF P
<1>5. \A n \in Nat : P(n)
  <2> DEFINE I == {n \in Nat : P(n)}
  <2>1. I \in SUBSET Nat /\ 0 \in I
    BY <1>3
  <2>2. ASSUME NEW n \in I PROVE n + 1 \in I
    <3>1. n \in Nat /\ P(n) /\ n + 1 \in Nat
      OBVIOUS
    <3>2. P(n + 1)
      BY <3>1, <1>4
    <3> QED BY <3>1, <3>2
  <2> HIDE DEF I
  <2>3. I = Nat
    BY <2>1, <2>2, Induct
  <2> QED BY <2>3 DEF I
<1>6. h[N] = f[N]
  <2>1. P(N)
    BY <1>5, <1>0
  <2> QED BY <2>1, <1>0 DEF P
<1>7. h[N + 1] = h[N] \o s
  <2>1. N + 1 \in 1..(N + 1) /\ (N + 1) - 1 = N
    BY <1>0
  <2> QED BY <2>1, <1>2, <1>0
<1> QED BY <1>6, <1>7, <1>1, <1>2 DEF st

\* what a concatenation holds
LEMMA RangeConcat ==
  ASSUME NEW T, NEW s \in Seq(T), NEW t \in Seq(T)
  PROVE  s \o t \in Seq(T) /\ Range(s \o t) = Range(s) \cup Range(t)
<1>1. s \o t \in Seq(T) /\ Len(s \o t) = Len(s) + Len(t) /\ Len(s) \in Nat /\ Len(t) \in Nat
  OBVIOUS
<1>2. \A i \in 1..Len(s) : (s \o t)[i] = s[i]
  OBVIOUS
<1>3. \A i \in 1..Len(t) : (s \o t)[Len(s) + i] = t[i]
  OBVIOUS
<1> DEFINE u == s \o t
<1>4. DOMAIN u = 1..(Len(s) + Len(t)) /\ DOMAIN s = 1..Len(s) /\ DOMAIN t = 1..Len(t)
  BY <1>1
<1>5. ASSUME NEW x \in Range(u) PROVE x \in Range(s) \cup Range(t)
  <2> HIDE DEF u
  <2>1. PICK i \in DOMAIN u : x = u[i]
    BY <1>5 DEF Range
  <2>2. CASE i <= Len(s)
    <3>1. i \in DOMAIN s /\ x = s[i]
      BY <2>1, <2>2, <1>1, <1>2, <1>4 DEF u
    <3> QED BY <3>1 DEF Range
  <2>3. CASE i > Len(s)
    <3>1. i - Len(s) \in 1..Len(t) /\ Len(s) + (i - Len(s)) = i
      BY <2>1, <2>3, <1>1, <1>4
    <3>2. i - Len(s) \in DOMAIN t /\ x = t[i - Len(s)]
      BY <3>1, <2>1, <1>3, <1>4 DEF u
    <3> QED BY <3>2 DEF Range
  <2> QED BY <2>2, <2>3, <2>1, <1>1, <1>4
<1>6. ASSUME NEW x \in Range(s) PROVE x \in Range(u)
  <2>1. PICK i \in DOMAIN s : x = s[i]
    BY <1>6 DEF Range
  <2>2. i \in DOMAIN u /\ u[i] = x
    BY <2>1, <1>1, <1>2, <1>4
  <2> HIDE DEF u
  <2> QED BY <2>2 DEF Range
<1>7. ASSUME NEW x \in Range(t) PROVE x \in Range(u)
  <2>1. PICK i \in DOMAIN t : x = t[i]
    BY <1>7 DEF Range
  <2>2. Len(s) + i \in DOMAIN u /\ u[Len(s) + i] = x
    BY <2>1, <1>1, <1>3, <1>4
  <2> HIDE DEF u
  <2> QED BY <2>2 DEF Range
<1> HIDE DEF u
<1>8. Range(u) = Range(s) \cup Range(t)
  BY <1>5, <1>6, <1>7
<1> QED BY <1>8, <1>1 DEF u

\* a flattened sequence holds what its parts hold
LEMMA FlattenRange ==
  ASSUME NEW T, NEW ss \in Seq(Seq(T))
  PROVE  /\ FlattenSeq(ss) \in Seq(T)
         /\ Range(FlattenSeq(ss)) = UNION {Range(ss[i]) : i \in DOMAIN ss}
<1> DEFINE N == Len(ss)
<1>0. N \in Nat /\ DOMAIN ss = 1..N /\ \A i \in 1..N : ss[i] \in Seq(T)
  OBVIOUS
<1>1. PICK f \in [Nat -> Seq(T)] :
        /\ f[0] = <<>>
        /\ \A i \in 1..N : f[i] = f[i - 1] \o ss[i]
        /\ FlattenSeq(ss) = f[N]
  BY FlattenSteps
<1> HIDE DEF N
<1> DEFINE P(n) == n <= N => Range(f[n]) = UNION {Range(ss[i]) : i \in 1..n}
<1>3. P(0)
  <2>1. Range(f[0]) = {}
    BY <1>1 DEF Range
  <2> QED BY <2>1
<1>4. ASSUME NEW n \in Nat, P(n) PROVE P(n + 1)
  <2> SUFFICES ASSUME n + 1 <= N
               PROVE  Range(f[n + 1]) = UNION {Range(ss[i]) : i \in 1..(n + 1)}
    OBVIOUS
  <2>1. 1..(n + 1) = 1..n \cup {n + 1}
    BY UpTo
  <2>2. n + 1 \in 1..N /\ (n + 1) - 1 = n /\ n <= N
    BY <1>0
  <2>3. f[n + 1] = f[n] \o ss[n + 1] /\ ss[n + 1] \in Seq(T) /\ f[n] \in Seq(T)
    BY <2>2, <1>1, <1>0
  <2>4. Range(f[n + 1]) = Range(f[n]) \cup Range(ss[n + 1])
    <3>1. ASSUME NEW s \in Seq(T), NEW t \in Seq(T) PROVE Range(s \o t) = Range(s) \cup Range(t)
      BY RangeConcat
    <3> QED BY <3>1, <2>3
  <2>5. Range(f[n]) = UNION {Range(ss[i]) : i \in 1..n}
    BY <2>2, <1>4
  <2> QED BY <2>1, <2>4, <2>5
<1> HIDE DEF P
<1>5. \A n \in Nat : P(n)
  <2> DEFINE I == {n \in Nat : P(n)}
  <2>1. I \in SUBSET Nat /\ 0 \in I
    BY <1>3
  <2>2. ASSUME NEW n \in I PROVE n + 1 \in I
    <3>1. n \in Nat /\ P(n) /\ n + 1 \in Nat
      OBVIOUS
    <3>2. P(n + 1)
      BY <3>1, <1>4
    <3> QED BY <3>1, <3>2
  <2> HIDE DEF I
  <2>3. I = Nat
    BY <2>1, <2>2, Induct
  <2> QED BY <2>3 DEF I
<1>6. Range(f[N]) = UNION {Range(ss[i]) : i \in 1..N}
  <2>1. P(N)
    BY <1>5, <1>0
  <2> QED BY <2>1, <1>0 DEF P
<1> QED BY <1>6, <1>1, <1>0

\* what one member more changes
LEMMA AppendProps ==
  ASSUME NEW T, NEW s \in Seq(T), NEW x \in T
  PROVE  /\ Append(s, x) \in Seq(T)
         /\ Range(Append(s, x)) = Range(s) \cup {x}
         /\ IsInjective(s) /\ x \notin Range(s) => IsInjective(Append(s, x))
<1> DEFINE u == Append(s, x)
           N == Len(s)
<1>1. /\ u \in Seq(T) /\ N \in Nat /\ DOMAIN s = 1..N /\ DOMAIN u = 1..(N + 1)
      /\ u[N + 1] = x /\ \A i \in 1..N : u[i] = s[i]
  OBVIOUS
<1> HIDE DEF u, N
<1>2. ASSUME NEW i PROVE i \in DOMAIN u <=> i \in DOMAIN s \/ i = N + 1
  BY <1>1
<1>3. Range(u) = Range(s) \cup {x}
  <2>1. ASSUME NEW y \in Range(u) PROVE y \in Range(s) \cup {x}
    <3>1. PICK i \in DOMAIN u : y = u[i]
      BY <2>1 DEF Range
    <3>2. CASE i \in DOMAIN s
      BY <3>1, <3>2, <1>1 DEF Range
    <3>3. CASE i = N + 1
      BY <3>1, <3>3, <1>1
    <3> QED BY <3>2, <3>3, <1>2
  <2>2. ASSUME NEW y \in Range(s) PROVE y \in Range(u)
    <3>1. PICK i \in DOMAIN s : y = s[i]
      BY <2>2 DEF Range
    <3>2. i \in DOMAIN u /\ u[i] = y
      BY <3>1, <1>1, <1>2
    <3> QED BY <3>2 DEF Range
  <2>3. x \in Range(u)
    <3>1. N + 1 \in DOMAIN u /\ u[N + 1] = x
      BY <1>1, <1>2
    <3> QED BY <3>1 DEF Range
  <2> QED BY <2>1, <2>2, <2>3
<1>4. ASSUME IsInjective(s), x \notin Range(s) PROVE IsInjective(u)
  <2> SUFFICES ASSUME NEW i \in DOMAIN u, NEW j \in DOMAIN u, u[i] = u[j] PROVE i = j
    BY DEF IsInjective
  <2>1. CASE i \in DOMAIN s /\ j \in DOMAIN s
    BY <2>1, <1>1, <1>4 DEF IsInjective
  <2>2. CASE i \in DOMAIN s /\ j = N + 1
    BY <2>2, <1>1, <1>4 DEF Range
  <2>3. CASE i = N + 1 /\ j \in DOMAIN s
    BY <2>3, <1>1, <1>4 DEF Range
  <2> QED BY <2>1, <2>2, <2>3, <1>2
<1> QED BY <1>1, <1>3, <1>4 DEF u

\* Fresh keeps what is new, once
LEMMA FreshKeeps ==
  ASSUME NEW T, NEW s \in Seq(T)
  PROVE  /\ Fresh(s) \in Seq(T)
         /\ IsInjective(Fresh(s))
         /\ Range(Fresh(s)) = Range(s) \ seen
<1> DEFINE N == Len(s)
           On(out, x) == IF x \in seen \cup Range(out) THEN out ELSE Append(out, x)
           g == [p \in Nat \X Seq(T) |-> IF p[1] + 1 <= N THEN On(p[2], s[p[1] + 1]) ELSE p[2]]
           Body(h) == [i \in 0..N |-> IF i = 0 THEN <<>> ELSE On(h[i - 1], s[i])]
           H == CHOOSE h : h = Body(h)
<1>0. N \in Nat /\ DOMAIN s = 1..N /\ \A i \in 1..N : s[i] \in T
  OBVIOUS
<1>a. ASSUME NEW out \in Seq(T), NEW x \in T PROVE On(out, x) \in Seq(T)
  BY AppendProps
<1>1. PICK f : Runs(f, <<>>, g, Seq(T))
  <2>1. ASSUME NEW n \in Nat, NEW out \in Seq(T) PROVE g[<<n, out>>] \in Seq(T)
    <3>1. g[<<n, out>>] = IF n + 1 <= N THEN On(out, s[n + 1]) ELSE out
      <4> HIDE DEF On
      <4> QED OBVIOUS
    <3>2. n + 1 <= N => s[n + 1] \in T
      BY <1>0
    <3> HIDE DEF On, g
    <3> QED BY <3>1, <3>2, <1>a
  <2>2. g \in [Nat \X Seq(T) -> Seq(T)]
    <3>1. ASSUME NEW p \in Nat \X Seq(T) PROVE g[p] \in Seq(T)
      <4>1. p[1] \in Nat /\ p[2] \in Seq(T) /\ p = <<p[1], p[2]>>
        OBVIOUS
      <4> HIDE DEF g
      <4> QED BY <4>1, <2>1
    <3> HIDE DEF On
    <3> QED BY <3>1
  <2>3. Maps(g, Seq(T)) /\ <<>> \in Seq(T)
    BY <2>2 DEF Maps
  <2> HIDE DEF g
  <2> QED BY <2>3, Steps
<1>2. f[0] = <<>> /\ f \in [Nat -> Seq(T)]
  BY <1>1 DEF Runs
<1>3. ASSUME NEW i \in 1..N PROVE f[i] = On(f[i - 1], s[i])
  <2>1. i - 1 \in Nat /\ (i - 1) + 1 = i /\ i <= N
    BY <1>0
  <2>2. f[(i - 1) + 1] = g[<<i - 1, f[i - 1]>>] /\ f[i - 1] \in Seq(T)
    <3> HIDE DEF g
    <3> QED BY <1>1, <2>1 DEF Runs
  <2>3. g[<<i - 1, f[i - 1]>>] = On(f[i - 1], s[(i - 1) + 1])
    <3> HIDE DEF On
    <3> QED BY <2>1, <2>2
  <2> HIDE DEF g, On
  <2> QED BY <2>1, <2>2, <2>3
<1>4. \A i \in 0..N : H[i] = f[i]
  <2> DEFINE e == [i \in 0..N |-> f[i]]
  <2>2. e = Body(e)
    <3>1. ASSUME NEW i \in 0..N PROVE e[i] = IF i = 0 THEN <<>> ELSE On(e[i - 1], s[i])
      <4>1. CASE i = 0
        BY <4>1, <1>2
      <4>2. CASE i # 0
        <5>1. i - 1 \in 0..N /\ i \in 1..N
          BY <4>2, <1>0
        <5>2. e[i] = f[i] /\ e[i - 1] = f[i - 1]
          BY <5>1
        <5> HIDE DEF e, On
        <5> QED BY <5>1, <5>2, <4>2, <1>3
      <4> QED BY <4>1, <4>2
    <3>2. e = [i \in 0..N |-> e[i]]
      OBVIOUS
    <3> HIDE DEF e, On
    <3> QED BY <3>1, <3>2
  <2>3. H = Body(H)
    <3> HIDE DEF e, Body
    <3> QED BY <2>2
  <2> DEFINE P(n) == n <= N => H[n] = f[n]
  <2>4. ASSUME NEW n \in Nat, n <= N PROVE H[n] = IF n = 0 THEN <<>> ELSE On(H[n - 1], s[n])
    <3> HIDE DEF H, On
    <3>1. Body(H)[n] = IF n = 0 THEN <<>> ELSE On(H[n - 1], s[n])
      BY <2>4, <1>0
    <3> HIDE DEF Body
    <3> QED BY <3>1, <2>3
  <2>5. P(0)
    <3> HIDE DEF H, On
    <3> QED BY <2>4, <1>2, <1>0
  <2>6. ASSUME NEW n \in Nat, P(n) PROVE P(n + 1)
    <3> SUFFICES ASSUME n + 1 <= N PROVE H[n + 1] = f[n + 1]
      OBVIOUS
    <3> HIDE DEF H, On
    <3>1. n + 1 \in 1..N /\ (n + 1) - 1 = n /\ n <= N /\ n + 1 # 0 /\ n + 1 \in Nat
      BY <1>0
    <3>2. H[n + 1] = On(H[n], s[n + 1])
      BY <3>1, <2>4
    <3>3. f[n + 1] = On(f[n], s[n + 1])
      BY <3>1, <1>3
    <3> QED BY <3>1, <3>2, <3>3, <2>6
  <2> HIDE DEF P
  <2>7. \A n \in Nat : P(n)
    <3> DEFINE I == {n \in Nat : P(n)}
    <3>1. I \in SUBSET Nat /\ 0 \in I
      BY <2>5
    <3>2. ASSUME NEW n \in I PROVE n + 1 \in I
      <4>1. n \in Nat /\ P(n) /\ n + 1 \in Nat
        OBVIOUS
      <4>2. P(n + 1)
        BY <4>1, <2>6
      <4> QED BY <4>1, <4>2
    <3> HIDE DEF I
    <3>3. I = Nat
      BY <3>1, <3>2, Induct
    <3> QED BY <3>3 DEF I
  <2> HIDE DEF H
  <2> QED BY <2>7, <1>0 DEF P
<1>5. Fresh(s) = f[N]
  <2>1. Fresh(s) = H[N]
    BY DEF Fresh
  <2> HIDE DEF H
  <2> QED BY <2>1, <1>4, <1>0
<1> DEFINE Q(n) == n <= N => /\ IsInjective(f[n])
                            /\ Range(f[n]) = {s[i] : i \in 1..n} \ seen
<1>6. Q(0)
  <2>1. IsInjective(<<>>) /\ Range(<<>>) = {}
    BY DEF IsInjective, Range
  <2> QED BY <2>1, <1>2
<1>7. ASSUME NEW n \in Nat, Q(n) PROVE Q(n + 1)
  <2> SUFFICES ASSUME n + 1 <= N
               PROVE  /\ IsInjective(f[n + 1])
                      /\ Range(f[n + 1]) = {s[i] : i \in 1..(n + 1)} \ seen
    OBVIOUS
  <2>1. n + 1 \in 1..N /\ (n + 1) - 1 = n /\ n <= N /\ f[n] \in Seq(T) /\ s[n + 1] \in T
    <3>1. n + 1 \in 1..N /\ (n + 1) - 1 = n /\ n <= N
      <4> HIDE DEF N
      <4> QED BY <1>0
    <3>2. f[n] \in Seq(T)
      BY <1>2
    <3>3. s[n + 1] \in T
      BY <3>1, <1>0
    <3> QED BY <3>1, <3>2, <3>3
  <2>2. f[n + 1] = On(f[n], s[n + 1])
    <3> HIDE DEF On
    <3> QED BY <2>1, <1>3
  <2>3. {s[i] : i \in 1..(n + 1)} = {s[i] : i \in 1..n} \cup {s[n + 1]}
    BY UpTo
  <2>4. IsInjective(f[n]) /\ Range(f[n]) = {s[i] : i \in 1..n} \ seen
    BY <2>1, <1>7
  <2>5. CASE s[n + 1] \in seen \cup Range(f[n])
    BY <2>2, <2>3, <2>4, <2>5
  <2>6. CASE s[n + 1] \notin seen \cup Range(f[n])
    <3>1. f[n + 1] = Append(f[n], s[n + 1])
      BY <2>6, <2>2
    <3>2. IsInjective(f[n + 1]) /\ Range(f[n + 1]) = Range(f[n]) \cup {s[n + 1]}
      BY <3>1, <2>1, <2>4, <2>6, AppendProps
    <3> QED BY <3>2, <2>3, <2>4, <2>6
  <2> QED BY <2>5, <2>6
<1> HIDE DEF Q
<1>8. \A n \in Nat : Q(n)
  <2> DEFINE I == {n \in Nat : Q(n)}
  <2>1. I \in SUBSET Nat /\ 0 \in I
    BY <1>6
  <2>2. ASSUME NEW n \in I PROVE n + 1 \in I
    <3>1. n \in Nat /\ Q(n) /\ n + 1 \in Nat
      OBVIOUS
    <3>2. Q(n + 1)
      BY <3>1, <1>7
    <3> QED BY <3>1, <3>2
  <2> HIDE DEF I
  <2>3. I = Nat
    BY <2>1, <2>2, Induct
  <2> QED BY <2>3 DEF I
<1>9. Range(s) = {s[i] : i \in 1..N}
  BY <1>0 DEF Range
<1>10. Q(N)
  BY <1>8, <1>0
<1> QED
  <2>1. f[N] \in Seq(T)
    BY <1>2, <1>0
  <2> HIDE DEF N
  <2> QED BY <1>5, <1>9, <1>10, <1>0, <2>1 DEF Q

-----------------------------------------------------------------------------
(* The rows that the ladder chooses from are those of the highest scan rank. *)

Top(n, S) ==
  {r \in S : ScanRank(n, r) > 0 /\ \A t \in S : ScanRank(n, t) <= ScanRank(n, r)}

Typed(S) == \A s \in S : {s.id, s.qname, s.name} \subseteq Text

LoweredAlike(S) ==
  \A s, t \in S : Lower[s.name] = Lower[t.name] => SqlLower[s.name] = SqlLower[t.name]

\* the rank of a candidate, and when it is the highest
LEMMA CandidateRanks ==
  ASSUME NEW n, NEW s
  PROVE  /\ CandidateRank(n, s) \in 0..3
         /\ CandidateRank(n, s) = 3 <=> Lower[s.name] = Lower[n]
BY DEF CandidateRank

\* the rank the scan gives a row, and when
LEMMA ScanRanks ==
  ASSUME NEW n, NEW s
  PROVE  /\ ScanRank(n, s) \in 0..6
         /\ ScanRank(n, s) = 6 <=> s.id = n
         /\ ScanRank(n, s) = 5 <=> s.id # n /\ s.qname = n
         /\ ScanRank(n, s) = 4 <=> s.id # n /\ s.qname # n /\ s.name = n
         /\ ScanRank(n, s) <= 3 => ScanRank(n, s) = CandidateRank(n, s)
<1>1. CandidateRank(n, s) \in 0..3
  BY CandidateRanks
<1>2. CASE s.id = n
  BY <1>2 DEF ScanRank
<1>3. CASE s.id # n /\ s.qname = n
  BY <1>3 DEF ScanRank
<1>4. CASE s.id # n /\ s.qname # n /\ s.name = n
  BY <1>4 DEF ScanRank
<1>5. CASE s.id # n /\ s.qname # n /\ s.name # n
  <2>1. ScanRank(n, s) = CandidateRank(n, s)
    BY <1>5 DEF ScanRank
  <2> QED
    BY <1>1, <1>5, <2>1
<1> QED
  BY <1>2, <1>3, <1>4, <1>5

\* If some row has rank k and none a higher one, these are the rows of rank k.
LEMMA TopIsRank ==
  ASSUME NEW n, NEW S, NEW k \in 1..6, NEW r \in S, ScanRank(n, r) = k,
         \A t \in S : ScanRank(n, t) <= k
  PROVE  Top(n, S) = {s \in S : ScanRank(n, s) = k}
<1>1. \A s \in S : ScanRank(n, s) \in 0..6
  BY ScanRanks
<1> QED
  BY <1>1 DEF Top

\* Rows that fit the cap are all candidates.
LEMMA AllCandidates ==
  ASSUME NEW S, IsFiniteSet(S), Typed(S), Cardinality(S) <= LookupCap
  PROVE  Candidates(S) = S
<1> SUFFICES ASSUME NEW s \in S
             PROVE  Cardinality({t \in S : Before(t, s)}) < LookupCap
  BY DEF Candidates
<1>1. Order[SqlLower[s.name]] \in Int /\ Order[s.id] \in Int
  BY LookupAssumption DEF Typed
<1>2. ~Before(s, s)
  BY <1>1 DEF Before
<1>3. {t \in S : Before(t, s)} \subseteq S \ {s}
  BY <1>2
<1>4. IsFiniteSet(S \ {s}) /\ Cardinality(S \ {s}) = Cardinality(S) - 1
  BY FS_RemoveElement
<1>5. IsFiniteSet({t \in S : Before(t, s)})
      /\ Cardinality({t \in S : Before(t, s)}) <= Cardinality(S \ {s})
  BY <1>3, <1>4, FS_Subset
<1>6. Cardinality(S) \in Nat /\ Cardinality({t \in S : Before(t, s)}) \in Nat
  BY <1>5, FS_CardinalityType
<1> QED
  BY <1>4, <1>5, <1>6, LookupAssumption

\* The fourth rung, asked in SQL, holds the rows of the third rank, or none.
LEMMA LoweredRung ==
  ASSUME NEW S, Typed(S), LoweredAlike(S), NEW n \in Text, Rung(4, n, S) # {}
  PROVE  Rung(4, n, S) = {s \in S : Lower[s.name] = Lower[n]}
<1>1. PICK r \in S : SqlLower[r.name] = Lower[n]
  BY DEF Rung
<1>2. \A s \in S : s.name \in Text
  BY DEF Typed
<1>3. \A s \in S : SqlLower[s.name] = Lower[n] => Lower[s.name] = Lower[n]
  BY <1>2, LookupAssumption
<1>4. \A s \in S : Lower[s.name] = Lower[n] => SqlLower[s.name] = Lower[n]
  BY <1>1, <1>3 DEF LoweredAlike
<1>5. Rung(4, n, S) = {s \in S : SqlLower[s.name] = Lower[n]}
  BY DEF Rung
<1> QED
  BY <1>3, <1>4, <1>5

-----------------------------------------------------------------------------
\* While the rows of the kind asked for fit the candidate cap and names that Rust lowers
\* alike SQLite lowers alike, the indexed ladder (resolve_symbol_on_connection) returns
\* what a scan of the whole table returns.
THEOREM LadderIsScan ==
  ASSUME NEW S, IsFiniteSet(S), Typed(S), LoweredAlike(S), NEW n \in Text,
         Cardinality(S) <= LookupCap
  PROVE  Resolve(n, S) = Scan(n, S)
<1> DEFINE Answers(i) == Rung(i, n, S) # {} /\ \A j \in 1..(i - 1) : Rung(j, n, S) = {}
<1>1. Scan(n, S) = {s \in S : n # NoText /\ s \in Lowest(Top(n, S))}
  BY DEF Scan, Top
<1>2. ASSUME NEW i \in 1..4, Answers(i)
      PROVE  Rung(i, n, S) = Top(n, S)
  <2>1. PICK r \in S : r \in Rung(i, n, S)
    BY <1>2 DEF Rung
  <2>2. \A s \in S : ScanRank(n, s) \in 0..6
    BY ScanRanks
  <2>3. Rung(1, n, S) = {s \in S : s.id = n} /\ Rung(2, n, S) = {s \in S : s.qname = n}
        /\ Rung(3, n, S) = {s \in S : s.name = n}
    BY DEF Rung
  <2>4. CASE i = 1
    <3>1. ScanRank(n, r) = 6 /\ Rung(1, n, S) = {s \in S : ScanRank(n, s) = 6}
      BY <2>1, <2>3, <2>4, ScanRanks
    <3> QED
      BY <2>2, <2>4, <3>1, TopIsRank
  <2>5. CASE i = 2
    <3>1. \A s \in S : s.id # n
      BY <1>2, <2>3, <2>5
    <3>2. ScanRank(n, r) = 5 /\ Rung(2, n, S) = {s \in S : ScanRank(n, s) = 5}
      BY <2>1, <2>3, <2>5, <3>1, ScanRanks
    <3>3. \A s \in S : ScanRank(n, s) <= 5
      BY <2>2, <3>1, ScanRanks
    <3> QED
      BY <2>5, <3>2, <3>3, TopIsRank
  <2>6. CASE i = 3
    <3>1. \A s \in S : s.id # n /\ s.qname # n
      BY <1>2, <2>3, <2>6
    <3>2. ScanRank(n, r) = 4 /\ Rung(3, n, S) = {s \in S : ScanRank(n, s) = 4}
      BY <2>1, <2>3, <2>6, <3>1, ScanRanks
    <3>3. \A s \in S : ScanRank(n, s) <= 4
      BY <2>2, <3>1, ScanRanks
    <3> QED
      BY <2>6, <3>2, <3>3, TopIsRank
  <2>7. CASE i = 4
    <3>1. \A s \in S : s.id # n /\ s.qname # n /\ s.name # n
      BY <1>2, <2>3, <2>7
    <3>2. \A s \in S : ScanRank(n, s) <= 3
      BY <2>2, <3>1, ScanRanks
    <3>3. \A s \in S : ScanRank(n, s) = 3 <=> Lower[s.name] = Lower[n]
      BY <3>2, ScanRanks, CandidateRanks
    <3>4. Rung(4, n, S) = {s \in S : ScanRank(n, s) = 3}
      BY <1>2, <2>7, <3>3, LoweredRung
    <3>5. ScanRank(n, r) = 3
      BY <2>1, <2>7, <3>4
    <3> QED
      BY <2>7, <3>2, <3>4, <3>5, TopIsRank
  <2> QED
    BY <2>4, <2>5, <2>6, <2>7
<1>3. ASSUME \A i \in 1..4 : Rung(i, n, S) = {}
      PROVE  BestCandidates(n, Candidates(S)) = Top(n, S)
  <2>1. \A s \in S : s.id # n /\ s.qname # n /\ s.name # n
    BY <1>3 DEF Rung
  <2>2. \A s \in S : ScanRank(n, s) = CandidateRank(n, s)
    BY <2>1 DEF ScanRank
  <2>3. Candidates(S) = S
    BY AllCandidates
  <2> QED
    BY <2>2, <2>3 DEF BestCandidates, Top
<1>4. Resolve(n, S) =
        {s \in S : /\ n # NoText
                   /\ \/ \E i \in 1..4 : Answers(i) /\ s \in Lowest(Rung(i, n, S))
                      \/ /\ \A i \in 1..4 : Rung(i, n, S) = {}
                         /\ s \in Lowest(BestCandidates(n, Candidates(S)))}
  BY DEF Resolve
<1>5. CASE \A i \in 1..4 : Rung(i, n, S) = {}
  <2>1. \A i \in 1..4 : ~Answers(i)
    BY <1>5
  <2> QED
    BY <1>1, <1>3, <1>4, <1>5, <2>1
<1>6. CASE \E i \in 1..4 : Rung(i, n, S) # {}
  <2>1. \E i \in 1..4 : Answers(i)
    <3>1. Rung(1, n, S) # {} => Answers(1)
      OBVIOUS
    <3>2. Rung(1, n, S) = {} /\ Rung(2, n, S) # {} => Answers(2)
      OBVIOUS
    <3>3. Rung(1, n, S) = {} /\ Rung(2, n, S) = {} /\ Rung(3, n, S) # {} => Answers(3)
      OBVIOUS
    <3>4. Rung(1, n, S) = {} /\ Rung(2, n, S) = {} /\ Rung(3, n, S) = {}
            /\ Rung(4, n, S) # {} => Answers(4)
      OBVIOUS
    <3> HIDE DEF Answers
    <3> QED
      BY <1>6, <3>1, <3>2, <3>3, <3>4
  <2>2. \A s : (\E i \in 1..4 : Answers(i) /\ s \in Lowest(Rung(i, n, S)))
                 <=> s \in Lowest(Top(n, S))
    <3> HIDE DEF Answers
    <3> QED
      BY <1>2, <2>1
  <2> HIDE DEF Answers
  <2> QED
    BY <1>1, <1>4, <1>6, <2>2
<1> QED
  BY <1>5, <1>6

-----------------------------------------------------------------------------
(* The state machine keeps what the ladder has found. *)

\* what is found is what the ladder finds
LInv ==
  /\ question \in Questions
  /\ hop \in Nat
  /\ hop > 0 => found = Resolve(question.needle, OfKind(question.rows, question.kind))

\* A question is one of those asked, and what was found is what the ladder finds.
LEMMA LInvHolds == LookupSpec => []LInv
<1>1. LookupInit => LInv
  BY DEF LookupInit, LInv
<1>2. LInv /\ [LookupNext]_lookupVars => LInv'
  <2> SUFFICES ASSUME LInv, [LookupNext]_lookupVars PROVE LInv'
    OBVIOUS
  <2>1. CASE ResolveSymbol
    BY <2>1 DEF LInv, ResolveSymbol
  <2>2. CASE Hop
    BY <2>2 DEF LInv, Hop
  <2>3. CASE UNCHANGED lookupVars
    BY <2>3 DEF LInv, lookupVars
  <2> QED
    BY <2>1, <2>2, <2>3 DEF LookupNext
<1> QED
  BY <1>1, <1>2, PTL DEF LookupSpec

\* Every lookup the program makes returns what the scan would.
THEOREM LookupsAgree == LookupSpec => []LookupAgrees
<1>1. LInv => LookupAgrees
  <2> SUFFICES ASSUME LInv,
                      hop > 0,
                      Cardinality(OfKind(question.rows, question.kind)) <= LookupCap,
                      LoweredAlike(OfKind(question.rows, question.kind))
               PROVE  found = Scan(question.needle, OfKind(question.rows, question.kind))
    BY DEF LookupAgrees, LoweredAlike
  <2> DEFINE S == OfKind(question.rows, question.kind)
  <2>1. IsFiniteSet(question.rows) /\ question.needle \in Text /\ Typed(question.rows)
    BY LookupAssumption DEF LInv, Typed
  <2>2. S \subseteq question.rows
    BY DEF OfKind
  <2>3. IsFiniteSet(S) /\ Typed(S)
    BY <2>1, <2>2, FS_Subset DEF Typed
  <2>4. found = Resolve(question.needle, S)
    BY DEF LInv
  <2> HIDE DEF S
  <2>5. Cardinality(S) <= LookupCap /\ LoweredAlike(S)
    BY DEF S
  <2>6. found = Scan(question.needle, S)
    BY <2>1, <2>3, <2>4, <2>5, LadderIsScan
  <2> QED
    BY <2>6 DEF S
<1> QED
  BY <1>1, LInvHolds, PTL

-----------------------------------------------------------------------------
(* The order of the edges *)

\* rows of table edge
Edges(E) ==
  /\ IsFiniteSet(E)
  /\ \A e \in E :
       /\ {e.src, e.dst} \subseteq Text /\ e.kind \in Int /\ e.missing \in BOOLEAN
       /\ \A d \in E : Key(d) = Key(e) => d = e

Greatest(e, E) == e \in E /\ \A d \in E : d # e => KeyOrder(d, e)

\* The primary key orders the edges: one of two is before the other.
LEMMA KeysOrdered ==
  ASSUME NEW E, Edges(E), NEW d \in E, NEW e \in E
  PROVE  /\ d # e => KeyOrder(d, e) \/ KeyOrder(e, d)
         /\ ~(KeyOrder(d, e) /\ KeyOrder(e, d))
         /\ ~KeyOrder(d, d)
         /\ \A c \in E : KeyOrder(c, d) /\ KeyOrder(d, e) => KeyOrder(c, e)
<1>1. \A c \in E : /\ c.src \in Text /\ c.dst \in Text /\ c.kind \in Int
                   /\ Order[c.src] \in Int /\ Order[c.dst] \in Int
  BY LookupAssumption DEF Edges
<1>2. \A c, b \in E : c.src = b.src /\ c.dst = b.dst /\ c.kind = b.kind => c = b
  BY DEF Edges, Key
<1>3. \A x, y \in Text : Order[x] = Order[y] => x = y
  BY LookupAssumption
<1>4. d # e => KeyOrder(d, e) \/ KeyOrder(e, d)
  BY <1>1, <1>2, <1>3 DEF KeyOrder
<1>5. ~(KeyOrder(d, e) /\ KeyOrder(e, d)) /\ ~KeyOrder(d, d)
  BY <1>1 DEF KeyOrder
<1>6. ASSUME NEW c \in E, KeyOrder(c, d), KeyOrder(d, e) PROVE KeyOrder(c, e)
  BY <1>1, <1>6 DEF KeyOrder
<1> QED BY <1>4, <1>5, <1>6

\* some of the edges are edges
LEMMA EdgesLess ==
  ASSUME NEW E, Edges(E), NEW D \in SUBSET E
  PROVE  Edges(D)
<1>1. IsFiniteSet(D)
  BY FS_Subset DEF Edges
<1> QED BY <1>1 DEF Edges

\* Of some edges one is the last.
LEMMA SomeLast ==
  ASSUME NEW E, Edges(E), E # {}
  PROVE  \E e \in E : Greatest(e, E)
<1> DEFINE P(n) == \A D \in SUBSET E : Cardinality(D) = n + 1 => \E e \in D : Greatest(e, D)
<1>1. \A D \in SUBSET E : IsFiniteSet(D) /\ Cardinality(D) \in Nat
  <2> TAKE D \in SUBSET E
  <2>1. IsFiniteSet(D)
    BY EdgesLess DEF Edges
  <2> QED BY <2>1, FS_CardinalityType
<1>2. P(0)
  <2> SUFFICES ASSUME NEW D \in SUBSET E, Cardinality(D) = 1 PROVE \E e \in D : Greatest(e, D)
    OBVIOUS
  <2>1. PICK e : D = {e}
    BY <1>1, FS_Singleton
  <2> QED BY <2>1 DEF Greatest
<1>3. ASSUME NEW n \in Nat, P(n) PROVE P(n + 1)
  <2> SUFFICES ASSUME NEW D \in SUBSET E, Cardinality(D) = (n + 1) + 1
               PROVE  \E e \in D : Greatest(e, D)
    OBVIOUS
  <2>1. PICK x : x \in D
    <3>1. D # {}
      BY FS_EmptySet
    <3> QED BY <3>1
  <2>2. Cardinality(D \ {x}) = n + 1
    <3>1. Cardinality(D \ {x}) = Cardinality(D) - 1
      BY <2>1, <1>1, FS_RemoveElement
    <3> QED BY <3>1
  <2>3. PICK e \in D \ {x} : Greatest(e, D \ {x})
    <3>1. D \ {x} \in SUBSET E
      OBVIOUS
    <3> QED BY <2>2, <3>1, <1>3
  <2>4. CASE KeyOrder(x, e)
    <3>1. Greatest(e, D)
      BY <2>3, <2>4 DEF Greatest
    <3> QED BY <3>1, <2>3
  <2>5. CASE KeyOrder(e, x)
    <3>1. ASSUME NEW d \in D, d # x PROVE KeyOrder(d, x)
      <4>1. CASE d = e
        BY <4>1, <2>5
      <4>2. CASE d # e
        <5>1. KeyOrder(d, e) /\ d \in E /\ e \in E /\ x \in E
          BY <2>1, <2>3, <3>1, <4>2 DEF Greatest
        <5> QED BY <5>1, <2>5, KeysOrdered
      <4> QED BY <4>1, <4>2
    <3>2. Greatest(x, D)
      BY <3>1, <2>1 DEF Greatest
    <3> QED BY <3>2, <2>1
  <2>6. KeyOrder(x, e) \/ KeyOrder(e, x)
    <3>1. x \in E /\ e \in E /\ x # e
      BY <2>1, <2>3
    <3> QED BY <3>1, KeysOrdered
  <2> QED BY <2>4, <2>5, <2>6
<1> HIDE DEF P
<1>4. \A n \in Nat : P(n)
  <2> DEFINE I == {n \in Nat : P(n)}
  <2>1. I \in SUBSET Nat /\ 0 \in I
    BY <1>2
  <2>2. ASSUME NEW n \in I PROVE n + 1 \in I
    <3>1. n \in Nat /\ P(n) /\ n + 1 \in Nat
      OBVIOUS
    <3>2. P(n + 1)
      BY <3>1, <1>3
    <3> QED BY <3>1, <3>2
  <2> HIDE DEF I
  <2>3. I = Nat
    BY <2>1, <2>2, Induct
  <2> QED BY <2>3 DEF I
<1>5. Cardinality(E) # 0
  BY <1>1, FS_EmptySet
<1>6. Cardinality(E) - 1 \in Nat /\ Cardinality(E) = (Cardinality(E) - 1) + 1
  BY <1>1, <1>5
<1>7. P(Cardinality(E) - 1)
  BY <1>4, <1>6
<1> QED BY <1>6, <1>7 DEF P

\* The last edge comes last
LEMMA OrderAppend ==
  ASSUME NEW E, Edges(E), NEW e, Greatest(e, E)
  PROVE  InKeyOrder(E) = Append(InKeyOrder(E \ {e}), e)
<1> DEFINE D == E \ {e}
           N == Cardinality(D)
           Pre(x, S) == {d \in S : KeyOrder(d, x)}
           At(i, S) == CHOOSE x \in S : Cardinality({d \in S : KeyOrder(d, x)}) = i - 1
<1>1. e \in E /\ IsFiniteSet(E) /\ IsFiniteSet(D) /\ N \in Nat /\ Cardinality(E) = N + 1
  <2>1. e \in E /\ IsFiniteSet(E)
    BY DEF Greatest, Edges
  <2>2. IsFiniteSet(D) /\ Cardinality(D) = Cardinality(E) - 1 /\ Cardinality(E) \in Nat
    BY <2>1, FS_RemoveElement, FS_CardinalityType
  <2>3. Cardinality(D) \in Nat
    BY <2>2, FS_CardinalityType
  <2> QED BY <2>1, <2>2, <2>3
<1>2. Pre(e, E) = D
  <2>1. ASSUME NEW d \in E PROVE KeyOrder(d, e) <=> d # e
    BY <1>1, KeysOrdered DEF Greatest
  <2> QED BY <2>1, <1>1
<1>3. ASSUME NEW d \in D PROVE Pre(d, E) = Pre(d, D) /\ Cardinality(Pre(d, D)) < N
  <2>1. ~KeyOrder(e, d) /\ ~KeyOrder(d, d)
    BY <1>1, KeysOrdered DEF Greatest
  <2>2. Pre(d, E) = Pre(d, D)
    BY <2>1
  <2>3. Pre(d, D) \in SUBSET (D \ {d})
    BY <2>1
  <2>4. IsFiniteSet(D \ {d}) /\ Cardinality(D \ {d}) = N - 1
    BY <1>1, FS_RemoveElement
  <2>5. Cardinality(Pre(d, D)) <= N - 1 /\ Cardinality(Pre(d, D)) \in Nat
    <3>1. IsFiniteSet(Pre(d, D)) /\ Cardinality(Pre(d, D)) <= Cardinality(D \ {d})
      BY <2>3, <2>4, FS_Subset
    <3>2. Cardinality(Pre(d, D)) \in Nat
      BY <3>1, FS_CardinalityType
    <3> HIDE DEF Pre, N
    <3> QED BY <3>1, <3>2, <2>4
  <2> HIDE DEF Pre, N
  <2> QED BY <2>2, <2>5, <1>1
<1>4. ASSUME NEW i \in 1..N PROVE At(i, E) = At(i, D)
  <2>1. ASSUME NEW x PROVE x \in E /\ Cardinality(Pre(x, E)) = i - 1
                            <=> x \in D /\ Cardinality(Pre(x, D)) = i - 1
    <3> HIDE DEF Pre
    <3>1. CASE x \in D
      BY <3>1, <1>3
    <3>2. CASE x = e
      <4>1. i - 1 # N
        BY <1>1
      <4> QED BY <3>2, <4>1, <1>2
    <3> QED BY <3>1, <3>2
  <2> QED BY <2>1
<1>5. At(N + 1, E) = e
  <2>1. ASSUME NEW x \in E PROVE Cardinality(Pre(x, E)) = N <=> x = e
    <3> HIDE DEF Pre, N
    <3>1. CASE x \in D
      BY <3>1, <1>3, <1>1
    <3>2. CASE x = e
      BY <3>2, <1>2 DEF N
    <3> QED BY <3>1, <3>2
  <2>2. (N + 1) - 1 = N
    BY <1>1
  <2> HIDE DEF N
  <2> QED BY <2>1, <2>2, <1>1
<1> DEFINE s == InKeyOrder(D)
<1>6. InKeyOrder(E) = [i \in 1..(N + 1) |-> At(i, E)]
  BY <1>1 DEF InKeyOrder
<1>7. s = [i \in 1..N |-> At(i, D)]
  BY DEF InKeyOrder
<1> HIDE DEF s, At, N
<1>8. Append(s, e) = [i \in 1..(N + 1) |-> IF i = N + 1 THEN e ELSE At(i, D)]
  BY <1>7, <1>1
<1>9. \A i \in 1..(N + 1) : At(i, E) = IF i = N + 1 THEN e ELSE At(i, D)
  BY <1>4, <1>5, <1>1
<1> QED BY <1>6, <1>8, <1>9 DEF s

\* induction over sets of edges, one edge after the other
LEMMA EdgeInduct ==
  ASSUME NEW E, Edges(E), NEW G, {} \in G,
         \A D \in SUBSET E : \A e \in D : Greatest(e, D) /\ D \ {e} \in G => D \in G
  PROVE  E \in G
<1> DEFINE P(n) == \A D \in SUBSET E : Cardinality(D) = n => D \in G
<1>1. \A D \in SUBSET E : Edges(D) /\ IsFiniteSet(D) /\ Cardinality(D) \in Nat
  <2> TAKE D \in SUBSET E
  <2>1. Edges(D) /\ IsFiniteSet(D)
    BY EdgesLess DEF Edges
  <2> QED BY <2>1, FS_CardinalityType
<1>2. P(0)
  <2> SUFFICES ASSUME NEW D \in SUBSET E, Cardinality(D) = 0 PROVE D \in G
    OBVIOUS
  <2>1. D = {}
    BY <1>1, FS_EmptySet
  <2> QED BY <2>1
<1>3. ASSUME NEW n \in Nat, P(n) PROVE P(n + 1)
  <2> SUFFICES ASSUME NEW D \in SUBSET E, Cardinality(D) = n + 1 PROVE D \in G
    OBVIOUS
  <2>1. D # {}
    <3>1. Cardinality({}) = 0 /\ n + 1 # 0
      BY FS_EmptySet
    <3> QED BY <3>1
  <2>2. PICK e \in D : Greatest(e, D)
    BY <2>1, <1>1, SomeLast
  <2>3. Cardinality(D \ {e}) = n
    <3>1. Cardinality(D \ {e}) = Cardinality(D) - 1
      BY <1>1, FS_RemoveElement
    <3> QED BY <3>1
  <2>4. D \ {e} \in SUBSET E
    OBVIOUS
  <2> QED BY <2>2, <2>3, <2>4, <1>3
<1> HIDE DEF P
<1>4. \A n \in Nat : P(n)
  <2> DEFINE I == {n \in Nat : P(n)}
  <2>1. I \in SUBSET Nat /\ 0 \in I
    BY <1>2
  <2>2. ASSUME NEW n \in I PROVE n + 1 \in I
    <3>1. n \in Nat /\ P(n) /\ n + 1 \in Nat
      OBVIOUS
    <3>2. P(n + 1)
      BY <3>1, <1>3
    <3> QED BY <3>1, <3>2
  <2> HIDE DEF I
  <2>3. I = Nat
    BY <2>1, <2>2, Induct
  <2> QED BY <2>3 DEF I
<1>5. P(Cardinality(E))
  BY <1>4, <1>1
<1> QED BY <1>5 DEF P

\* the edges in order are a sequence of them
LEMMA OrderSeq ==
  ASSUME NEW E, Edges(E)
  PROVE  InKeyOrder(E) \in Seq(E)
<1> DEFINE G == {D \in SUBSET E : InKeyOrder(D) \in Seq(E)}
<1>1. {} \in G
  <2>1. InKeyOrder({}) = <<>>
    <3>1. Cardinality({}) = 0
      BY FS_EmptySet
    <3> QED BY <3>1 DEF InKeyOrder
  <2>2. <<>> \in Seq(E) /\ {} \in SUBSET E
    OBVIOUS
  <2>3. InKeyOrder({}) \in Seq(E)
    BY <2>1, <2>2
  <2> QED BY <2>2, <2>3
<1>2. ASSUME NEW D \in SUBSET E, NEW e \in D, Greatest(e, D), D \ {e} \in G PROVE D \in G
  <2>1. Edges(D)
    BY EdgesLess
  <2>2. InKeyOrder(D) = Append(InKeyOrder(D \ {e}), e)
    BY <1>2, <2>1, OrderAppend
  <2>3. InKeyOrder(D \ {e}) \in Seq(E) /\ e \in E
    BY <1>2
  <2>4. Append(InKeyOrder(D \ {e}), e) \in Seq(E)
    BY <2>3, AppendProps
  <2> QED BY <2>2, <2>4
<1> HIDE DEF G
<1>3. E \in G
  BY <1>1, <1>2, EdgeInduct
<1> QED BY <1>3 DEF G

-----------------------------------------------------------------------------
(* A hop *)

\* what the edges E lead to from n
From(n, E) == FlattenSeq([j \in DOMAIN InKeyOrder(E) |-> Neighbor(n, InKeyOrder(E)[j])])

\* an edge leads to one symbol or to none
LEMMA NeighborType ==
  ASSUME NEW E, Edges(E), NEW n, NEW e \in E
  PROVE  Neighbor(n, e) \in Seq(Text)
BY DEF Edges, Neighbor

\* The last edge adds what it leads to at the end.
LEMMA FromAppend ==
  ASSUME NEW E, Edges(E), NEW n, NEW e, Greatest(e, E)
  PROVE  From(n, E) = From(n, E \ {e}) \o Neighbor(n, e)
<1> DEFINE s == InKeyOrder(E \ {e})
           t == [j \in DOMAIN s |-> Neighbor(n, s[j])]
<1>1. e \in E /\ Edges(E \ {e}) /\ s \in Seq(E)
  <2>1. Edges(E \ {e})
    BY EdgesLess
  <2>2. s \in Seq(E \ {e})
    BY <2>1, OrderSeq
  <2> HIDE DEF s
  <2> QED BY <2>1, <2>2 DEF Greatest
<1>2. InKeyOrder(E) = Append(s, e)
  BY OrderAppend
<1> HIDE DEF s
<1>3. Len(s) \in Nat /\ DOMAIN s = 1..Len(s) /\ \A j \in 1..Len(s) : s[j] \in E
  BY <1>1
<1>4. \A j \in 1..Len(s) : Neighbor(n, s[j]) \in Seq(Text)
  BY <1>3, NeighborType
<1>5. Neighbor(n, e) \in Seq(Text)
  BY <1>1, NeighborType
<1>6. t \in Seq(Seq(Text))
  BY <1>3, <1>4
<1>7. [j \in DOMAIN Append(s, e) |-> Neighbor(n, Append(s, e)[j])] = Append(t, Neighbor(n, e))
  <2>1. /\ DOMAIN Append(s, e) = 1..(Len(s) + 1)
        /\ \A j \in 1..Len(s) : Append(s, e)[j] = s[j]
        /\ Append(s, e)[Len(s) + 1] = e
    BY <1>3, <1>1
  <2>2. /\ Len(t) = Len(s)
        /\ Append(t, Neighbor(n, e)) = [j \in 1..(Len(s) + 1) |->
              IF j = Len(s) + 1 THEN Neighbor(n, e) ELSE t[j]]
    BY <1>3, <1>6
  <2>3. ASSUME NEW j \in 1..(Len(s) + 1)
        PROVE  Neighbor(n, Append(s, e)[j]) = IF j = Len(s) + 1 THEN Neighbor(n, e) ELSE t[j]
    <3>1. CASE j = Len(s) + 1
      BY <3>1, <2>1
    <3>2. CASE j # Len(s) + 1
      <4>1. j \in 1..Len(s) /\ j \in DOMAIN s
        BY <3>2, <1>3
      <4> QED BY <4>1, <3>2, <2>1
    <3> QED BY <3>1, <3>2
  <2> HIDE DEF t
  <2> QED BY <2>1, <2>2, <2>3
<1>8. FlattenSeq(Append(t, Neighbor(n, e))) = FlattenSeq(t) \o Neighbor(n, e)
  <2> HIDE DEF t
  <2> QED BY <1>5, <1>6, FlattenAppend
<1> QED BY <1>2, <1>7, <1>8 DEF From, s

\* edges that lead nowhere from n do not matter
LEMMA FromEdges ==
  ASSUME NEW E, Edges(E), NEW n
  PROVE  /\ From(n, E) \in Seq(Text)
         /\ Range(From(n, E)) = UNION {Range(Neighbor(n, e)) : e \in E}
         /\ From(n, E) = From(n, {e \in E : Neighbor(n, e) # <<>>})
<1> DEFINE Leading(D) == {d \in D : Neighbor(n, d) # <<>>}
           Good(D) == /\ From(n, D) \in Seq(Text)
                      /\ Range(From(n, D)) = UNION {Range(Neighbor(n, e)) : e \in D}
                      /\ From(n, D) = From(n, Leading(D))
           G == {D \in SUBSET E : Good(D)}
<1>1. {} \in G
  <2>1. InKeyOrder({}) = <<>>
    <3>1. Cardinality({}) = 0
      BY FS_EmptySet
    <3> QED BY <3>1 DEF InKeyOrder
  <2>2. From(n, {}) = <<>>
    <3>1. [j \in DOMAIN <<>> |-> Neighbor(n, <<>>[j])] = <<>>
      OBVIOUS
    <3>2. FlattenSeq(<<>>) = <<>>
      BY DEF FlattenSeq
    <3> QED BY <2>1, <3>1, <3>2 DEF From
  <2>3. Range(<<>>) = {}
    BY DEF Range
  <2>4. Leading({}) = {} /\ <<>> \in Seq(Text) /\ {} = UNION {Range(Neighbor(n, e)) : e \in {}}
    OBVIOUS
  <2>5. Good({})
    <3> HIDE DEF Leading
    <3> QED BY <2>2, <2>3, <2>4
  <2> HIDE DEF Good
  <2> QED BY <2>5
<1>2. ASSUME NEW D \in SUBSET E, NEW e \in D, Greatest(e, D), D \ {e} \in G PROVE D \in G
  <2>1. Edges(D) /\ Edges(Leading(D)) /\ Neighbor(n, e) \in Seq(Text)
    <3>1. Leading(D) \in SUBSET E
      OBVIOUS
    <3> HIDE DEF Leading
    <3> QED BY <3>1, EdgesLess, NeighborType
  <2>2. From(n, D) = From(n, D \ {e}) \o Neighbor(n, e)
    BY <1>2, <2>1, FromAppend
  <2>3. /\ From(n, D \ {e}) \in Seq(Text)
        /\ Range(From(n, D \ {e})) = UNION {Range(Neighbor(n, d)) : d \in D \ {e}}
        /\ From(n, D \ {e}) = From(n, Leading(D \ {e}))
    BY <1>2
  <2>4. From(n, D) \in Seq(Text) /\ Range(From(n, D)) = Range(From(n, D \ {e})) \cup Range(Neighbor(n, e))
    <3>1. \A s, t \in Seq(Text) : s \o t \in Seq(Text) /\ Range(s \o t) = Range(s) \cup Range(t)
      BY RangeConcat
    <3> QED BY <2>1, <2>2, <2>3, <3>1
  <2>5. Range(From(n, D)) = UNION {Range(Neighbor(n, d)) : d \in D}
    BY <2>3, <2>4
  <2>6. From(n, D) = From(n, Leading(D))
    <3>1. CASE Neighbor(n, e) = <<>>
      <4>1. Leading(D) = Leading(D \ {e})
        BY <3>1
      <4>2. From(n, D) = From(n, D \ {e})
        BY <3>1, <2>2, <2>3
      <4> QED BY <4>1, <4>2, <2>3
    <3>2. CASE Neighbor(n, e) # <<>>
      <4>1. Leading(D) \ {e} = Leading(D \ {e})
        OBVIOUS
      <4>2. Greatest(e, Leading(D))
        BY <3>2, <1>2 DEF Greatest
      <4> HIDE DEF Leading
      <4>3. From(n, Leading(D)) = From(n, Leading(D) \ {e}) \o Neighbor(n, e)
        BY <4>2, <2>1, FromAppend
      <4> QED BY <4>1, <4>3, <2>2, <2>3
    <3> QED BY <3>1, <3>2
  <2>7. Good(D)
    <3> HIDE DEF Leading
    <3> QED BY <2>4, <2>5, <2>6
  <2> HIDE DEF Good
  <2> QED BY <2>7
<1> HIDE DEF G
<1>3. E \in G
  BY <1>1, <1>2, EdgeInduct
<1> QED BY <1>3 DEF G

\* what a question has by the assumption
LEMMA QuestionEdges ==
  ASSUME question \in Questions
  PROVE  question.from \in Text /\ question.depth \in Nat /\ Edges(question.edges)
BY LookupAssumption DEF Edges

\* Adjacent symbols are those some edge leads to.
LEMMA NeighborsAdjacent ==
  ASSUME question \in Questions, NEW m, NEW x
  PROVE  (\E e \in question.edges : x \in Range(Neighbor(m, e))) <=> Adjacent(m, x)
<1>1. ASSUME NEW e \in question.edges
      PROVE  x \in Range(Neighbor(m, e)) <=>
               /\ ~e.missing
               /\ \/ Outbound /\ e.src = m /\ e.dst = x
                  \/ Inbound /\ e.dst = m /\ e.src = x
  <2>1. Range(<<>>) = {} /\ \A y : Range(<<y>>) = {y}
    BY DEF Range
  <2>2. CASE e.missing
    BY <2>1, <2>2 DEF Neighbor
  <2>3. CASE ~e.missing /\ Outbound /\ e.src = m
    BY <2>1, <2>3 DEF Neighbor
  <2>4. CASE ~e.missing /\ Inbound /\ e.dst = m /\ ~(Outbound /\ e.src = m)
    BY <2>1, <2>4 DEF Neighbor
  <2>5. CASE ~e.missing /\ ~(Outbound /\ e.src = m) /\ ~(Inbound /\ e.dst = m)
    <3>1. Neighbor(m, e) = <<>>
      BY <2>5 DEF Neighbor
    <3> QED BY <2>1, <2>5, <3>1
  <2> QED BY <2>2, <2>3, <2>4, <2>5
<1> QED BY <1>1 DEF Adjacent

\* A hop finds, once each, the unseen symbols next to its frontier, and reading all
\* edges would not change what it finds or the order.
LEMMA StepFinds ==
  ASSUME question \in Questions, frontier \in Seq(Text)
  PROVE  /\ Step(Incident) = Step(question.edges)
         /\ Step(Incident) \in Seq(Text)
         /\ IsInjective(Step(Incident))
         /\ Range(Step(Incident)) =
              {x \in Text : \E m \in Range(frontier) : Adjacent(m, x)} \ seen
<1> DEFINE All == question.edges
           Visits(E) == [i \in DOMAIN frontier |-> From(frontier[i], E)]
<1>1. Edges(All) /\ Edges(Incident)
  <2>1. Incident \in SUBSET All
    BY DEF Incident
  <2> QED BY <2>1, QuestionEdges, EdgesLess
<1>2. \A E : Step(E) = Fresh(FlattenSeq(Visits(E)))
  BY DEF Step, From
<1>3. ASSUME NEW i \in DOMAIN frontier PROVE From(frontier[i], Incident) = From(frontier[i], All)
  <2> DEFINE n == frontier[i]
             Leading(E) == {e \in E : Neighbor(n, e) # <<>>}
  <2>1. n \in Range(frontier)
    BY DEF Range
  <2>2. ASSUME NEW e \in All, Neighbor(n, e) # <<>> PROVE e \in Incident
    BY <2>1, <2>2 DEF Neighbor, Incident
  <2>3. Leading(Incident) = Leading(All)
    BY <2>2 DEF Incident
  <2>4. From(n, Incident) = From(n, Leading(Incident)) /\ From(n, All) = From(n, Leading(All))
    BY <1>1, FromEdges
  <2> HIDE DEF n, Leading
  <2>5. From(n, Incident) = From(n, All)
    BY <2>3, <2>4
  <2> QED BY <2>5 DEF n
<1>4. Visits(Incident) = Visits(All)
  BY <1>3
<1>5. Step(Incident) = Step(All)
  BY <1>2, <1>4
<1> DEFINE v == Visits(All)
<1>6. v \in Seq(Seq(Text))
  <2>1. frontier \in Seq(Text) /\ Len(frontier) \in Nat /\ DOMAIN frontier = 1..Len(frontier)
    OBVIOUS
  <2>2. \A i \in 1..Len(frontier) : From(frontier[i], All) \in Seq(Text)
    BY <1>1, FromEdges
  <2> QED BY <2>1, <2>2
<1>7. Range(FlattenSeq(v)) = {x \in Text : \E m \in Range(frontier) : Adjacent(m, x)}
  <2>1. FlattenSeq(v) \in Seq(Text) /\ Range(FlattenSeq(v)) = UNION {Range(v[i]) : i \in DOMAIN v}
    <3> HIDE DEF v
    <3> QED BY <1>6, FlattenRange
  <2>2. ASSUME NEW i \in DOMAIN frontier
        PROVE  Range(From(frontier[i], All)) = {x \in Text : Adjacent(frontier[i], x)}
    <3>1. /\ From(frontier[i], All) \in Seq(Text)
          /\ Range(From(frontier[i], All)) = UNION {Range(Neighbor(frontier[i], e)) : e \in All}
      BY <1>1, FromEdges
    <3>2. Range(From(frontier[i], All)) \subseteq Text
      BY <3>1 DEF Range
    <3>3. \A x : x \in Range(From(frontier[i], All)) <=> Adjacent(frontier[i], x)
      BY <3>1, NeighborsAdjacent
    <3> QED BY <3>2, <3>3
  <2>3. DOMAIN v = DOMAIN frontier /\ \A i \in DOMAIN frontier : v[i] = From(frontier[i], All)
    OBVIOUS
  <2> HIDE DEF v, All
  <2>4. ASSUME NEW x PROVE x \in Range(FlattenSeq(v)) <=> \E i \in DOMAIN frontier : x \in Text /\ Adjacent(frontier[i], x)
    BY <2>1, <2>2, <2>3
  <2>5. ASSUME NEW x PROVE (\E i \in DOMAIN frontier : x \in Text /\ Adjacent(frontier[i], x))
                             <=> x \in Text /\ \E m \in Range(frontier) : Adjacent(m, x)
    BY DEF Range
  <2> QED BY <2>4, <2>5
<1>8. FlattenSeq(v) \in Seq(Text)
  <2> HIDE DEF v
  <2> QED BY <1>6, FlattenRange
<1>9. /\ Fresh(FlattenSeq(v)) \in Seq(Text)
      /\ IsInjective(Fresh(FlattenSeq(v)))
      /\ Range(Fresh(FlattenSeq(v))) = Range(FlattenSeq(v)) \ seen
  <2> HIDE DEF v
  <2> QED BY <1>8, FreshKeeps
<1>10. Step(All) = Fresh(FlattenSeq(v))
  BY <1>2
<1> HIDE DEF v
<1> QED BY <1>5, <1>7, <1>9, <1>10

-----------------------------------------------------------------------------
(* What is found after some hops *)

\* S and what is next to it
Wider(S) == S \cup {n \in Text : \E m \in S : Adjacent(m, n)}

\* b is Ball
Balls(b) ==
  /\ b \in [Nat -> SUBSET Text]
  /\ b[0] = {question.from}
  /\ \A h \in Nat : b[h + 1] = Wider(b[h])

\* what Ball, which is recursive, says of each number of hops
LEMMA BallBalls == ASSUME question \in Questions PROVE Balls(Ball)
<1> DEFINE g == [p \in Nat \X SUBSET Text |-> Wider(p[2])]
           Body(b) == [h \in Nat |-> IF h = 0 THEN {question.from} ELSE Wider(b[h - 1])]
           H == CHOOSE b : b = Body(b)
<1>0. question.from \in Text
  BY QuestionEdges
<1>1. PICK f : Runs(f, {question.from}, g, SUBSET Text)
  <2>1. Maps(g, SUBSET Text)
    BY DEF Maps, Wider
  <2>2. {question.from} \in SUBSET Text
    BY <1>0
  <2> HIDE DEF g
  <2> QED BY <2>1, <2>2, Steps
<1>2. /\ f \in [Nat -> SUBSET Text] /\ f[0] = {question.from}
      /\ \A n \in Nat : f[n + 1] = Wider(f[n])
  <2>1. \A n \in Nat : f[n + 1] = g[<<n, f[n]>>]
    <3> HIDE DEF g
    <3> QED BY <1>1 DEF Runs
  <2>2. f \in [Nat -> SUBSET Text] /\ f[0] = {question.from}
    <3> HIDE DEF g
    <3> QED BY <1>1 DEF Runs
  <2>3. ASSUME NEW n \in Nat PROVE g[<<n, f[n]>>] = Wider(f[n])
    <3>1. f[n] \in SUBSET Text
      BY <2>2
    <3> QED BY <3>1
  <2> HIDE DEF g
  <2> QED BY <2>1, <2>2, <2>3
<1>3. f = Body(f)
  <2> HIDE DEF g
  <2>1. ASSUME NEW h \in Nat PROVE f[h] = IF h = 0 THEN {question.from} ELSE Wider(f[h - 1])
    <3>1. CASE h = 0
      BY <3>1, <1>2
    <3>2. CASE h # 0
      <4>1. h - 1 \in Nat /\ (h - 1) + 1 = h
        BY <3>2
      <4>2. f[(h - 1) + 1] = Wider(f[h - 1])
        BY <4>1, <1>2
      <4> QED BY <4>1, <4>2, <3>2
    <3> QED BY <3>1, <3>2
  <2>2. f = [h \in Nat |-> f[h]]
    BY <1>2
  <2> QED BY <2>1, <2>2
<1>4. H = Body(H)
  <2> HIDE DEF Body
  <2> QED BY <1>3
<1>5. Ball = H
  BY DEF Ball, Wider
<1>6. DOMAIN Ball = Nat /\ \A h \in Nat : Ball[h] = IF h = 0 THEN {question.from} ELSE Wider(Ball[h - 1])
  <2> HIDE DEF H
  <2>1. Ball = Body(Ball)
    BY <1>4, <1>5
  <2>2. Body(Ball) = [h \in Nat |-> IF h = 0 THEN {question.from} ELSE Wider(Ball[h - 1])]
    OBVIOUS
  <2> HIDE DEF Body
  <2> QED BY <2>1, <2>2
<1>7. \A h \in Nat : Ball[h + 1] = Wider(Ball[h])
  <2> TAKE h \in Nat
  <2>1. h + 1 \in Nat /\ h + 1 # 0 /\ (h + 1) - 1 = h
    OBVIOUS
  <2> QED BY <2>1, <1>6
<1>8. \A h \in Nat : Ball[h] \in SUBSET Text
  <2> DEFINE I == {h \in Nat : Ball[h] \in SUBSET Text}
  <2>1. 0 \in I
    BY <1>0, <1>6
  <2>2. ASSUME NEW h \in I PROVE h + 1 \in I
    BY <1>7 DEF Wider
  <2>3. I \in SUBSET Nat
    OBVIOUS
  <2> HIDE DEF I
  <2>4. I = Nat
    BY <2>1, <2>2, <2>3, Induct
  <2> QED BY <2>4 DEF I
<1>9. Ball = [h \in Nat |-> Ball[h]]
  <2>1. H = [h \in Nat |-> H[h]]
    <3> HIDE DEF H
    <3>1. Body(H) = [h \in Nat |-> Body(H)[h]]
      OBVIOUS
    <3> HIDE DEF Body
    <3> QED BY <3>1, <1>4
  <2> HIDE DEF H
  <2> QED BY <2>1, <1>5
<1> HIDE DEF H, g, Body
<1>10. Ball \in [Nat -> SUBSET Text]
  BY <1>8, <1>9
<1> QED BY <1>6, <1>7, <1>10 DEF Balls

\* Those facts determine it.
LEMMA BallsAlike ==
  ASSUME NEW b, NEW c, Balls(b), Balls(c), NEW n \in Nat
  PROVE  b[n] = c[n]
<1> DEFINE I == {h \in Nat : b[h] = c[h]}
<1>1. 0 \in I
  BY DEF Balls
<1>2. ASSUME NEW h \in I PROVE h + 1 \in I
  <2>1. h \in Nat /\ h + 1 \in Nat /\ b[h] = c[h]
    OBVIOUS
  <2>2. b[h + 1] = c[h + 1]
    BY <2>1 DEF Balls
  <2> QED BY <2>1, <2>2
<1>3. I \in SUBSET Nat
  OBVIOUS
<1> HIDE DEF I
<1>4. I = Nat
  BY <1>1, <1>2, <1>3, Induct
<1> QED BY <1>4 DEF I

\* two sequences without repetition, of different members
LEMMA ConcatInjective ==
  ASSUME NEW T, NEW s \in Seq(T), NEW t \in Seq(T),
         IsInjective(s), IsInjective(t), Range(s) \cap Range(t) = {}
  PROVE  IsInjective(s \o t)
<1> DEFINE u == s \o t
           M == Len(s)
           N == Len(t)
<1>1. /\ M \in Nat /\ N \in Nat /\ DOMAIN u = 1..(M + N) /\ DOMAIN s = 1..M /\ DOMAIN t = 1..N
      /\ \A i \in 1..M : u[i] = s[i]
      /\ \A i \in 1..N : u[M + i] = t[i]
  OBVIOUS
<1> HIDE DEF u, M, N
<1>2. ASSUME NEW i \in DOMAIN u
      PROVE  \/ i \in DOMAIN s /\ u[i] = s[i]
             \/ i - M \in DOMAIN t /\ u[i] = t[i - M]
  <2>1. CASE i <= M
    BY <2>1, <1>1
  <2>2. CASE i > M
    <3>1. i - M \in 1..N /\ M + (i - M) = i
      BY <2>2, <1>1
    <3> QED BY <3>1, <1>1
  <2> QED BY <2>1, <2>2, <1>1
<1> SUFFICES ASSUME NEW i \in DOMAIN u, NEW j \in DOMAIN u, u[i] = u[j] PROVE i = j
  BY DEF IsInjective, u
<1>3. i \in Int /\ j \in Int
  BY <1>1
<1>4. CASE i \in DOMAIN s /\ u[i] = s[i] /\ j \in DOMAIN s /\ u[j] = s[j]
  BY <1>4 DEF IsInjective
<1>5. CASE i - M \in DOMAIN t /\ u[i] = t[i - M] /\ j - M \in DOMAIN t /\ u[j] = t[j - M]
  <2>1. i - M = j - M
    BY <1>5 DEF IsInjective
  <2> QED BY <2>1, <1>1, <1>3
<1>6. CASE i \in DOMAIN s /\ u[i] = s[i] /\ j - M \in DOMAIN t /\ u[j] = t[j - M]
  <2>1. u[i] \in Range(s) /\ u[i] \in Range(t)
    BY <1>6 DEF Range
  <2> QED BY <2>1
<1>7. CASE j \in DOMAIN s /\ u[j] = s[j] /\ i - M \in DOMAIN t /\ u[i] = t[i - M]
  <2>1. u[i] \in Range(s) /\ u[i] \in Range(t)
    BY <1>7 DEF Range
  <2> QED BY <2>1
<1> QED BY <1>2, <1>4, <1>5, <1>6, <1>7

-----------------------------------------------------------------------------
(* The inductive invariant *)

\* what a trace has found after the hops 1 to hop - 1
Found(b) ==
  /\ Balls(b)
  /\ seen = b[hop - 1]
  /\ Range(frontier) = IF hop = 1 THEN b[0] ELSE b[hop - 1] \ b[hop - 2]
  /\ Range(hits) = {r \in [id : Text, depth : Nat] :
                      r.depth \in 1..(hop - 1) /\ r.id \in b[r.depth] \ b[r.depth - 1]}

\* A trace has found what is within the hops made, each symbol once.
SInv ==
  /\ question \in Questions
  /\ hop \in Nat
  /\ frontier \in Seq(Text)
  /\ hits \in Seq([id : Text, depth : Nat])
  /\ IsInjective(hits)
  /\ hop = 0 => frontier = <<question.from>> /\ seen = {question.from} /\ hits = <<>>
  /\ hop > 0 => \E b : Found(b)

\* A trace starts at its symbol.
LEMMA SInvInit == LookupInit => SInv
<1> SUFFICES ASSUME LookupInit PROVE SInv
  OBVIOUS
<1>1. question.from \in Text
  BY QuestionEdges DEF LookupInit
<1>2. IsInjective(<<>>)
  BY DEF IsInjective
<1> QED BY <1>1, <1>2 DEF LookupInit, SInv

\* A lookup begins the trace.
LEMMA SInvResolve == SInv /\ ResolveSymbol => SInv'
<1> SUFFICES ASSUME SInv, ResolveSymbol PROVE SInv'
  OBVIOUS
<1> USE DEF SInv, ResolveSymbol
<1>1. hop = 0 /\ hop' = 1
  OBVIOUS
<1>2. PICK b : Balls(b)
  BY BallBalls
<1>3. Balls(b)'
  BY <1>2 DEF Balls, Wider, Adjacent, Outbound, Inbound
<1>4. Range(<<question.from>>) = {question.from} /\ Range(<<>>) = {}
  BY DEF Range
<1>5. Found(b)'
  <2>1. (seen = b[hop - 1])'
    <3>1. seen' = {question.from} /\ hop' - 1 = 0 /\ b[0] = {question.from}
      BY <1>1, <1>2 DEF Balls
    <3> QED BY <3>1
  <2>2. (Range(frontier) = IF hop = 1 THEN b[0] ELSE b[hop - 1] \ b[hop - 2])'
    <3>1. Range(frontier)' = {question.from}
      BY <1>1, <1>4 DEF Range
    <3> QED BY <3>1, <1>1, <1>2 DEF Balls
  <2>3. Range(hits)' = {}
    BY <1>1, <1>4 DEF Range
  <2>4. ({r \in [id : Text, depth : Nat] :
           r.depth \in 1..(hop - 1) /\ r.id \in b[r.depth] \ b[r.depth - 1]})' = {}
    BY <1>1
  <2> QED BY <1>3, <2>1, <2>2, <2>3, <2>4 DEF Found
<1>6. (\E c : Found(c))'
  BY <1>5
<1> QED BY <1>6, <1>1

\* A hop adds the symbols one further away, with their distance.
LEMMA SInvHop == SInv /\ Hop => SInv'
<1> SUFFICES ASSUME SInv, Hop PROVE SInv'
  OBVIOUS
<1> DEFINE next == Step(Incident)
           new == [i \in DOMAIN next |-> [id |-> next[i], depth |-> hop]]
           Hits == [id : Text, depth : Nat]
           At(b, h) == {r \in Hits : r.depth \in 1..h /\ r.id \in b[r.depth] \ b[r.depth - 1]}
<1>1. /\ question \in Questions /\ hop \in Nat /\ hop > 0 /\ frontier \in Seq(Text)
      /\ hits \in Seq(Hits) /\ IsInjective(hits)
  BY QuestionEdges DEF SInv, Hop
<1>2. PICK b : Found(b)
  BY <1>1 DEF SInv
<1>3. /\ hop' = hop + 1 /\ question' = question /\ frontier' = next
      /\ seen' = seen \cup Range(next) /\ hits' = hits \o new
  BY DEF Hop
<1>4. /\ next \in Seq(Text) /\ IsInjective(next)
      /\ Range(next) = {x \in Text : \E m \in Range(frontier) : Adjacent(m, x)} \ seen
  BY <1>1, StepFinds
<1>5. /\ hop - 1 \in Nat /\ (hop - 1) + 1 = hop /\ b[hop] = Wider(b[hop - 1])
      /\ b \in [Nat -> SUBSET Text]
  <2>1. hop - 1 \in Nat /\ (hop - 1) + 1 = hop
    BY <1>1
  <2> QED BY <2>1, <1>2 DEF Found, Balls
<1> HIDE DEF next
<1>6. Range(next) = b[hop] \ b[hop - 1]
  <2>1. seen = b[hop - 1]
    BY <1>2 DEF Found
  <2>2. ASSUME NEW x \in Text, x \notin b[hop - 1]
        PROVE  (\E m \in Range(frontier) : Adjacent(m, x)) <=> \E m \in b[hop - 1] : Adjacent(m, x)
    <3>1. CASE hop = 1
      BY <3>1, <1>2 DEF Found
    <3>2. CASE hop # 1
      <4>1. hop - 2 \in Nat /\ (hop - 2) + 1 = hop - 1
        BY <3>2, <1>1
      <4>2. b[hop - 1] = Wider(b[hop - 2])
        BY <4>1, <1>2 DEF Found, Balls
      <4>3. Range(frontier) = b[hop - 1] \ b[hop - 2]
        BY <3>2, <1>2 DEF Found
      <4>4. \A m \in b[hop - 2] : ~Adjacent(m, x)
        BY <2>2, <4>2 DEF Wider
      <4>5. b[hop - 2] \subseteq b[hop - 1]
        BY <4>2 DEF Wider
      <4> QED BY <4>3, <4>4, <4>5
    <3> QED BY <3>1, <3>2
  <2>3. b[hop] = b[hop - 1] \cup {x \in Text : \E m \in b[hop - 1] : Adjacent(m, x)}
    BY <1>5 DEF Wider
  <2> QED BY <2>1, <2>2, <2>3, <1>4
<1>7. DOMAIN next = 1..Len(next) /\ Len(next) \in Nat /\ \A i \in DOMAIN next : next[i] \in Text
  BY <1>4
<1>8. new \in Seq(Hits)
  BY <1>7, <1>1
<1>9. IsInjective(new)
  BY <1>4 DEF IsInjective
<1>10. Range(new) = {r \in Hits : r.depth = hop /\ r.id \in Range(next)}
  <2>1. ASSUME NEW r \in Range(new) PROVE r \in Hits /\ r.depth = hop /\ r.id \in Range(next)
    <3>1. PICK i \in DOMAIN next : r = [id |-> next[i], depth |-> hop]
      BY <2>1 DEF Range
    <3>2. next[i] \in Range(next) /\ next[i] \in Text
      BY <1>7 DEF Range
    <3> QED BY <3>1, <3>2, <1>1
  <2>2. ASSUME NEW r \in Hits, r.depth = hop, r.id \in Range(next) PROVE r \in Range(new)
    <3>1. PICK i \in DOMAIN next : r.id = next[i]
      BY <2>2 DEF Range
    <3>2. r = [id |-> next[i], depth |-> hop]
      BY <2>2, <3>1
    <3>3. i \in DOMAIN new /\ new[i] = r
      BY <3>2
    <3> HIDE DEF new
    <3> QED BY <3>3 DEF Range
  <2> HIDE DEF new
  <2> QED BY <2>1, <2>2
<1> HIDE DEF new
<1>11. Range(hits) = At(b, hop - 1)
  BY <1>2 DEF Found
<1>12. IsInjective(hits \o new) /\ hits \o new \in Seq(Hits) /\ Range(hits \o new) = Range(hits) \cup Range(new)
  <2>1. ASSUME NEW r \in Range(hits) \cap Range(new) PROVE FALSE
    <3>1. r.depth \in 1..(hop - 1) /\ r.depth = hop
      BY <2>1, <1>10, <1>11
    <3> QED BY <3>1, <1>1
  <2> HIDE DEF Hits, At
  <2>2. IsInjective(hits \o new)
    BY <2>1, <1>1, <1>8, <1>9, ConcatInjective
  <2> QED BY <2>2, <1>1, <1>8, RangeConcat
<1>13. At(b, hop - 1) \cup {r \in Hits : r.depth = hop /\ r.id \in b[hop] \ b[hop - 1]} = At(b, hop)
  <2>1. ASSUME NEW r \in Hits PROVE r.depth \in 1..hop <=> r.depth \in 1..(hop - 1) \/ r.depth = hop
    BY <1>1
  <2> QED BY <2>1
<1>14. Found(b)'
  <2>1. Balls(b)'
    BY <1>2, <1>3 DEF Found, Balls, Wider, Adjacent, Outbound, Inbound
  <2>2. (hop - 1)' = hop /\ (hop - 2)' = hop - 1 /\ (hop = 1)' = FALSE
    BY <1>1, <1>3
  <2>3. (seen = b[hop - 1])'
    <3>1. seen' = b[hop - 1] \cup (b[hop] \ b[hop - 1])
      BY <1>2, <1>3, <1>6 DEF Found
    <3>2. seen' = b[hop]
      BY <3>1, <1>5 DEF Wider
    <3> QED BY <3>2, <2>2
  <2>4. (Range(frontier) = IF hop = 1 THEN b[0] ELSE b[hop - 1] \ b[hop - 2])'
    <3>1. Range(frontier)' = Range(next)
      BY <1>3 DEF Range
    <3> QED BY <3>1, <2>2, <1>6
  <2>5. Range(hits)' = At(b, hop)
    <3>1. Range(hits)' = Range(hits \o new)
      BY <1>3 DEF Range
    <3> HIDE DEF At, Hits
    <3> QED BY <3>1, <1>6, <1>10, <1>11, <1>12, <1>13
  <2>6. (Range(hits) = {r \in [id : Text, depth : Nat] :
           r.depth \in 1..(hop - 1) /\ r.id \in b[r.depth] \ b[r.depth - 1]})'
    BY <2>2, <2>5
  <2> QED BY <2>1, <2>3, <2>4, <2>6 DEF Found
<1>15. (\E c : Found(c))'
  BY <1>14
<1>16. hop' \in Nat /\ hop' # 0 /\ question' \in Questions /\ frontier' \in Seq(Text)
  BY <1>1, <1>3, <1>4
<1> QED BY <1>3, <1>12, <1>15, <1>16 DEF SInv, IsInjective

\* every step preserves the invariant
LEMMA SInvHolds == LookupSpec => []SInv
<1>1. SInv /\ [LookupNext]_lookupVars => SInv'
  <2> SUFFICES ASSUME SInv, [LookupNext]_lookupVars PROVE SInv'
    OBVIOUS
  <2>1. CASE ResolveSymbol
    BY <2>1, SInvResolve
  <2>2. CASE Hop
    BY <2>2, SInvHop
  <2>3. CASE UNCHANGED lookupVars
    <3>1. UNCHANGED <<question, found, hop, seen, frontier, hits>>
      BY <2>3 DEF lookupVars
    <3>2. ASSUME NEW b, Found(b) PROVE Found(b)'
      <4>1. Balls(b)'
        BY <3>1, <3>2 DEF Found, Balls, Wider, Adjacent, Outbound, Inbound
      <4>2. Range(frontier)' = Range(frontier) /\ Range(hits)' = Range(hits)
        BY <3>1 DEF Range
      <4> QED BY <3>1, <3>2, <4>1, <4>2 DEF Found
    <3>3. hop > 0 => (\E b : Found(b))'
      BY <3>2 DEF SInv
    <3>4. IsInjective(hits)'
      BY <3>1 DEF SInv, IsInjective
    <3> QED BY <3>1, <3>3, <3>4 DEF SInv
  <2> QED BY <2>1, <2>2, <2>3 DEF LookupNext
<1> QED BY <1>1, SInvInit, PTL DEF LookupSpec

\* A trace reads only the edges at its frontier, and finds what reading all edges would, in the
\* same order: every symbol within the hops made, once, with its distance
\* (StoreEngine::dependency_trace).
THEOREM TracesAgree == LookupSpec => []TraceAgrees
<1>1. SInv => TraceAgrees
  <2> SUFFICES ASSUME SInv PROVE TraceAgrees
    OBVIOUS
  <2>1. Step(Incident) = Step(question.edges)
    BY StepFinds DEF SInv
  <2>2. IsInjective(hits)
    BY DEF SInv
  <2>3. ASSUME hop > 0
        PROVE  LET near == {p \in Text \X (1..(hop - 1)) : p[1] \in Ball[p[2]] \ Ball[p[2] - 1]}
               IN Range(hits) = {[id |-> p[1], depth |-> p[2]] : p \in near}
    <3> DEFINE near == {p \in Text \X (1..(hop - 1)) : p[1] \in Ball[p[2]] \ Ball[p[2] - 1]}
    <3>1. PICK b : Found(b)
      BY <2>3 DEF SInv
    <3>2. \A n \in Nat : b[n] = Ball[n]
      BY <3>1, BallBalls, BallsAlike DEF Found, SInv
    <3>3. hop \in Nat
      BY DEF SInv
    <3>4. \A n \in 1..(hop - 1) : n \in Nat /\ n - 1 \in Nat
      BY <3>3
    <3>5. Range(hits) = {r \in [id : Text, depth : Nat] :
                          r.depth \in 1..(hop - 1) /\ r.id \in Ball[r.depth] \ Ball[r.depth - 1]}
      BY <3>1, <3>2, <3>4 DEF Found
    <3>6. ASSUME NEW r \in Range(hits) PROVE r \in {[id |-> p[1], depth |-> p[2]] : p \in near}
      <4>1. /\ r \in [id : Text, depth : Nat] /\ r.depth \in 1..(hop - 1)
            /\ r.id \in Ball[r.depth] \ Ball[r.depth - 1]
        BY <3>5, <3>6
      <4>2. <<r.id, r.depth>> \in near /\ r = [id |-> r.id, depth |-> r.depth]
        BY <4>1
      <4> QED BY <4>2
    <3>7. ASSUME NEW p \in near PROVE [id |-> p[1], depth |-> p[2]] \in Range(hits)
      <4>1. p[1] \in Text /\ p[2] \in 1..(hop - 1) /\ p[1] \in Ball[p[2]] \ Ball[p[2] - 1]
        OBVIOUS
      <4>2. p[2] \in Nat
        BY <4>1, <3>4
      <4> QED BY <3>5, <4>1, <4>2
    <3> HIDE DEF near
    <3>8. Range(hits) = {[id |-> p[1], depth |-> p[2]] : p \in near}
      BY <3>6, <3>7
    <3> QED BY <3>8 DEF near
  <2> QED BY <2>1, <2>2, <2>3 DEF TraceAgrees
<1> QED BY <1>1, SInvHolds, PTL

-----------------------------------------------------------------------------
(* Sums *)

\* induction over finite sets
LEMMA FinInduct ==
  ASSUME NEW S, IsFiniteSet(S), NEW G,
         \A D \in SUBSET S : (\A x \in D : D \ {x} \in G) => D \in G
  PROVE  S \in G
<1> DEFINE I == {n \in Nat : \A D \in SUBSET S : Cardinality(D) = n => D \in G}
<1>1. \A D \in SUBSET S : IsFiniteSet(D) /\ Cardinality(D) \in Nat
  BY FS_Subset, FS_CardinalityType
<1>2. 0 \in I
  <2> SUFFICES ASSUME NEW D \in SUBSET S, Cardinality(D) = 0 PROVE D \in G
    OBVIOUS
  <2>1. D = {}
    BY <1>1, FS_EmptySet
  <2> QED BY <2>1
<1>3. ASSUME NEW n \in I PROVE n + 1 \in I
  <2> SUFFICES ASSUME NEW D \in SUBSET S, Cardinality(D) = n + 1 PROVE D \in G
    OBVIOUS
  <2>1. ASSUME NEW x \in D PROVE D \ {x} \in G
    <3>1. Cardinality(D \ {x}) = Cardinality(D) - 1
      BY <1>1, FS_RemoveElement
    <3>2. n \in Nat /\ D \ {x} \in SUBSET S
      OBVIOUS
    <3>3. Cardinality(D \ {x}) = n
      BY <3>1, <3>2
    <3> QED BY <3>2, <3>3
  <2> QED BY <2>1
<1>4. Cardinality(S) \in I
  <2>1. I \in SUBSET Nat
    OBVIOUS
  <2> HIDE DEF I
  <2>2. I = Nat
    BY <2>1, <1>2, <1>3, Induct
  <2> QED BY <2>2, <1>1
<1> QED BY <1>4

\* which member is added next
Next1(D) == CHOOSE x \in D : TRUE

\* it adds up the values of f over the subsets of S
Sums(it, f, S) ==
  it = [D \in SUBSET S |-> IF D = {} THEN 0 ELSE f[Next1(D)] + it[D \ {Next1(D)}]]

\* a sum, as what some function over the subsets of the domain adds up to
LEMMA TotalIs ==
  ASSUME NEW f
  PROVE  Total(f) = (CHOOSE it : Sums(it, f, DOMAIN f))[DOMAIN f]
BY DEF Total, FoldFunction, FoldFunctionOnSet, MapThenFoldSet, Sums, Next1

\* There is such a function: it settles for the subsets of n members after n steps.
LEMMA SumsExist ==
  ASSUME NEW S, IsFiniteSet(S), NEW f \in [S -> Int]
  PROVE  \E it \in [SUBSET S -> Int] : Sums(it, f, S)
<1> DEFINE V == [SUBSET S -> Int]
           Add(h) == [D \in SUBSET S |-> IF D = {} THEN 0 ELSE f[Next1(D)] + h[D \ {Next1(D)}]]
           g == [p \in Nat \X V |-> Add(p[2])]
           zero == [D \in SUBSET S |-> 0]
<1>1. \A D \in SUBSET S : D # {} => Next1(D) \in D
  BY DEF Next1
<1>2. ASSUME NEW h \in V PROVE Add(h) \in V
  <2> SUFFICES ASSUME NEW D \in SUBSET S, D # {} PROVE f[Next1(D)] + h[D \ {Next1(D)}] \in Int
    OBVIOUS
  <2>1. Next1(D) \in S /\ D \ {Next1(D)} \in SUBSET S
    BY <1>1
  <2> QED BY <2>1
<1>3. Maps(g, V)
  <2> HIDE DEF Add
  <2>1. \A p \in Nat \X V : Add(p[2]) \in V
    BY <1>2
  <2> HIDE DEF V
  <2> QED BY <2>1 DEF Maps
<1>4. PICK F : Runs(F, zero, g, V)
  <2>1. zero \in V
    OBVIOUS
  <2> HIDE DEF V, g, zero
  <2> QED BY <2>1, <1>3, Steps
<1>5. F \in [Nat -> V] /\ \A n \in Nat : F[n] \in V /\ F[n + 1] = Add(F[n])
  <2>1. F \in [Nat -> V] /\ \A n \in Nat : F[n + 1] = g[<<n, F[n]>>]
    BY <1>4 DEF Runs
  <2> HIDE DEF V, Add
  <2>2. ASSUME NEW n \in Nat PROVE F[n] \in V /\ g[<<n, F[n]>>] = Add(F[n])
    <3>1. F[n] \in V
      BY <2>1
    <3>2. <<n, F[n]>> \in Nat \X V /\ <<n, F[n]>>[2] = F[n]
      BY <3>1
    <3> QED BY <3>1, <3>2
  <2> QED BY <2>1, <2>2
<1> DEFINE it == [D \in SUBSET S |-> F[Cardinality(D)][D]]
<1>6. \A D \in SUBSET S : IsFiniteSet(D) /\ Cardinality(D) \in Nat
  BY FS_Subset, FS_CardinalityType
<1>7. it \in V
  BY <1>5, <1>6
<1>8. ASSUME NEW D \in SUBSET S
      PROVE  it[D] = IF D = {} THEN 0 ELSE f[Next1(D)] + it[D \ {Next1(D)}]
  <2>1. CASE D = {}
    <3>1. Cardinality(D) = 0
      BY <2>1, FS_EmptySet
    <3>2. F[0] = zero
      BY <1>4 DEF Runs
    <3> QED BY <3>1, <3>2, <2>1
  <2>2. CASE D # {}
    <3> DEFINE x == Next1(D)
               E == D \ {x}
    <3>1. x \in D /\ E \in SUBSET S
      BY <1>1, <2>2
    <3>2. Cardinality(E) = Cardinality(D) - 1
      BY <3>1, <1>6, FS_RemoveElement
    <3> DEFINE n == Cardinality(E)
    <3>3. n \in Nat /\ Cardinality(D) = n + 1
      BY <3>1, <3>2, <1>6
    <3>4. it[D] = F[n + 1][D] /\ it[E] = F[n][E]
      BY <3>3, <3>1
    <3>5. F[n + 1][D] = f[x] + F[n][E]
      <4> HIDE DEF n, it
      <4>1. F[n + 1] = Add(F[n])
        BY <1>5, <3>3
      <4> QED BY <4>1, <2>2
    <3> QED BY <3>4, <3>5, <2>2
  <2> QED BY <2>1, <2>2
<1>9. Sums(it, f, S)
  <2> HIDE DEF it
  <2>1. it = [D \in SUBSET S |-> it[D]]
    BY <1>7
  <2> QED BY <2>1, <1>8 DEF Sums
<1> QED BY <1>7, <1>9

\* sums of what agrees on D agree on D
LEMMA SumsAlike ==
  ASSUME NEW S, IsFiniteSet(S), NEW f, NEW D \in SUBSET S, NEW h,
         \A x \in D : f[x] = h[x],
         NEW i, Sums(i, f, S), NEW j, Sums(j, h, D)
  PROVE  i[D] = j[D]
<1> DEFINE G == {E \in SUBSET D : i[E] = j[E]}
<1>1. ASSUME NEW E \in SUBSET D, \A x \in E : E \ {x} \in G PROVE E \in G
  <2>0. /\ i[E] = IF E = {} THEN 0 ELSE f[Next1(E)] + i[E \ {Next1(E)}]
        /\ j[E] = IF E = {} THEN 0 ELSE h[Next1(E)] + j[E \ {Next1(E)}]
    <3>1. E \in SUBSET S
      OBVIOUS
    <3> QED BY <3>1 DEF Sums
  <2>1. CASE E = {}
    BY <2>0, <2>1
  <2>2. CASE E # {}
    <3>1. Next1(E) \in E
      BY <2>2 DEF Next1
    <3>2. i[E \ {Next1(E)}] = j[E \ {Next1(E)}] /\ f[Next1(E)] = h[Next1(E)]
      BY <3>1, <1>1
    <3> QED BY <2>0, <2>2, <3>2
  <2> QED BY <2>1, <2>2
<1>2. IsFiniteSet(D)
  BY FS_Subset
<1> HIDE DEF G
<1>3. D \in G
  BY <1>1, <1>2, FinInduct
<1> QED BY <1>3 DEF G

\* A sum does not depend on the order in which it is made.
LEMMA TotalLaw ==
  ASSUME NEW S, IsFiniteSet(S), NEW f \in [S -> Int]
  PROVE  /\ Total(f) \in Int
         /\ S = {} => Total(f) = 0
         /\ \A x \in S : Total(f) = f[x] + Total([y \in S \ {x} |-> f[y]])
<1>1. PICK it \in [SUBSET S -> Int] : Sums(it, f, S)
  BY SumsExist
<1>2. ASSUME NEW D \in SUBSET S PROVE Total([y \in D |-> f[y]]) = it[D]
  <2> DEFINE h == [y \in D |-> f[y]]
             j == CHOOSE k : Sums(k, h, D)
  <2>1. IsFiniteSet(D) /\ h \in [D -> Int] /\ DOMAIN h = D /\ \A x \in D : f[x] = h[x]
    BY FS_Subset
  <2> HIDE DEF h
  <2>2. \E k : Sums(k, h, D)
    BY <2>1, SumsExist
  <2>3. Sums(j, h, D)
    BY <2>2
  <2>4. Total(h) = j[D]
    BY <2>1, TotalIs
  <2> HIDE DEF j
  <2>5. it[D] = j[D]
    BY <2>1, <2>3, <1>1, SumsAlike
  <2> QED BY <2>4, <2>5 DEF h
<1>3. Total(f) = it[S]
  <2>1. f = [y \in S |-> f[y]]
    OBVIOUS
  <2> QED BY <2>1, <1>2
<1>4. \A D \in SUBSET S : it[D] = IF D = {} THEN 0 ELSE f[Next1(D)] + it[D \ {Next1(D)}]
  BY <1>1 DEF Sums
<1> DEFINE G == {D \in SUBSET S : \A x \in D : it[D] = f[x] + it[D \ {x}]}
<1>5. ASSUME NEW D \in SUBSET S, \A x \in D : D \ {x} \in G PROVE D \in G
  <2> SUFFICES ASSUME NEW x \in D PROVE it[D] = f[x] + it[D \ {x}]
    OBVIOUS
  <2> DEFINE c == Next1(D)
  <2>1. c \in D /\ it[D] = f[c] + it[D \ {c}]
    BY <1>4 DEF Next1
  <2>2. CASE x = c
    BY <2>1, <2>2
  <2>3. CASE x # c
    <3> HIDE DEF c
    <3>1. it[D \ {c}] = f[x] + it[(D \ {c}) \ {x}]
      BY <1>5, <2>1, <2>3
    <3>2. it[D \ {x}] = f[c] + it[(D \ {x}) \ {c}]
      BY <1>5, <2>1, <2>3
    <3>3. (D \ {c}) \ {x} = (D \ {x}) \ {c}
      OBVIOUS
    <3> DEFINE r == it[(D \ {x}) \ {c}]
    <3>4. f[x] \in Int /\ f[c] \in Int /\ r \in Int
      <4>1. x \in S /\ c \in S /\ (D \ {x}) \ {c} \in SUBSET S
        BY <2>1
      <4> QED BY <4>1, <1>1
    <3>5. it[D] = f[c] + (f[x] + r) /\ it[D \ {x}] = f[c] + r
      BY <2>1, <3>1, <3>2, <3>3
    <3> HIDE DEF r
    <3> QED BY <3>4, <3>5
  <2> QED BY <2>2, <2>3
<1> HIDE DEF G
<1>6. S \in G
  BY <1>5, FinInduct
<1>7. \A x \in S : it[S] = f[x] + it[S \ {x}]
  BY <1>6 DEF G
<1>8. S = {} => it[S] = 0
  BY <1>4
<1>9. \A x \in S : Total([y \in S \ {x} |-> f[y]]) = it[S \ {x}]
  BY <1>2
<1> QED BY <1>1, <1>3, <1>7, <1>8, <1>9

\* the sum of f over D
Part(f, D) == Total([y \in D |-> f[y]])

\* the same for the sum over a part of the domain
LEMMA PartLaw ==
  ASSUME NEW S, IsFiniteSet(S), NEW f \in [S -> Int], NEW D \in SUBSET S
  PROVE  /\ Part(f, D) \in Int
         /\ D = {} => Part(f, D) = 0
         /\ \A x \in D : Part(f, D) = f[x] + Part(f, D \ {x})
         /\ Part(f, S) = Total(f)
<1> DEFINE h == [y \in D |-> f[y]]
<1>1. IsFiniteSet(D) /\ h \in [D -> Int]
  BY FS_Subset
<1>2. \A x \in D : h[x] = f[x] /\ [y \in D \ {x} |-> h[y]] = [y \in D \ {x} |-> f[y]]
  OBVIOUS
<1>3. Part(f, D) = Total(h)
  BY DEF Part
<1>4. f = [y \in S |-> f[y]]
  OBVIOUS
<1>5. Part(f, S) = Total(f)
  BY <1>4 DEF Part
<1> HIDE DEF h
<1>6. /\ Total(h) \in Int
      /\ D = {} => Total(h) = 0
      /\ \A x \in D : Total(h) = h[x] + Total([y \in D \ {x} |-> h[y]])
  BY <1>1, TotalLaw
<1>7. \A x \in D : Total(h) = f[x] + Part(f, D \ {x})
  BY <1>6, <1>2 DEF Part
<1> QED BY <1>3, <1>5, <1>6, <1>7

\* sums, member by member
LEMMA TotalPlus ==
  ASSUME NEW S, IsFiniteSet(S), NEW f \in [S -> Int], NEW h \in [S -> Int]
  PROVE  Total([x \in S |-> f[x] + h[x]]) = Total(f) + Total(h)
<1> DEFINE k == [x \in S |-> f[x] + h[x]]
           G == {D \in SUBSET S : Part(k, D) = Part(f, D) + Part(h, D)}
<1>1. k \in [S -> Int] /\ \A x \in S : k[x] = f[x] + h[x]
  OBVIOUS
<1> HIDE DEF k
<1>2. ASSUME NEW D \in SUBSET S, \A x \in D : D \ {x} \in G PROVE D \in G
  <2>1. CASE D = {}
    <3>1. Part(k, D) = 0 /\ Part(f, D) = 0 /\ Part(h, D) = 0
      BY <2>1, <1>1, PartLaw
    <3> QED BY <3>1
  <2>2. CASE D # {}
    <3>1. PICK x \in D : TRUE
      BY <2>2
    <3> DEFINE E == D \ {x}
    <3>2. /\ Part(k, D) = k[x] + Part(k, E)
          /\ Part(f, D) = f[x] + Part(f, E)
          /\ Part(h, D) = h[x] + Part(h, E)
      BY <1>1, PartLaw
    <3>3. Part(k, E) = Part(f, E) + Part(h, E)
      BY <1>2
    <3>4. E \in SUBSET S /\ f[x] \in Int /\ h[x] \in Int /\ k[x] = f[x] + h[x]
      BY <1>1
    <3> HIDE DEF E
    <3>5. Part(f, E) \in Int /\ Part(h, E) \in Int
      BY <3>4, PartLaw
    <3>6. Part(k, D) = Part(f, D) + Part(h, D)
      BY <3>2, <3>3, <3>4, <3>5
    <3> QED BY <3>6
  <2> QED BY <2>1, <2>2
<1> HIDE DEF G
<1>3. S \in G
  BY <1>2, FinInduct
<1>4. Part(k, S) = Part(f, S) + Part(h, S)
  BY <1>3 DEF G
<1>5. Part(k, S) = Total(k) /\ Part(f, S) = Total(f) /\ Part(h, S) = Total(h)
  BY <1>1, PartLaw
<1> QED BY <1>4, <1>5 DEF k

\* what is less everywhere is less in sum
LEMMA TotalLe ==
  ASSUME NEW S, IsFiniteSet(S), NEW f \in [S -> Int], NEW h \in [S -> Int],
         \A x \in S : f[x] <= h[x]
  PROVE  Total(f) <= Total(h)
<1> DEFINE G == {D \in SUBSET S : Part(f, D) <= Part(h, D)}
<1>2. ASSUME NEW D \in SUBSET S, \A x \in D : D \ {x} \in G PROVE D \in G
  <2>1. CASE D = {}
    <3>1. Part(f, D) = 0 /\ Part(h, D) = 0
      BY <2>1, PartLaw
    <3> QED BY <3>1
  <2>2. CASE D # {}
    <3>1. PICK x \in D : TRUE
      BY <2>2
    <3> DEFINE E == D \ {x}
    <3>2. Part(f, D) = f[x] + Part(f, E) /\ Part(h, D) = h[x] + Part(h, E)
      BY PartLaw
    <3>3. Part(f, E) <= Part(h, E)
      BY <1>2
    <3>4. E \in SUBSET S /\ f[x] \in Int /\ h[x] \in Int /\ f[x] <= h[x]
      OBVIOUS
    <3> HIDE DEF E
    <3>5. Part(f, E) \in Int /\ Part(h, E) \in Int
      BY <3>4, PartLaw
    <3>6. Part(f, D) <= Part(h, D)
      BY <3>2, <3>3, <3>4, <3>5
    <3> QED BY <3>6
  <2> QED BY <2>1, <2>2
<1> HIDE DEF G
<1>3. S \in G
  BY <1>2, FinInduct
<1>4. Part(f, S) <= Part(h, S)
  BY <1>3 DEF G
<1>5. Part(f, S) = Total(f) /\ Part(h, S) = Total(h)
  BY PartLaw
<1> QED BY <1>4, <1>5

\* a common factor
LEMMA TotalScale ==
  ASSUME NEW S, IsFiniteSet(S), NEW f \in [S -> Int], NEW c \in Int
  PROVE  Total([x \in S |-> c * f[x]]) = c * Total(f)
<1> DEFINE k == [x \in S |-> c * f[x]]
           G == {D \in SUBSET S : Part(k, D) = c * Part(f, D)}
<1>1. k \in [S -> Int] /\ \A x \in S : k[x] = c * f[x]
  OBVIOUS
<1> HIDE DEF k
<1>2. ASSUME NEW D \in SUBSET S, \A x \in D : D \ {x} \in G PROVE D \in G
  <2>1. CASE D = {}
    <3>1. Part(k, D) = 0 /\ Part(f, D) = 0
      BY <2>1, <1>1, PartLaw
    <3> QED BY <3>1
  <2>2. CASE D # {}
    <3>1. PICK x \in D : TRUE
      BY <2>2
    <3> DEFINE E == D \ {x}
    <3>2. /\ Part(k, D) = k[x] + Part(k, E)
          /\ Part(f, D) = f[x] + Part(f, E)
      BY <1>1, PartLaw
    <3>3. Part(k, E) = c * Part(f, E)
      BY <1>2
    <3>4. E \in SUBSET S /\ f[x] \in Int /\ k[x] = c * f[x]
      BY <1>1
    <3> HIDE DEF E
    <3>5. Part(f, E) \in Int
      BY <3>4, PartLaw
    <3>6. Part(k, D) = c * Part(f, D)
      <4>1. \A a, b \in Int : c * a + c * b = c * (a + b)
        OBVIOUS
      <4> QED BY <3>2, <3>3, <3>4, <3>5, <4>1
    <3> QED BY <3>6
  <2> QED BY <2>1, <2>2
<1> HIDE DEF G
<1>3. S \in G
  BY <1>2, FinInduct
<1>4. Part(k, S) = c * Part(f, S)
  BY <1>3 DEF G
<1>5. Part(k, S) = Total(k) /\ Part(f, S) = Total(f)
  BY <1>1, PartLaw
<1> QED BY <1>4, <1>5 DEF k

\* counting
LEMMA TotalOnes ==
  ASSUME NEW S, IsFiniteSet(S)
  PROVE  Total([x \in S |-> 1]) = Cardinality(S)
<1> DEFINE k == [x \in S |-> 1]
           G == {D \in SUBSET S : Part(k, D) = Cardinality(D)}
<1>1. k \in [S -> Int] /\ \A x \in S : k[x] = 1
  OBVIOUS
<1> HIDE DEF k
<1>2. ASSUME NEW D \in SUBSET S, \A x \in D : D \ {x} \in G PROVE D \in G
  <2>1. CASE D = {}
    <3>1. Part(k, D) = 0 /\ Cardinality(D) = 0
      BY <2>1, <1>1, PartLaw, FS_EmptySet
    <3> QED BY <3>1
  <2>2. CASE D # {}
    <3>1. PICK x \in D : TRUE
      BY <2>2
    <3>2. Part(k, D) = 1 + Part(k, D \ {x})
      BY <1>1, PartLaw
    <3>3. Part(k, D \ {x}) = Cardinality(D \ {x})
      BY <1>2
    <3>4. Cardinality(D) \in Nat /\ Cardinality(D \ {x}) = Cardinality(D) - 1
      BY FS_Subset, FS_RemoveElement, FS_CardinalityType
    <3>5. Part(k, D) = Cardinality(D)
      BY <3>2, <3>3, <3>4
    <3> QED BY <3>5
  <2> QED BY <2>1, <2>2
<1> HIDE DEF G
<1>3. S \in G
  BY <1>2, FinInduct
<1>4. Part(k, S) = Cardinality(S)
  BY <1>3 DEF G
<1>5. Part(k, S) = Total(k)
  BY <1>1, PartLaw
<1> QED BY <1>4, <1>5 DEF k

\* zeros do not count
LEMMA TotalSome ==
  ASSUME NEW S, IsFiniteSet(S), NEW f \in [S -> Int], NEW T \in SUBSET S,
         \A x \in S \ T : f[x] = 0
  PROVE  Total(f) = Part(f, T)
<1> DEFINE G == {D \in SUBSET S : Part(f, D) = Part(f, D \cap T)}
<1>2. ASSUME NEW D \in SUBSET S, \A x \in D : D \ {x} \in G PROVE D \in G
  <2>1. CASE D \in SUBSET T
    <3>1. D \cap T = D
      BY <2>1
    <3> QED BY <3>1
  <2>2. CASE D \notin SUBSET T
    <3>1. PICK x \in D : x \notin T
      BY <2>2
    <3>2. Part(f, D) = f[x] + Part(f, D \ {x}) /\ f[x] = 0
      BY <3>1, PartLaw
    <3>3. Part(f, D \ {x}) = Part(f, (D \ {x}) \cap T)
      BY <1>2
    <3>4. (D \ {x}) \cap T = D \cap T
      BY <3>1
    <3>5. Part(f, D \ {x}) \in Int
      BY PartLaw
    <3> DEFINE p == Part(f, D \ {x})
    <3> HIDE DEF p
    <3>6. Part(f, D) = p
      <4>1. Part(f, D) = 0 + p /\ p \in Int
        BY <3>2, <3>5 DEF p
      <4> QED BY <4>1
    <3> QED BY <3>3, <3>4, <3>6 DEF p
  <2> QED BY <2>1, <2>2
<1> HIDE DEF G
<1>3. S \in G
  BY <1>2, FinInduct
<1>4. Part(f, S) = Part(f, S \cap T) /\ S \cap T = T
  BY <1>3 DEF G
<1>5. Part(f, S) = Total(f)
  BY PartLaw
<1> QED BY <1>4, <1>5

\* one value changes
LEMMA TotalChange ==
  ASSUME NEW S, IsFiniteSet(S), NEW f \in [S -> Int], NEW h \in [S -> Int], NEW u \in S,
         \A x \in S \ {u} : f[x] = h[x]
  PROVE  Total(h) = Total(f) - f[u] + h[u]
<1>1. [y \in S \ {u} |-> f[y]] = [y \in S \ {u} |-> h[y]]
  OBVIOUS
<1>2. /\ Total(f) = f[u] + Total([y \in S \ {u} |-> f[y]])
      /\ Total(h) = h[u] + Total([y \in S \ {u} |-> h[y]])
  BY TotalLaw
<1>3. [y \in S \ {u} |-> f[y]] \in [S \ {u} -> Int] /\ IsFiniteSet(S \ {u})
  BY FS_Subset
<1>4. Total([y \in S \ {u} |-> f[y]]) \in Int
  BY <1>3, TotalLaw
<1>5. f[u] \in Int /\ h[u] \in Int
  OBVIOUS
<1> QED BY <1>1, <1>2, <1>4, <1>5

-----------------------------------------------------------------------------
(* Sequences without repetition *)

\* one member more
Also(S, out, x) == IF x \in S \ Range(out) THEN Append(out, x) ELSE out

\* f makes Firsts(s, S) step by step
Makes(f, s, S, T) ==
  /\ f \in [Nat -> Seq(T)]
  /\ f[0] = <<>>
  /\ \A i \in 1..Len(s) : f[i] = Also(S, f[i - 1], s[i])
  /\ Firsts(s, S) = f[Len(s)]

\* some function makes what Firsts gives, step by step
LEMMA FirstsSteps ==
  ASSUME NEW T, NEW s \in Seq(T), NEW S
  PROVE  \E f : Makes(f, s, S, T)
<1> DEFINE N == Len(s)
           g == [p \in Nat \X Seq(T) |-> IF p[1] + 1 <= N THEN Also(S, p[2], s[p[1] + 1]) ELSE p[2]]
           Body(h) == [i \in 0..N |-> IF i = 0 THEN <<>> ELSE Also(S, h[i - 1], s[i])]
           H == CHOOSE h : h = Body(h)
<1>0. N \in Nat /\ DOMAIN s = 1..N /\ \A i \in 1..N : s[i] \in T
  OBVIOUS
<1>a. ASSUME NEW out \in Seq(T), NEW x \in T PROVE Also(S, out, x) \in Seq(T)
  BY AppendProps DEF Also
<1>1. PICK f : Runs(f, <<>>, g, Seq(T))
  <2>1. ASSUME NEW n \in Nat, NEW out \in Seq(T) PROVE g[<<n, out>>] \in Seq(T)
    <3>1. g[<<n, out>>] = IF n + 1 <= N THEN Also(S, out, s[n + 1]) ELSE out
      <4> QED OBVIOUS
    <3>2. n + 1 <= N => s[n + 1] \in T
      BY <1>0
    <3> HIDE DEF g
    <3> QED BY <3>1, <3>2, <1>a
  <2>2. g \in [Nat \X Seq(T) -> Seq(T)]
    <3>1. ASSUME NEW p \in Nat \X Seq(T) PROVE g[p] \in Seq(T)
      <4>1. p[1] \in Nat /\ p[2] \in Seq(T) /\ p = <<p[1], p[2]>>
        OBVIOUS
      <4> HIDE DEF g
      <4> QED BY <4>1, <2>1
    <3> QED BY <3>1
  <2>3. Maps(g, Seq(T)) /\ <<>> \in Seq(T)
    BY <2>2 DEF Maps
  <2> HIDE DEF g
  <2> QED BY <2>3, Steps
<1>2. f[0] = <<>> /\ f \in [Nat -> Seq(T)]
  BY <1>1 DEF Runs
<1>3. ASSUME NEW i \in 1..N PROVE f[i] = Also(S, f[i - 1], s[i])
  <2>1. i - 1 \in Nat /\ (i - 1) + 1 = i /\ i <= N
    BY <1>0
  <2>2. f[(i - 1) + 1] = g[<<i - 1, f[i - 1]>>] /\ f[i - 1] \in Seq(T)
    <3> HIDE DEF g
    <3> QED BY <1>1, <2>1 DEF Runs
  <2>3. g[<<i - 1, f[i - 1]>>] = Also(S, f[i - 1], s[(i - 1) + 1])
    <3> QED BY <2>1, <2>2
  <2> HIDE DEF g
  <2> QED BY <2>1, <2>2, <2>3
<1>4. \A i \in 0..N : H[i] = f[i]
  <2> DEFINE e == [i \in 0..N |-> f[i]]
  <2>2. e = Body(e)
    <3>1. ASSUME NEW i \in 0..N PROVE e[i] = IF i = 0 THEN <<>> ELSE Also(S, e[i - 1], s[i])
      <4>1. CASE i = 0
        BY <4>1, <1>2
      <4>2. CASE i # 0
        <5>1. i - 1 \in 0..N /\ i \in 1..N
          BY <4>2, <1>0
        <5>2. e[i] = f[i] /\ e[i - 1] = f[i - 1]
          BY <5>1
        <5> HIDE DEF e
        <5> QED BY <5>1, <5>2, <4>2, <1>3
      <4> QED BY <4>1, <4>2
    <3>2. e = [i \in 0..N |-> e[i]]
      OBVIOUS
    <3> HIDE DEF e
    <3> QED BY <3>1, <3>2
  <2>3. H = Body(H)
    <3> HIDE DEF e, Body
    <3> QED BY <2>2
  <2> DEFINE P(n) == n <= N => H[n] = f[n]
  <2>4. ASSUME NEW n \in Nat, n <= N PROVE H[n] = IF n = 0 THEN <<>> ELSE Also(S, H[n - 1], s[n])
    <3> HIDE DEF H
    <3>1. Body(H)[n] = IF n = 0 THEN <<>> ELSE Also(S, H[n - 1], s[n])
      BY <2>4, <1>0
    <3> HIDE DEF Body
    <3> QED BY <3>1, <2>3
  <2>5. P(0)
    <3> HIDE DEF H
    <3> QED BY <2>4, <1>2, <1>0
  <2>6. ASSUME NEW n \in Nat, P(n) PROVE P(n + 1)
    <3> SUFFICES ASSUME n + 1 <= N PROVE H[n + 1] = f[n + 1]
      OBVIOUS
    <3> HIDE DEF H
    <3>1. n + 1 \in 1..N /\ (n + 1) - 1 = n /\ n <= N /\ n + 1 # 0 /\ n + 1 \in Nat
      BY <1>0
    <3>2. H[n + 1] = Also(S, H[n], s[n + 1])
      BY <3>1, <2>4
    <3>3. f[n + 1] = Also(S, f[n], s[n + 1])
      BY <3>1, <1>3
    <3> QED BY <3>1, <3>2, <3>3, <2>6
  <2> HIDE DEF P
  <2>7. \A n \in Nat : P(n)
    <3> DEFINE I == {n \in Nat : P(n)}
    <3>1. I \in SUBSET Nat /\ 0 \in I
      BY <2>5
    <3>2. ASSUME NEW n \in I PROVE n + 1 \in I
      <4>1. n \in Nat /\ P(n) /\ n + 1 \in Nat
        OBVIOUS
      <4>2. P(n + 1)
        BY <4>1, <2>6
      <4> QED BY <4>1, <4>2
    <3> HIDE DEF I
    <3>3. I = Nat
      BY <3>1, <3>2, Induct
    <3> QED BY <3>3 DEF I
  <2> HIDE DEF H
  <2> QED BY <2>7, <1>0 DEF P
<1>5. Firsts(s, S) = f[N]
  <2>1. Firsts(s, S) = H[N]
    BY DEF Firsts, Also
  <2> HIDE DEF H
  <2> QED BY <2>1, <1>4, <1>0
<1>6. \A i \in 1..Len(s) : f[i] = Also(S, f[i - 1], s[i])
  <2> HIDE DEF g, H
  <2> QED BY <1>3
<1> QED
  <2> HIDE DEF g, H, N
  <2> QED BY <1>2, <1>6, <1>5 DEF Makes, N

\* Firsts keeps what is in S, once
LEMMA FirstsKeep ==
  ASSUME NEW T, NEW s \in Seq(T), NEW S
  PROVE  /\ Firsts(s, S) \in Seq(T)
         /\ IsInjective(Firsts(s, S))
         /\ Range(Firsts(s, S)) = Range(s) \cap S
<1> DEFINE N == Len(s)
<1>0. N \in Nat /\ DOMAIN s = 1..N /\ \A i \in 1..N : s[i] \in T
  OBVIOUS
<1>1. PICK f : Makes(f, s, S, T)
  BY FirstsSteps
<1>2. f[0] = <<>> /\ f \in [Nat -> Seq(T)]
  BY <1>1 DEF Makes
<1>3. \A i \in 1..N : f[i] = Also(S, f[i - 1], s[i])
  BY <1>1 DEF Makes
<1>5. Firsts(s, S) = f[N]
  BY <1>1 DEF Makes
<1> DEFINE Q(n) == n <= N => /\ IsInjective(f[n])
                            /\ Range(f[n]) = {s[i] : i \in 1..n} \cap S
<1>6. Q(0)
  <2>1. IsInjective(<<>>) /\ Range(<<>>) = {}
    BY DEF IsInjective, Range
  <2> QED BY <2>1, <1>2
<1>7. ASSUME NEW n \in Nat, Q(n) PROVE Q(n + 1)
  <2> SUFFICES ASSUME n + 1 <= N
               PROVE  /\ IsInjective(f[n + 1])
                      /\ Range(f[n + 1]) = {s[i] : i \in 1..(n + 1)} \cap S
    OBVIOUS
  <2>1. n + 1 \in 1..N /\ (n + 1) - 1 = n /\ n <= N /\ f[n] \in Seq(T) /\ s[n + 1] \in T
    <3>1. n + 1 \in 1..N /\ (n + 1) - 1 = n /\ n <= N
      <4> HIDE DEF N
      <4> QED BY <1>0
    <3>2. f[n] \in Seq(T)
      BY <1>2
    <3>3. s[n + 1] \in T
      BY <3>1, <1>0
    <3> QED BY <3>1, <3>2, <3>3
  <2>2. f[n + 1] = Also(S, f[n], s[n + 1])
    BY <2>1, <1>3
  <2>3. {s[i] : i \in 1..(n + 1)} = {s[i] : i \in 1..n} \cup {s[n + 1]}
    BY UpTo
  <2>4. IsInjective(f[n]) /\ Range(f[n]) = {s[i] : i \in 1..n} \cap S
    BY <2>1, <1>7
  <2>5. CASE s[n + 1] \notin S \ Range(f[n])
    BY <2>2, <2>3, <2>4, <2>5 DEF Also
  <2>6. CASE s[n + 1] \in S \ Range(f[n])
    <3>1. f[n + 1] = Append(f[n], s[n + 1])
      BY <2>6, <2>2 DEF Also
    <3>2. IsInjective(f[n + 1]) /\ Range(f[n + 1]) = Range(f[n]) \cup {s[n + 1]}
      <4>1. IsInjective(Append(f[n], s[n + 1])) /\ Range(Append(f[n], s[n + 1])) = Range(f[n]) \cup {s[n + 1]}
        <5>1. f[n] \in Seq(T) /\ s[n + 1] \in T /\ IsInjective(f[n]) /\ s[n + 1] \notin Range(f[n])
          BY <2>1, <2>4, <2>6
        <5> HIDE DEF N, Q
        <5> QED BY <5>1, AppendProps
      <4> QED BY <3>1, <4>1
    <3> QED BY <3>2, <2>3, <2>4, <2>6
  <2> QED BY <2>5, <2>6
<1> HIDE DEF Q
<1>8. \A n \in Nat : Q(n)
  <2> DEFINE I == {n \in Nat : Q(n)}
  <2>1. I \in SUBSET Nat /\ 0 \in I
    BY <1>6
  <2>2. ASSUME NEW n \in I PROVE n + 1 \in I
    <3>1. n \in Nat /\ Q(n) /\ n + 1 \in Nat
      OBVIOUS
    <3>2. Q(n + 1)
      BY <3>1, <1>7
    <3> QED BY <3>1, <3>2
  <2> HIDE DEF I
  <2>3. I = Nat
    BY <2>1, <2>2, Induct
  <2> QED BY <2>3 DEF I
<1>9. Range(s) = {s[i] : i \in 1..N}
  BY <1>0 DEF Range
<1>10. Q(N)
  BY <1>8, <1>0
<1> QED
  <2>1. f[N] \in Seq(T)
    BY <1>2, <1>0
  <2> HIDE DEF N
  <2> QED BY <1>5, <1>9, <1>10, <1>0, <2>1 DEF Q

\* one more member
LEMMA FirstsAppend ==
  ASSUME NEW T, NEW s \in Seq(T), NEW x \in T, NEW S
  PROVE  Firsts(Append(s, x), S) = Also(S, Firsts(s, S), x)
<1> DEFINE t == Append(s, x)
           N == Len(s)
<1>0. N \in Nat /\ t \in Seq(T) /\ Len(t) = N + 1 /\ t[N + 1] = x /\ \A i \in 1..N : t[i] = s[i]
  OBVIOUS
<1>1. PICK f : Makes(f, s, S, T)
  BY FirstsSteps
<1>2. PICK e : Makes(e, t, S, T)
  <2> HIDE DEF t
  <2> QED BY <1>0, FirstsSteps
<1> HIDE DEF t
<1>3. f[0] = <<>> /\ (\A i \in 1..N : f[i] = Also(S, f[i - 1], s[i])) /\ Firsts(s, S) = f[N]
  BY <1>1 DEF Makes
<1>4. /\ e[0] = <<>> /\ (\A i \in 1..(N + 1) : e[i] = Also(S, e[i - 1], t[i]))
      /\ Firsts(t, S) = e[N + 1]
  BY <1>2, <1>0 DEF Makes
<1> HIDE DEF N
<1> DEFINE I == {n \in Nat : n <= N => e[n] = f[n]}
<1>5. 0 \in I
  BY <1>3, <1>4
<1>6. ASSUME NEW n \in I PROVE n + 1 \in I
  <2> SUFFICES ASSUME n + 1 <= N PROVE e[n + 1] = f[n + 1]
    OBVIOUS
  <2>1. n \in Nat /\ n <= N /\ n + 1 \in 1..N /\ n + 1 \in 1..(N + 1) /\ (n + 1) - 1 = n
    BY <1>0
  <2>2. e[n] = f[n]
    BY <2>1
  <2>3. e[n + 1] = Also(S, e[n], t[n + 1]) /\ f[n + 1] = Also(S, f[n], s[n + 1])
    BY <2>1, <1>3, <1>4
  <2> QED BY <2>1, <2>2, <2>3, <1>0
<1>7. I = Nat
  <2>1. I \in SUBSET Nat
    OBVIOUS
  <2> HIDE DEF I
  <2> QED BY <2>1, <1>5, <1>6, Induct
<1>8. e[N] = f[N]
  BY <1>7, <1>0
<1>9. e[N + 1] = Also(S, e[N], x)
  <2>1. N + 1 \in 1..(N + 1) /\ (N + 1) - 1 = N
    BY <1>0
  <2> QED BY <2>1, <1>4, <1>0
<1> QED BY <1>3, <1>4, <1>8, <1>9 DEF t

\* Ranked has the members of S, each once
LEMMA RankedAll ==
  ASSUME NEW S \in SUBSET Int, IsFiniteSet(S), NEW key, \A n \in S : key[n] \in Int
  PROVE  /\ Ranked(S, key) \in Seq(S)
         /\ IsInjective(Ranked(S, key))
         /\ Range(Ranked(S, key)) = S
<1> DEFINE Before1(n) == {m \in S : Ahead(m, n, key)}
           N == Cardinality(S)
           r == [n \in S |-> Cardinality(Before1(n)) + 1]
           s == Ranked(S, key)
<1>1. /\ \A n \in S : ~Ahead(n, n, key)
      /\ \A m, n \in S : m = n \/ Ahead(m, n, key) \/ Ahead(n, m, key)
      /\ \A l, m, n \in S : Ahead(l, m, key) /\ Ahead(m, n, key) => Ahead(l, n, key)
  <2>1. \A n \in S : n \in Int /\ key[n] \in Int
    OBVIOUS
  <2> QED BY <2>1 DEF Ahead
<1>2. N \in Nat /\ \A n \in S : IsFiniteSet(Before1(n)) /\ Cardinality(Before1(n)) \in Nat
  <2>1. \A n \in S : Before1(n) \in SUBSET S
    OBVIOUS
  <2> HIDE DEF Before1
  <2> QED BY <2>1, FS_Subset, FS_CardinalityType
<1>3. ASSUME NEW m \in S, NEW n \in S, Ahead(m, n, key) PROVE r[m] < r[n]
  <2>1. Before1(m) \in SUBSET Before1(n) /\ m \in Before1(n) /\ m \notin Before1(m)
    BY <1>1, <1>3
  <2> HIDE DEF Before1
  <2>2. Cardinality(Before1(m)) <= Cardinality(Before1(n))
    BY <2>1, <1>2, FS_Subset
  <2>3. Cardinality(Before1(m)) # Cardinality(Before1(n))
    BY <2>1, <1>2, FS_Subset
  <2> QED BY <2>2, <2>3, <1>2
<1>4. r \in [S -> 1..N]
  <2> SUFFICES ASSUME NEW n \in S PROVE Cardinality(Before1(n)) + 1 \in 1..N
    OBVIOUS
  <2>1. Before1(n) \in SUBSET (S \ {n})
    BY <1>1
  <2>2. IsFiniteSet(S \ {n}) /\ Cardinality(S \ {n}) = N - 1
    BY FS_RemoveElement
  <2> HIDE DEF Before1
  <2>3. Cardinality(Before1(n)) <= N - 1
    BY <2>1, <2>2, FS_Subset
  <2> QED BY <2>3, <1>2
<1> HIDE DEF r
<1>5. \A m, n \in S : r[m] = r[n] => m = n
  <2> SUFFICES ASSUME NEW m \in S, NEW n \in S, m # n PROVE r[m] # r[n]
    OBVIOUS
  <2>1. r[m] \in Int /\ r[n] \in Int
    BY <1>4, <1>2
  <2> QED BY <2>1, <1>1, <1>3
<1>6. \A i \in 1..N : \E n \in S : r[n] = i
  <2>1. r \in Injection(S, 1..N)
    BY <1>4, <1>5 DEF Injection, IsInjective
  <2>2. IsFiniteSet(1..N) /\ Cardinality(1..N) = N
    BY <1>2, FS_Interval
  <2>3. r \in Surjection(S, 1..N)
    BY <2>1, <2>2, FS_Injection
  <2> QED BY <2>3 DEF Surjection
<1>7. \A n \in S : r[n] = Cardinality(Before1(n)) + 1
  BY DEF r
<1>8. s = [i \in 1..N |-> CHOOSE n \in S : Cardinality(Before1(n)) = i - 1]
  BY DEF Ranked
<1> HIDE DEF s, Before1
<1>9. \A i \in 1..N : s[i] \in S /\ r[s[i]] = i
  <2> TAKE i \in 1..N
  <2>1. \E n \in S : Cardinality(Before1(n)) = i - 1
    BY <1>6, <1>7, <1>2
  <2>2. s[i] \in S /\ Cardinality(Before1(s[i])) = i - 1
    BY <2>1, <1>8
  <2>3. (i - 1) + 1 = i
    BY <1>2
  <2> QED BY <2>2, <2>3, <1>7
<1>10. s \in [1..N -> S] /\ DOMAIN s = 1..N
  BY <1>8, <1>9
<1>11. s \in Seq(S)
  BY <1>10, <1>2
<1>12. IsInjective(s)
  BY <1>9, <1>10 DEF IsInjective
<1>13. Range(s) = S
  <2>1. ASSUME NEW n \in S PROVE n \in Range(s)
    <3>1. r[n] \in 1..N
      BY <1>4
    <3>2. s[r[n]] = n
      BY <3>1, <1>9, <1>5
    <3> QED BY <3>1, <3>2, <1>10 DEF Range
  <2>2. Range(s) \in SUBSET S
    BY <1>9, <1>10 DEF Range
  <2> QED BY <2>1, <2>2
<1> QED BY <1>11, <1>12, <1>13 DEF s

\* what taking the last member away leaves
LEMMA FrontProps ==
  ASSUME NEW T, NEW s \in Seq(T), s # <<>>, IsInjective(s)
  PROVE  /\ Last(s) \in T
         /\ Front(s) \in Seq(T)
         /\ IsInjective(Front(s))
         /\ Range(Front(s)) = Range(s) \ {Last(s)}
         /\ Last(s) \in Range(s)
<1> DEFINE N == Len(s)
           t == Front(s)
<1>1. N \in Nat /\ N >= 1 /\ DOMAIN s = 1..N /\ Last(s) = s[N]
  BY DEF Last
<1>2. t \in Seq(T) /\ DOMAIN t = 1..(N - 1) /\ \A i \in 1..(N - 1) : t[i] = s[i]
  BY <1>1 DEF Front
<1> HIDE DEF N, t
<1>3. s[N] \in T /\ s[N] \in Range(s)
  <2>1. N \in DOMAIN s
    BY <1>1
  <2> QED BY <2>1 DEF Range
<1>4. \A i \in 1..(N - 1) : i \in 1..N /\ i # N
  BY <1>1
<1>5. \A i \in 1..N : i = N \/ i \in 1..(N - 1)
  BY <1>1
<1>6. IsInjective(t)
  BY <1>1, <1>2, <1>4 DEF IsInjective
<1>7. Range(t) = Range(s) \ {s[N]}
  <2>1. ASSUME NEW x \in Range(t) PROVE x \in Range(s) /\ x # s[N]
    <3>1. PICK i \in 1..(N - 1) : t[i] = x
      BY <1>2 DEF Range
    <3>2. i \in DOMAIN s /\ s[i] = x /\ i # N /\ N \in DOMAIN s
      BY <3>1, <1>1, <1>2, <1>4
    <3> QED BY <3>2 DEF Range, IsInjective
  <2>2. ASSUME NEW x \in Range(s), x # s[N] PROVE x \in Range(t)
    <3>1. PICK i \in 1..N : s[i] = x
      BY <1>1 DEF Range
    <3>2. i \in 1..(N - 1)
      BY <3>1, <2>2, <1>5
    <3> QED BY <3>1, <3>2, <1>2 DEF Range
  <2> QED BY <2>1, <2>2
<1> QED BY <1>1, <1>2, <1>3, <1>6, <1>7 DEF t

-----------------------------------------------------------------------------
(* Budgets *)

\* prefixes, member by member
LEMMA PrefixIs ==
  ASSUME NEW T, NEW s \in Seq(T), NEW t \in Seq(T)
  PROVE  IsPrefix(s, t) <=> Len(s) <= Len(t) /\ \A i \in 1..Len(s) : s[i] = t[i]
<1>1. ASSUME Len(s) <= Len(t), SubSeq(s, 1, Len(s)) = SubSeq(t, 1, Len(s)), NEW i \in 1..Len(s)
      PROVE  s[i] = t[i]
  <2>1. SubSeq(s, 1, Len(s))[i] = s[i] /\ SubSeq(t, 1, Len(s))[i] = t[i]
    BY <1>1
  <2> QED BY <2>1, <1>1
<1>2. ASSUME Len(s) <= Len(t), \A i \in 1..Len(s) : s[i] = t[i]
      PROVE  SubSeq(s, 1, Len(s)) = SubSeq(t, 1, Len(s))
  <2>1. SubSeq(s, 1, Len(s)) = [i \in 1..Len(s) |-> s[i]]
    OBVIOUS
  <2>2. SubSeq(t, 1, Len(s)) = [i \in 1..Len(s) |-> t[i]]
    BY <1>2
  <2> QED BY <2>1, <2>2, <1>2
<1> QED BY <1>1, <1>2 DEF IsPrefix

\* what a cut keeps
LEMMA TruncatedIs ==
  ASSUME NEW T, NEW s \in Seq(T), NEW k \in Nat
  PROVE  /\ Truncated(s, k) \in Seq(T)
         /\ Len(Truncated(s, k)) = IF Len(s) < k THEN Len(s) ELSE k
         /\ \A i \in 1..Len(Truncated(s, k)) : Truncated(s, k)[i] = s[i]
         /\ IsInjective(s) => IsInjective(Truncated(s, k))
         /\ Range(Truncated(s, k)) \subseteq Range(s)
<1> DEFINE t == Truncated(s, k)
           n == IF Len(s) < k THEN Len(s) ELSE k
<1>1. n \in Nat /\ n <= Len(s) /\ DOMAIN s = 1..Len(s) /\ Len(s) \in Nat
  OBVIOUS
<1>2. t = SubSeq(s, 1, n)
  BY DEF Truncated
<1> HIDE DEF n, t
<1>3. t \in Seq(T) /\ Len(t) = n /\ DOMAIN t = 1..n /\ \A i \in 1..n : t[i] = s[i]
  <2>1. SubSeq(s, 1, n) \in Seq(T)
    <3>1. \A i \in 1..n : s[i] \in T
      BY <1>1
    <3> QED BY <1>1, <3>1
  <2> QED BY <1>1, <1>2, <2>1
<1>4. \A i \in 1..n : i \in DOMAIN s
  BY <1>1
<1>5. IsInjective(s) => IsInjective(t)
  BY <1>3, <1>4 DEF IsInjective
<1>6. Range(t) \subseteq Range(s)
  BY <1>3, <1>4 DEF Range
<1> QED BY <1>3, <1>5, <1>6 DEF t, n

\* what is added is added behind
LEMMA ConcatPrefix ==
  ASSUME NEW T, NEW s \in Seq(T), NEW t \in Seq(T), NEW u \in Seq(T), IsPrefix(t, u)
  PROVE  IsPrefix(s \o t, s \o u)
<1>1. Len(t) <= Len(u) /\ \A i \in 1..Len(t) : t[i] = u[i]
  BY PrefixIs
<1>2. s \o t \in Seq(T) /\ s \o u \in Seq(T) /\ Len(s \o t) = Len(s) + Len(t) /\ Len(s \o u) = Len(s) + Len(u)
  OBVIOUS
<1>3. Len(s) \in Nat /\ Len(t) \in Nat /\ Len(u) \in Nat
  OBVIOUS
<1>4. ASSUME NEW i \in 1..(Len(s) + Len(t)) PROVE (s \o t)[i] = (s \o u)[i]
  <2>1. CASE i <= Len(s)
    <3>1. (s \o t)[i] = s[i] /\ (s \o u)[i] = s[i]
      BY <2>1, <1>1, <1>3
    <3> QED BY <3>1
  <2>2. CASE i > Len(s)
    <3>1. (s \o t)[i] = t[i - Len(s)] /\ (s \o u)[i] = u[i - Len(s)]
      BY <2>2, <1>1, <1>3
    <3>2. i - Len(s) \in 1..Len(t)
      BY <2>2, <1>3
    <3> QED BY <3>1, <3>2, <1>1
  <2>3. i \in Int /\ Len(s) \in Int
    <3>1. Len(s) + Len(t) \in Int
      BY <1>3
    <3> QED BY <1>3, <3>1
  <2>4. i <= Len(s) \/ i > Len(s)
    BY <2>3
  <2> QED BY <2>1, <2>2, <2>4
<1>5. Len(s \o t) <= Len(s \o u)
  BY <1>1, <1>2, <1>3
<1> QED BY <1>2, <1>4, <1>5, PrefixIs

\* a prefix, cut, and cut later
LEMMA TruncatedPrefix ==
  ASSUME NEW T, NEW s \in Seq(T), NEW t \in Seq(T), IsPrefix(s, t), NEW k \in Nat, NEW l \in Nat, k <= l
  PROVE  IsPrefix(Truncated(s, k), Truncated(t, l))
<1> DEFINE u == Truncated(s, k)
           v == Truncated(t, l)
<1>1. Len(s) <= Len(t) /\ (\A i \in 1..Len(s) : s[i] = t[i]) /\ Len(s) \in Nat /\ Len(t) \in Nat
  BY PrefixIs
<1>2. /\ u \in Seq(T) /\ v \in Seq(T)
      /\ Len(u) = (IF Len(s) < k THEN Len(s) ELSE k) /\ Len(v) = (IF Len(t) < l THEN Len(t) ELSE l)
      /\ \A i \in 1..Len(u) : u[i] = s[i]
      /\ \A i \in 1..Len(v) : v[i] = t[i]
  BY TruncatedIs
<1> HIDE DEF u, v
<1>3. Len(u) <= Len(v) /\ \A i \in 1..Len(u) : i \in 1..Len(v) /\ i \in 1..Len(s)
  BY <1>1, <1>2
<1>4. \A i \in 1..Len(u) : u[i] = v[i]
  BY <1>1, <1>2, <1>3
<1>5. IsPrefix(u, v)
  BY <1>2, <1>3, <1>4, PrefixIs
<1> QED BY <1>5 DEF u, v

\* prefixes of prefixes
LEMMA PrefixTransitive ==
  ASSUME NEW T, NEW s \in Seq(T), NEW t \in Seq(T), NEW u \in Seq(T), IsPrefix(s, t), IsPrefix(t, u)
  PROVE  IsPrefix(s, u)
<1>1. /\ Len(s) <= Len(t) /\ \A i \in 1..Len(s) : s[i] = t[i]
      /\ Len(t) <= Len(u) /\ \A i \in 1..Len(t) : t[i] = u[i]
  BY PrefixIs
<1>2. Len(s) \in Nat /\ Len(t) \in Nat /\ Len(u) \in Nat
  OBVIOUS
<1>3. Len(s) <= Len(u) /\ \A i \in 1..Len(s) : i \in 1..Len(t)
  BY <1>1, <1>2
<1>4. \A i \in 1..Len(s) : s[i] = u[i]
  BY <1>1, <1>3
<1> QED BY <1>3, <1>4, PrefixIs

\* A larger budget takes at most one more.
LEMMA TruncatedNext ==
  ASSUME NEW T, NEW s \in Seq(T), NEW k \in Nat
  PROVE  \/ Truncated(s, k + 1) = Truncated(s, k)
         \/ \E x \in T : Truncated(s, k + 1) = Append(Truncated(s, k), x)
<1>1. Len(s) \in Nat
  OBVIOUS
<1>2. CASE Len(s) < k + 1
  <2>1. (IF Len(s) < k THEN Len(s) ELSE k) = Len(s)
    BY <1>2, <1>1
  <2> QED BY <1>2, <2>1 DEF Truncated
<1>3. CASE ~(Len(s) < k + 1)
  <2>1. Truncated(s, k) = SubSeq(s, 1, k) /\ Truncated(s, k + 1) = SubSeq(s, 1, k + 1)
    <3>1. ~(Len(s) < k)
      BY <1>3, <1>1
    <3> QED BY <3>1, <1>3 DEF Truncated
  <2>2. k + 1 <= Len(s) /\ k + 1 \in 1..Len(s) /\ s[k + 1] \in T
    BY <1>1, <1>3
  <2>3. SubSeq(s, 1, k + 1) = Append(SubSeq(s, 1, k), s[k + 1])
    <3>1. SubSeq(s, 1, k) = [i \in 1..k |-> s[i]] /\ SubSeq(s, 1, k + 1) = [i \in 1..(k + 1) |-> s[i]]
      BY <2>2
    <3>2. SubSeq(s, 1, k) \in Seq(T) /\ Len(SubSeq(s, 1, k)) = k
      <4>1. \A i \in 1..k : s[i] \in T
        BY <2>2
      <4> QED BY <4>1, <2>2
    <3> DEFINE t == SubSeq(s, 1, k)
    <3>3. Append(t, s[k + 1]) = [i \in 1..(k + 1) |-> IF i \in 1..k THEN t[i] ELSE s[k + 1]]
      <4> HIDE DEF t
      <4>1. Append(t, s[k + 1]) \in Seq(T) /\ DOMAIN Append(t, s[k + 1]) = 1..(k + 1)
        BY <3>2, <2>2 DEF t
      <4>2. \A i \in 1..(k + 1) : Append(t, s[k + 1])[i] = IF i \in 1..k THEN t[i] ELSE s[k + 1]
        BY <3>2, <2>2 DEF t
      <4>3. Append(t, s[k + 1]) = [i \in 1..(k + 1) |-> Append(t, s[k + 1])[i]]
        BY <4>1
      <4> QED BY <4>2, <4>3
    <3>4. \A i \in 1..(k + 1) : s[i] = IF i \in 1..k THEN t[i] ELSE s[k + 1]
      <4>1. \A i \in 1..(k + 1) : i \in 1..k \/ i = k + 1
        OBVIOUS
      <4> QED BY <4>1, <3>1
    <3> HIDE DEF t
    <3> QED BY <3>1, <3>3, <3>4 DEF t
  <2> QED BY <2>1, <2>2, <2>3
<1> QED BY <1>2, <1>3

-----------------------------------------------------------------------------
(* Rankings and capsules *)

\* a sequence has finitely many members
LEMMA RangeFinite ==
  ASSUME NEW T, NEW s \in Seq(T)
  PROVE  IsFiniteSet(Range(s)) /\ Range(s) \in SUBSET T
<1>1. DOMAIN s = 1..Len(s) /\ Len(s) \in Nat /\ \A i \in 1..Len(s) : s[i] \in T
  OBVIOUS
<1>2. IsFiniteSet(DOMAIN s)
  BY <1>1, FS_Interval
<1>3. s \in [DOMAIN s -> Range(s)] /\ Range(s) \in SUBSET T
  BY <1>1 DEF Range
<1>4. s \in Surjection(DOMAIN s, Range(s))
  BY <1>3 DEF Surjection, Range
<1> QED BY <1>2, <1>3, <1>4, FS_Surjection

\* a sequence over a subset
LEMMA SeqWider ==
  ASSUME NEW T, NEW S \in SUBSET T, NEW s \in Seq(S)
  PROVE  s \in Seq(T)
<1>1. Len(s) \in Nat /\ \A i \in 1..Len(s) : s[i] \in T
  OBVIOUS
<1>2. s = [i \in 1..Len(s) |-> s[i]]
  OBVIOUS
<1> QED BY <1>1, <1>2

Hit == [node : Int, score : Int]

\* what a search is made from
LEMMA SearchTypes ==
  ASSUME search \in Searches
  PROVE  /\ search.rows \in Seq([src : Int, dst : Int, w : Int, missing : BOOLEAN])
         /\ search.layers \in Seq(Seq(Hit))
BY PushAssumption DEF Hit

\* the symbols of some hits
LEMMA NodesOf ==
  ASSUME NEW s \in Seq(Hit)
  PROVE  LET t == [i \in DOMAIN s |-> s[i].node]
         IN t \in Seq(Int) /\ Range(t) = {h.node : h \in Range(s)} /\ IsFiniteSet(Range(t))
<1> DEFINE t == [i \in DOMAIN s |-> s[i].node]
<1>0. DOMAIN s = 1..Len(s) /\ Len(s) \in Nat /\ \A i \in 1..Len(s) : s[i] \in Hit
  OBVIOUS
<1>1. \A i \in 1..Len(s) : s[i].node \in Int
  BY <1>0 DEF Hit
<1>2. t \in Seq(Int)
  BY <1>0, <1>1
<1>3. Range(t) = {h.node : h \in Range(s)}
  BY DEF Range
<1> HIDE DEF t
<1>4. IsFiniteSet(Range(t))
  BY <1>2, RangeFinite
<1> QED BY <1>2, <1>3, <1>4 DEF t

\* the fused hits name each symbol that was hit, once
LEMMA FusedAll ==
  ASSUME search \in Searches
  PROVE  Fused(search.layers) \in Seq(Int) /\ IsInjective(Fused(search.layers))
<1> DEFINE layers == search.layers
           all == FlattenSeq(layers)
           found1 == {h.node : h \in UNION {Range(layers[l]) : l \in DOMAIN layers}}
           in(n) == {l \in DOMAIN layers : \E h \in Range(layers[l]) : h.node = n}
           parts(n) == [l \in in(n) |-> Contribution(RankIn(layers[l], n))]
           key == [n \in found1 |-> Total(parts(n))]
<1>1. /\ layers \in Seq(Seq(Hit)) /\ IsFiniteSet(DOMAIN layers)
      /\ \A l \in DOMAIN layers : layers[l] \in Seq(Hit)
  <2>1. layers \in Seq(Seq(Hit))
    BY SearchTypes
  <2> HIDE DEF layers
  <2>2. DOMAIN layers = 1..Len(layers) /\ Len(layers) \in Nat
    BY <2>1
  <2>3. IsFiniteSet(DOMAIN layers)
    BY <2>2, FS_Interval
  <2> QED BY <2>1, <2>2, <2>3
<1>2. found1 \in SUBSET Int /\ IsFiniteSet(found1)
  <2>1. all \in Seq(Hit) /\ Range(all) = UNION {Range(layers[l]) : l \in DOMAIN layers}
    <3> HIDE DEF layers
    <3> QED BY <1>1, FlattenRange
  <2> DEFINE t == [i \in DOMAIN all |-> all[i].node]
  <2>2. t \in Seq(Int) /\ Range(t) = {h.node : h \in Range(all)} /\ IsFiniteSet(Range(t))
    <3> HIDE DEF all
    <3> QED BY <2>1, NodesOf
  <2>3. found1 = Range(t)
    BY <2>1, <2>2
  <2> HIDE DEF t, found1
  <2> QED BY <2>2, <2>3, RangeFinite
<1> HIDE DEF layers
<1>3. ASSUME NEW l \in DOMAIN layers, NEW n PROVE Contribution(RankIn(layers[l], n)) \in Int
  <2> DEFINE nodes == {h.node : h \in Range(layers[l])}
  <2>1. IsFiniteSet(nodes)
    <3>1. layers[l] \in Seq(Hit)
      BY <1>1
    <3> QED BY <3>1, NodesOf
  <2>2. \E B \in SUBSET nodes : RankIn(layers[l], n) = 1 + Cardinality(B)
    <3> DEFINE best(m) == Max({h.score : h \in {g \in Range(layers[l]) : g.node = m}})
               B == {m \in nodes : best(m) > best(n) \/ (best(m) = best(n) /\ m < n)}
    <3>1. RankIn(layers[l], n) = 1 + Cardinality(B)
      BY DEF RankIn
    <3>2. B \in SUBSET nodes
      OBVIOUS
    <3> HIDE DEF B, nodes
    <3> QED BY <3>1, <3>2
  <2> HIDE DEF nodes
  <2>3. RankIn(layers[l], n) \in Nat
    <3>1. PICK B \in SUBSET nodes : RankIn(layers[l], n) = 1 + Cardinality(B)
      BY <2>2
    <3>2. Cardinality(B) \in Nat
      BY <2>1, FS_Subset, FS_CardinalityType
    <3> QED BY <3>1, <3>2
  <2>4. \A i \in Nat : (61 * 62 * 63 * 64) \div (60 + i) \in Int
    OBVIOUS
  <2> QED BY <2>3, <2>4 DEF Contribution
<1>4. ASSUME NEW n PROVE Total(parts(n)) \in Int
  <2>1. IsFiniteSet(in(n))
    <3>1. in(n) \in SUBSET DOMAIN layers
      OBVIOUS
    <3> HIDE DEF in
    <3> QED BY <3>1, <1>1, FS_Subset
  <2>2. parts(n) \in [in(n) -> Int]
    BY <1>3
  <2> HIDE DEF parts, in
  <2> QED BY <2>1, <2>2, TotalLaw
<1>5. \A n \in found1 : key[n] \in Int
  <2> HIDE DEF parts, found1
  <2> QED BY <1>4
<1>6. Fused(layers) = Ranked(found1, key)
  BY DEF Fused
<1> HIDE DEF key, found1
<1>7. Ranked(found1, key) \in Seq(found1) /\ IsInjective(Ranked(found1, key))
  BY <1>2, <1>5, RankedAll
<1> DEFINE F == Ranked(found1, key)
<1> HIDE DEF F
<1>8. F \in Seq(found1) => F \in Seq(Int)
  BY <1>2, SeqWider
<1> QED BY <1>6, <1>7, <1>8 DEF layers, F

\* what was reached, each symbol once
LEMMA DiffusedAll ==
  ASSUME estimate \in [Node -> Int]
  PROVE  Diffused \in Seq(Node)
<1> DEFINE S == {u \in Node : estimate[u] > 0}
<1>1. S \in SUBSET Int /\ IsFiniteSet(S) /\ S \in SUBSET Node /\ \A u \in S : estimate[u] \in Int
  <2>1. S \in SUBSET Node
    OBVIOUS
  <2>2. \A u \in Node : estimate[u] \in Int
    OBVIOUS
  <2> HIDE DEF S
  <2> QED BY <2>1, <2>2, PushAssumption, FS_Subset
<1>2. Diffused = Ranked(S, estimate)
  BY DEF Diffused
<1> HIDE DEF S
<1>3. Ranked(S, estimate) \in Seq(S)
  BY <1>1, RankedAll
<1> DEFINE D == Ranked(S, estimate)
<1> HIDE DEF D
<1>4. D \in Seq(S) => D \in Seq(Node)
  BY <1>1, SeqWider
<1> QED BY <1>2, <1>3, <1>4 DEF D

\* compose_capsule, for any two rankings
LEMMA ComposedAdds ==
  ASSUME NEW F \in Seq(Int), IsInjective(F), NEW D \in Seq(Node), NEW k \in Nat
  PROVE  LET C(b) == Composed(F, Truncated(D, b), b)
         IN /\ IsInjective(C(k))
            /\ IsPrefix(Truncated(F, k), C(k))
            /\ IsPrefix(C(k), C(k + 1))
<1> DEFINE first(b) == Truncated(F, b)
           more(b) == Firsts(Truncated(D, b), Node \ Range(first(b)))
           C(b) == Composed(F, Truncated(D, b), b)
<1>1. \A b : C(b) = Truncated(first(b) \o more(b), b)
  BY DEF Composed
<1>2. \A b \in Nat : /\ first(b) \in Seq(Int) /\ IsInjective(first(b))
                     /\ Len(first(b)) = IF Len(F) < b THEN Len(F) ELSE b
                     /\ \A i \in 1..Len(first(b)) : first(b)[i] = F[i]
  BY TruncatedIs
<1>3. ASSUME NEW b \in Nat, NEW S
      PROVE  /\ Firsts(Truncated(D, b), S) \in Seq(Int)
             /\ IsInjective(Firsts(Truncated(D, b), S))
             /\ Range(Firsts(Truncated(D, b), S)) \subseteq S
  <2>1. Truncated(D, b) \in Seq(Node)
    BY TruncatedIs
  <2>2. \A s : s \in Seq(Node) => s \in Seq(Int)
    BY PushAssumption, SeqWider
  <2>3. Firsts(Truncated(D, b), S) \in Seq(Node)
    BY <2>1, FirstsKeep
  <2> QED BY <2>1, <2>2, <2>3, FirstsKeep
<1> DEFINE S0 == Node \ Range(first(k))
<1>4. \A b \in Nat : /\ more(b) \in Seq(Int) /\ IsInjective(more(b))
                     /\ Range(first(b)) \cap Range(more(b)) = {}
  <2> TAKE b \in Nat
  <2>1. more(b) \in Seq(Int) /\ IsInjective(more(b)) /\ Range(more(b)) \subseteq Node \ Range(first(b))
    BY <1>3
  <2> HIDE DEF more, first
  <2> QED BY <2>1
<1>5. \A b \in Nat : /\ first(b) \o more(b) \in Seq(Int)
                     /\ IsInjective(first(b) \o more(b))
                     /\ IsPrefix(first(b), first(b) \o more(b))
                     /\ Len(first(b) \o more(b)) = Len(first(b)) + Len(more(b))
  <2> TAKE b \in Nat
  <2> HIDE DEF first, more
  <2> DEFINE p == first(b)
             q == more(b)
  <2>1. p \in Seq(Int) /\ q \in Seq(Int) /\ IsInjective(p) /\ IsInjective(q) /\ Range(p) \cap Range(q) = {}
    BY <1>2, <1>4
  <2> HIDE DEF p, q
  <2>2. p \o q \in Seq(Int) /\ Len(p \o q) = Len(p) + Len(q) /\ Len(p) \in Nat /\ Len(q) \in Nat
        /\ \A i \in 1..Len(p) : (p \o q)[i] = p[i]
    BY <2>1
  <2>3. IsInjective(p \o q)
    BY <2>1, ConcatInjective
  <2>4. IsPrefix(p, p \o q)
    <3>1. Len(p) <= Len(p \o q)
      BY <2>2
    <3> QED BY <2>1, <2>2, <3>1, PrefixIs
  <2> QED BY <2>2, <2>3, <2>4 DEF p, q
<1> DEFINE J(b) == first(b) \o more(b)
<1>6. IsInjective(C(k))
  <2>1. J(k) \in Seq(Int) /\ IsInjective(J(k)) /\ C(k) = Truncated(J(k), k)
    BY <1>1, <1>5
  <2> HIDE DEF J, C
  <2> QED BY <2>1, TruncatedIs
<1>7. IsPrefix(Truncated(F, k), C(k))
  <2>1. first(k) \in Seq(Int) /\ J(k) \in Seq(Int) /\ IsPrefix(first(k), J(k)) /\ C(k) = Truncated(J(k), k)
    BY <1>1, <1>2, <1>5
  <2>2. Truncated(first(k), k) = first(k)
    <3>1. Len(first(k)) <= k /\ Len(first(k)) \in Nat
      <4>1. first(k) \in Seq(Int) /\ Len(first(k)) = (IF Len(F) < k THEN Len(F) ELSE k) /\ Len(F) \in Nat
        BY <1>2
      <4> HIDE DEF first
      <4> QED BY <4>1
    <3>2. first(k) \in Seq(Int)
      BY <1>2
    <3> HIDE DEF first
    <3>3. SubSeq(first(k), 1, Len(first(k))) = first(k)
      BY <3>2
    <3>4. ~(Len(first(k)) < k) => k = Len(first(k))
      BY <3>1
    <3> QED BY <3>3, <3>4 DEF Truncated
  <2>3. IsPrefix(Truncated(first(k), k), Truncated(J(k), k))
    <3> HIDE DEF first, J
    <3> QED BY <2>1, TruncatedPrefix
  <2> QED BY <2>1, <2>2, <2>3
<1>8. IsPrefix(C(k), C(k + 1))
  <2>0. k + 1 \in Nat /\ k <= k + 1 /\ Len(F) \in Nat
    OBVIOUS
  <2>1. CASE Len(F) < k
    <3>1. first(k) = first(k + 1)
      <4>1. Len(F) < k + 1
        BY <2>0, <2>1
      <4> QED BY <2>1, <4>1 DEF Truncated
    <3>2. IsPrefix(more(k), more(k + 1))
      <4> DEFINE s == Truncated(D, k)
      <4>1. more(k) = Firsts(s, S0) /\ more(k + 1) = Firsts(Truncated(D, k + 1), S0)
        BY <3>1
      <4>2. s \in Seq(Node) /\ Firsts(s, S0) \in Seq(Node)
        <5>1. s \in Seq(Node)
          BY TruncatedIs
        <5> HIDE DEF s, S0
        <5> QED BY <5>1, FirstsKeep
      <4> DEFINE m == Firsts(s, S0)
      <4>3. IsPrefix(m, m)
        <5> HIDE DEF m
        <5>1. m \in Seq(Node)
          BY <4>2 DEF m
        <5> QED BY <5>1, PrefixIs
      <4>4. CASE Truncated(D, k + 1) = s
        BY <4>1, <4>3, <4>4
      <4>5. ASSUME NEW x \in Node, Truncated(D, k + 1) = Append(s, x) PROVE IsPrefix(more(k), more(k + 1))
        <5>1. more(k + 1) = Also(S0, m, x)
          <6> HIDE DEF s, S0, more
          <6>1. Firsts(Append(s, x), S0) = Also(S0, Firsts(s, S0), x)
            BY <4>2, FirstsAppend
          <6> QED BY <6>1, <4>1, <4>5
        <5>2. m \in Seq(Node) /\ Append(m, x) \in Seq(Node)
          <6>1. m \in Seq(Node)
            BY <4>2
          <6> HIDE DEF m
          <6> QED BY <6>1, AppendProps
        <5> HIDE DEF m
        <5>3. Len(m) <= Len(Append(m, x)) /\ \A i \in 1..Len(m) : m[i] = Append(m, x)[i]
          BY <5>2
        <5>4. IsPrefix(m, Append(m, x))
          BY <5>2, <5>3, PrefixIs
        <5>5. more(k) = m
          BY <4>1 DEF m
        <5> HIDE DEF more
        <5> QED BY <5>1, <5>4, <5>5, <4>3 DEF Also
      <4>6. Truncated(D, k + 1) = s \/ \E x \in Node : Truncated(D, k + 1) = Append(s, x)
        BY TruncatedNext
      <4> QED BY <4>4, <4>5, <4>6
    <3>3. IsPrefix(J(k), J(k + 1))
      <4>1. first(k) \in Seq(Int) /\ more(k) \in Seq(Int) /\ more(k + 1) \in Seq(Int)
        BY <1>2, <1>4, <2>0
      <4>2. J(k) = first(k) \o more(k) /\ J(k + 1) = first(k) \o more(k + 1)
        BY <3>1
      <4> HIDE DEF first, more, J
      <4> QED BY <4>1, <4>2, <3>2, ConcatPrefix
    <3>4. /\ J(k) \in Seq(Int) /\ J(k + 1) \in Seq(Int)
          /\ C(k) = Truncated(J(k), k) /\ C(k + 1) = Truncated(J(k + 1), k + 1)
      BY <1>1, <1>5, <2>0
    <3> HIDE DEF J, C
    <3> QED BY <3>3, <3>4, <2>0, TruncatedPrefix
  <2>2. CASE Len(F) >= k
    <3> DEFINE g == first(k)
               h == first(k + 1)
               u == J(k)
               v == J(k + 1)
    <3>1. /\ g \in Seq(Int) /\ h \in Seq(Int) /\ u \in Seq(Int) /\ v \in Seq(Int)
          /\ Len(g) = k /\ Len(h) >= k /\ Len(h) \in Nat
          /\ IsPrefix(g, u) /\ IsPrefix(h, v)
      <4>1. /\ Len(g) = (IF Len(F) < k THEN Len(F) ELSE k)
            /\ Len(h) = (IF Len(F) < k + 1 THEN Len(F) ELSE k + 1)
        BY <1>2, <2>0
      <4>2. Len(g) = k /\ Len(h) >= k /\ Len(h) \in Nat
        <5> HIDE DEF g, h
        <5> QED BY <4>1, <2>0, <2>2
      <4> QED BY <4>2, <1>2, <1>5, <2>0
    <3>2. IsPrefix(g, h)
      <4>1. (\A i \in 1..Len(g) : g[i] = F[i]) /\ (\A i \in 1..Len(h) : h[i] = F[i])
        BY <1>2, <2>0
      <4> HIDE DEF g, h
      <4>2. Len(g) <= Len(h) /\ \A i \in 1..Len(g) : i \in 1..Len(h)
        BY <3>1
      <4> QED BY <3>1, <4>1, <4>2, PrefixIs
    <3>3. C(k) = Truncated(u, k) /\ C(k + 1) = Truncated(v, k + 1)
      BY <1>1
    <3> HIDE DEF g, h, u, v, C
    <3>4. Truncated(u, k) = Truncated(g, k)
      <4>1. IsPrefix(g, u) /\ Len(g) <= Len(u) /\ Len(u) \in Nat
        BY <3>1, PrefixIs
      <4>2. SubSeq(g, 1, Len(g)) = SubSeq(u, 1, Len(g))
        BY <4>1 DEF IsPrefix
      <4>3. Truncated(g, k) = SubSeq(g, 1, k)
        BY <3>1 DEF Truncated
      <4>4. Truncated(u, k) = SubSeq(u, 1, k)
        <5>1. ~(Len(u) < k)
          BY <3>1, <4>1
        <5> QED BY <5>1 DEF Truncated
      <4> QED BY <4>2, <4>3, <4>4, <3>1
    <3>5. IsPrefix(g, v)
      BY <3>1, <3>2, PrefixTransitive
    <3>6. IsPrefix(Truncated(g, k), Truncated(v, k + 1))
      BY <3>1, <3>5, <2>0, TruncatedPrefix
    <3> QED BY <3>3, <3>4, <3>6
  <2> QED BY <2>0, <2>1, <2>2
<1> QED BY <1>6, <1>7, <1>8

\* compose_capsule, for the hits and for what diffusion reached
LEMMA CapsulesAdd ==
  search \in Searches /\ estimate \in [Node -> Int] => CapsuleOnlyAdds
<1> SUFFICES ASSUME search \in Searches, estimate \in [Node -> Int],
                    NEW k \in 1..Cardinality(Node)
             PROVE  /\ IsInjective(Capsule(k))
                    /\ IsPrefix(Truncated(Fused(search.layers), k), Capsule(k))
                    /\ IsPrefix(Capsule(k), Capsule(k + 1))
  BY DEF CapsuleOnlyAdds
<1>1. k \in Nat
  BY PushAssumption, FS_CardinalityType
<1>2. Fused(search.layers) \in Seq(Int) /\ IsInjective(Fused(search.layers))
  BY FusedAll
<1>3. Diffused \in Seq(Node)
  BY DiffusedAll
<1> DEFINE F == Fused(search.layers)
           D == Diffused
<1>4. \A b : Capsule(b) = Composed(F, Truncated(D, b), b)
  BY DEF Capsule
<1> HIDE DEF F, D
<1>5. F \in Seq(Int) /\ IsInjective(F) /\ D \in Seq(Node)
  BY <1>2, <1>3 DEF F, D
<1>6. /\ IsInjective(Composed(F, Truncated(D, k), k))
      /\ IsPrefix(Truncated(F, k), Composed(F, Truncated(D, k), k))
      /\ IsPrefix(Composed(F, Truncated(D, k), k), Composed(F, Truncated(D, k + 1), k + 1))
  BY <1>1, <1>5, ComposedAdds
<1> QED BY <1>4, <1>6 DEF F

-----------------------------------------------------------------------------
(* The graph and the seeds *)

\* a sum of zeros
LEMMA TotalZeros ==
  ASSUME NEW S, IsFiniteSet(S), NEW f \in [S -> Int], \A x \in S : f[x] = 0
  PROVE  Total(f) = 0
<1>1. {} \in SUBSET S
  OBVIOUS
<1>2. Part(f, {}) = 0
  BY <1>1, PartLaw
<1>3. Total(f) = Part(f, {})
  BY <1>1, TotalSome
<1> QED BY <1>2, <1>3

\* where nothing is negative, nothing is more than the sum
LEMMA TotalNonnegative ==
  ASSUME NEW S, IsFiniteSet(S), NEW f \in [S -> Int], \A x \in S : f[x] >= 0
  PROVE  Total(f) >= 0 /\ \A x \in S : f[x] <= Total(f)
<1>0. ASSUME NEW T, IsFiniteSet(T), NEW h \in [T -> Int], \A x \in T : h[x] >= 0
      PROVE  Total(h) >= 0
  <2> DEFINE z == [x \in T |-> 0]
  <2>1. z \in [T -> Int] /\ \A x \in T : z[x] = 0
    OBVIOUS
  <2> HIDE DEF z
  <2>2. Total(z) = 0
    BY <1>0, <2>1, TotalZeros
  <2>3. \A x \in T : z[x] <= h[x]
    BY <1>0, <2>1
  <2>4. Total(z) <= Total(h)
    BY <1>0, <2>1, <2>3, TotalLe
  <2>5. Total(h) \in Int
    BY <1>0, TotalLaw
  <2> QED BY <2>2, <2>4, <2>5
<1>1. Total(f) >= 0
  BY <1>0
<1>2. ASSUME NEW x \in S PROVE f[x] <= Total(f)
  <2> DEFINE h == [y \in S \ {x} |-> f[y]]
  <2>1. h \in [S \ {x} -> Int] /\ IsFiniteSet(S \ {x}) /\ \A y \in S \ {x} : h[y] >= 0
    BY FS_Subset
  <2>2. Total(f) = f[x] + Total(h)
    BY TotalLaw
  <2> HIDE DEF h
  <2>3. Total(h) >= 0 /\ Total(h) \in Int
    BY <2>1, <1>0, TotalLaw
  <2>4. f[x] \in Int
    OBVIOUS
  <2> QED BY <2>2, <2>3, <2>4
<1> QED BY <1>1, <1>2

\* edges of positive weight between two symbols
LEMMA WeightIs ==
  ASSUME search \in Searches, NEW u \in Node, NEW v \in Neighbors(u)
  PROVE  Weight(u, v) \in Int /\ Weight(u, v) >= 1
<1>1. CASE u = v
  BY <1>1 DEF Weight
<1>2. CASE u # v
  <2> DEFINE B == Between(u, v)
             h == [i \in B |-> search.rows[i].w]
             Edge1 == [src : Int, dst : Int, w : Int, missing : BOOLEAN]
  <2>1. B # {}
    <3>1. ~Looped(u) /\ v \in Linked(u)
      BY <1>2 DEF Neighbors
    <3> QED BY <3>1 DEF Linked
  <2>2. B \in SUBSET DOMAIN search.rows /\ IsFiniteSet(DOMAIN search.rows)
    <3>1. search.rows \in Seq(Edge1)
      BY SearchTypes
    <3>2. DOMAIN search.rows = 1..Len(search.rows) /\ Len(search.rows) \in Nat
      BY <3>1
    <3>3. IsFiniteSet(DOMAIN search.rows)
      BY <3>2, FS_Interval
    <3> QED BY <3>3 DEF Between
  <2>3. \A i \in B : search.rows[i].w \in Int /\ search.rows[i].w >= 1
    <3>1. search.rows \in Seq(Edge1)
      BY SearchTypes
    <3>2. \A i \in DOMAIN search.rows : search.rows[i] \in Edge1
      <4> HIDE DEF Edge1
      <4> QED BY <3>1
    <3>3. \A i \in B : i \in DOMAIN search.rows /\ search.rows[i].w > 0
      BY DEF Between, Usable
    <3> QED BY <3>2, <3>3
  <2>4. IsFiniteSet(B)
    BY <2>2, FS_Subset
  <2> HIDE DEF B
  <2>5. h \in [B -> Int] /\ (\A i \in B : h[i] >= 0) /\ \E i \in B : h[i] >= 1
    BY <2>1, <2>3
  <2>6. Weight(u, v) = Total(h)
    BY <1>2 DEF Weight, B
  <2> HIDE DEF h
  <2>7. Total(h) \in Int /\ \A i \in B : h[i] <= Total(h) /\ h[i] \in Int
    BY <2>4, <2>5, TotalLaw, TotalNonnegative
  <2> QED BY <2>5, <2>6, <2>7
<1> QED BY <1>1, <1>2

\* a node has neighbors, and a degree of at least 1 (an isolated one has its loop)
LEMMA DegreeIs ==
  ASSUME search \in Searches, NEW u \in Node
  PROVE  /\ Neighbors(u) \in SUBSET Node /\ IsFiniteSet(Neighbors(u))
         /\ Cardinality(Neighbors(u)) \in Nat /\ Cardinality(Neighbors(u)) <= Cardinality(Node)
         /\ Degree(u) \in Int /\ Degree(u) >= 1
         /\ \A v \in Neighbors(u) : Weight(u, v) \in Int /\ Weight(u, v) >= 1
<1> DEFINE N == Neighbors(u)
           h == [v \in N |-> Weight(u, v)]
<1>1. N \in SUBSET Node /\ N # {}
  BY DEF Neighbors, Linked, Looped
<1>2. IsFiniteSet(N) /\ Cardinality(N) \in Nat /\ Cardinality(N) <= Cardinality(Node)
  BY <1>1, PushAssumption, FS_Subset, FS_CardinalityType
<1>3. \A v \in N : Weight(u, v) \in Int /\ Weight(u, v) >= 1
  BY WeightIs
<1>4. Degree(u) = Total(h)
  BY DEF Degree
<1> HIDE DEF N
<1>5. h \in [N -> Int] /\ (\A v \in N : h[v] >= 0 /\ h[v] >= 1)
  BY <1>3
<1> HIDE DEF h
<1>6. Total(h) \in Int /\ \A v \in N : h[v] <= Total(h) /\ h[v] \in Int
  BY <1>2, <1>5, TotalLaw, TotalNonnegative
<1>7. Total(h) >= 1
  <2>1. PICK v \in N : TRUE
    BY <1>1
  <2> QED BY <2>1, <1>5, <1>6
<1> QED BY <1>1, <1>2, <1>3, <1>4, <1>6, <1>7 DEF N

\* a finite set of numbers has a least and a greatest one
LEMMA Extremes ==
  ASSUME NEW S \in SUBSET Int, IsFiniteSet(S), S # {}
  PROVE  Min(S) \in S /\ Max(S) \in S /\ \A x \in S : Min(S) <= x /\ x <= Max(S)
<1> DEFINE Has(D) == (\E m \in D : \A x \in D : m <= x) /\ (\E m \in D : \A x \in D : x <= m)
           G == {D \in SUBSET S : D # {} => Has(D)}
<1>1. ASSUME NEW D \in SUBSET S, \A x \in D : D \ {x} \in G PROVE D \in G
  <2> SUFFICES ASSUME D # {} PROVE Has(D)
    OBVIOUS
  <2>1. PICK y \in D : TRUE
    OBVIOUS
  <2>2. CASE D \ {y} = {}
    <3>1. D = {y} /\ y \in Int
      BY <2>2
    <3>2. y <= y
      BY <3>1
    <3> QED BY <3>1, <3>2
  <2>3. CASE D \ {y} # {}
    <3>1. Has(D \ {y})
      BY <1>1, <2>1, <2>3
    <3>2. PICK l \in D \ {y} : \A x \in D \ {y} : l <= x
      BY <3>1
    <3>3. PICK g \in D \ {y} : \A x \in D \ {y} : x <= g
      BY <3>1
    <3>4. \A x \in D : x \in Int
      OBVIOUS
    <3>5. \E m \in D : \A x \in D : m <= x
      <4>1. CASE l <= y
        BY <3>2, <3>4, <4>1
      <4>2. CASE ~(l <= y)
        <5>1. \A x \in D : y <= x
          BY <3>2, <3>4, <4>2
        <5> QED BY <5>1, <2>1
      <4> QED BY <4>1, <4>2
    <3>6. \E m \in D : \A x \in D : x <= m
      <4>1. CASE y <= g
        BY <3>3, <3>4, <4>1
      <4>2. CASE ~(y <= g)
        <5>1. \A x \in D : x <= y
          BY <3>3, <3>4, <4>2
        <5> QED BY <5>1, <2>1
      <4> QED BY <4>1, <4>2
    <3> QED BY <3>5, <3>6
  <2> QED BY <2>2, <2>3
<1> HIDE DEF G
<1>2. S \in G
  BY <1>1, FinInduct
<1>3. Has(S)
  BY <1>2 DEF G
<1>4. Min(S) \in S /\ \A x \in S : Min(S) <= x
  BY <1>3 DEF Min
<1>5. Max(S) \in S /\ \A x \in S : x <= Max(S)
  BY <1>3 DEF Max
<1> QED BY <1>4, <1>5

\* a normalised score is a number, also where all scores are the same
LEMMA NormIs ==
  ASSUME NEW layer \in Seq(Hit), NEW i \in DOMAIN layer
  PROVE  Norm(layer, layer[i]) \in Int
<1> DEFINE S == Scores(layer)
           h == layer[i]
           t == [j \in DOMAIN layer |-> layer[j].score]
<1>1. DOMAIN layer = 1..Len(layer) /\ Len(layer) \in Nat /\ \A j \in 1..Len(layer) : layer[j] \in Hit
  OBVIOUS
<1>2. \A j \in 1..Len(layer) : layer[j].score \in Int
  BY <1>1 DEF Hit
<1>3. t \in Seq(Int) /\ Range(t) = S
  <2>1. Range(t) = S
    BY DEF Range, Scores
  <2> QED BY <2>1, <1>1, <1>2
<1>4. S \in SUBSET Int /\ IsFiniteSet(S)
  <2> HIDE DEF t, S
  <2> QED BY <1>3, RangeFinite
<1>5. h.score \in S
  BY DEF Scores, Range
<1> HIDE DEF S, h
<1>6. Min(S) \in Int /\ Max(S) \in Int /\ h.score \in Int /\ Min(S) <= h.score /\ h.score <= Max(S)
  <2>1. S # {}
    BY <1>5
  <2> QED BY <1>4, <1>5, <2>1, Extremes
<1>7. LowestScore(layer) = Min(S) /\ Span(layer) = Max(S) - Min(S)
  BY DEF LowestScore, Span, S
<1>8. Span(layer) \in Int /\ Span(layer) >= 0 /\ h.score - LowestScore(layer) \in Int
  BY <1>6, <1>7
<1>9. Norm(layer, h) \in Int
  <2>1. CASE Span(layer) = 0
    BY <2>1, PushAssumption DEF Norm
  <2>2. CASE Span(layer) # 0 /\ h.score = LowestScore(layer)
    <3>1. Norm(layer, h) = Unit \div 1000
      BY <2>2 DEF Norm
    <3> QED BY <3>1, PushAssumption
  <2>3. CASE Span(layer) # 0 /\ h.score # LowestScore(layer)
    <3>1. Norm(layer, h) = (Unit * (h.score - LowestScore(layer))) \div Span(layer)
      BY <2>3 DEF Norm
    <3>2. Unit * (h.score - LowestScore(layer)) \in Int
      BY <1>8, PushAssumption
    <3>3. Span(layer) > 0
      BY <1>8, <2>3
    <3> QED BY <3>1, <3>2, <3>3, <1>8
  <2> QED BY <2>1, <2>2, <2>3
<1> QED BY <1>9 DEF h

\* A seed has mass only where some layer hits it.
LEMMA SeedIs ==
  ASSUME search \in Searches
  PROVE  /\ Seed(search.layers) \in [Node -> Int]
         /\ \A u \in Node : Seed(search.layers)[u] # 0 => u \in Range(SeedOrder(search.layers))
         /\ SeedOrder(search.layers) \in Seq(Node)
<1> DEFINE layers == search.layers
           all == FlattenSeq(layers)
           t == [i \in DOMAIN all |-> all[i].node]
<1>1. /\ layers \in Seq(Seq(Hit)) /\ IsFiniteSet(DOMAIN layers)
      /\ \A l \in DOMAIN layers : layers[l] \in Seq(Hit)
  <2>1. layers \in Seq(Seq(Hit))
    BY SearchTypes
  <2> HIDE DEF layers
  <2>2. DOMAIN layers = 1..Len(layers) /\ Len(layers) \in Nat
    BY <2>1
  <2>3. IsFiniteSet(DOMAIN layers)
    BY <2>2, FS_Interval
  <2> QED BY <2>1, <2>2, <2>3
<1> HIDE DEF layers
<1>2. all \in Seq(Hit) /\ Range(all) = UNION {Range(layers[l]) : l \in DOMAIN layers}
  BY <1>1, FlattenRange
<1>3. t \in Seq(Int) /\ Range(t) = {h.node : h \in Range(all)}
  <2> HIDE DEF all
  <2> QED BY <1>2, NodesOf
<1>4. SeedOrder(layers) = Firsts(t, Node)
  BY DEF SeedOrder
<1>5. /\ Firsts(t, Node) \in Seq(Int) /\ Range(Firsts(t, Node)) = Range(t) \cap Node
  <2> HIDE DEF t
  <2> QED BY <1>3, FirstsKeep
<1>6. SeedOrder(layers) \in Seq(Node)
  <2> DEFINE s == SeedOrder(layers)
  <2>1. s \in Seq(Int) /\ Range(s) \in SUBSET Node
    BY <1>4, <1>5
  <2> HIDE DEF s
  <2>2. Len(s) \in Nat /\ \A i \in 1..Len(s) : s[i] \in Range(s)
    BY <2>1 DEF Range
  <2>3. s = [i \in 1..Len(s) |-> s[i]]
    BY <2>1
  <2>4. s \in Seq(Node)
    BY <2>1, <2>2, <2>3
  <2> QED BY <2>4 DEF s
<1>7. ASSUME NEW l \in DOMAIN layers, NEW u
      PROVE  /\ Share(layers[l], u) \in Int
             /\ Share(layers[l], u) # 0 => \E h \in Range(layers[l]) : h.node = u
  <2> DEFINE layer == layers[l]
             J == {j \in DOMAIN layer : layer[j].node = u}
             h == [i \in J |-> Norm(layer, layer[i])]
  <2>1. layer \in Seq(Hit)
    BY <1>1
  <2> HIDE DEF layer
  <2>2. J \in SUBSET DOMAIN layer /\ IsFiniteSet(DOMAIN layer)
    <3>1. DOMAIN layer = 1..Len(layer) /\ Len(layer) \in Nat
      BY <2>1
    <3> QED BY <3>1, FS_Interval
  <2>3. IsFiniteSet(J) /\ h \in [J -> Int]
    <3>1. \A i \in J : Norm(layer, layer[i]) \in Int
      BY <2>1, <2>2, NormIs
    <3> HIDE DEF J
    <3> QED BY <3>1, <2>2, FS_Subset
  <2>4. Share(layer, u) = Total(h)
    BY DEF Share
  <2>5. J # {} => \E g \in Range(layer) : g.node = u
    BY DEF Range
  <2> HIDE DEF J, h
  <2>6. Total(h) \in Int /\ (J = {} => Total(h) = 0)
    BY <2>3, TotalLaw
  <2> QED BY <2>4, <2>5, <2>6 DEF layer
<1>8. ASSUME NEW u \in Node
      PROVE  /\ Total([l \in DOMAIN layers |-> Share(layers[l], u)]) \in Int
             /\ Total([l \in DOMAIN layers |-> Share(layers[l], u)]) # 0 => u \in Range(SeedOrder(layers))
  <2> DEFINE h == [l \in DOMAIN layers |-> Share(layers[l], u)]
  <2>1. h \in [DOMAIN layers -> Int] /\ \A l \in DOMAIN layers : h[l] = Share(layers[l], u)
    BY <1>7
  <2> HIDE DEF h
  <2>2. Total(h) \in Int
    BY <2>1, <1>1, TotalLaw
  <2>3. ASSUME Total(h) # 0 PROVE u \in Range(SeedOrder(layers))
    <3>1. \E l \in DOMAIN layers : h[l] # 0
      BY <2>1, <2>3, <1>1, TotalZeros
    <3>2. PICK l \in DOMAIN layers : \E g \in Range(layers[l]) : g.node = u
      BY <3>1, <2>1, <1>7
    <3>3. u \in Range(t)
      <4>1. \E g \in Range(all) : g.node = u
        BY <3>2, <1>2
      <4> HIDE DEF t
      <4> QED BY <4>1, <1>3
    <3> QED BY <3>3, <1>4, <1>5
  <2> QED BY <2>2, <2>3 DEF h
<1>9. Seed(layers) = [u \in Node |-> Total([l \in DOMAIN layers |-> Share(layers[l], u)])]
  BY DEF Seed
<1> QED BY <1>6, <1>8, <1>9 DEF layers

-----------------------------------------------------------------------------
(* A push *)

\* rounding down
LEMMA Quotient ==
  ASSUME NEW a \in Int, NEW b \in Int, b > 0
  PROVE  a \div b \in Int /\ b * (a \div b) <= a /\ a <= b * (a \div b) + b
OBVIOUS

\* products, for the leaves that are not linear
LEMMA Times ==
  ASSUME NEW a \in Int, NEW b \in Int, NEW c \in Int
  PROVE  /\ c >= 0 /\ a <= b => c * a <= c * b
         /\ c >= 1 /\ c * a <= c * b => a <= b
         /\ c * (a + b) = c * a + c * b
<1>1. c * (a + b) = c * a + c * b
  OBVIOUS
<1>2. ASSUME NEW d \in Int, d >= 0, NEW x \in Int, NEW y \in Int, x <= y PROVE d * x <= d * y
  <2>1. y - x \in Int /\ y - x >= 0
    BY <1>2
  <2>2. d * (y - x) >= 0
    BY <1>2, <2>1
  <2>3. d * (y - x) = d * y - d * x
    OBVIOUS
  <2>4. d * y \in Int /\ d * x \in Int
    OBVIOUS
  <2> QED BY <2>2, <2>3, <2>4
<1>3. ASSUME c >= 1, c * a <= c * b PROVE a <= b
  <2> SUFFICES ASSUME b + 1 <= a PROVE FALSE
    OBVIOUS
  <2>1. c * (b + 1) <= c * a
    BY <1>2, <1>3
  <2>2. c * (b + 1) = c * b + c
    OBVIOUS
  <2>3. c * b \in Int /\ c * a \in Int
    OBVIOUS
  <2> QED BY <2>1, <2>2, <2>3, <1>3
<1> QED BY <1>1, <1>2, <1>3

\* What a node gives away is half of what it had, but for what is rounded off.
LEMMA Given ==
  ASSUME search \in Searches, NEW u \in Node, NEW r \in Int, r > 0
  PROVE  LET h == [v \in Neighbors(u) |-> (r * Weight(u, v)) \div (2 * Degree(u))]
         IN /\ h \in [Neighbors(u) -> Int] /\ \A v \in Neighbors(u) : h[v] >= 0
            /\ Total(h) \in Int
            /\ 2 * Total(h) <= r
            /\ r <= 2 * Total(h) + 2 * Cardinality(Neighbors(u))
<1> DEFINE N == Neighbors(u)
           d == Degree(u)
           wt(v) == Weight(u, v)
           h == [v \in N |-> (r * wt(v)) \div (2 * d)]
           w == [v \in N |-> wt(v)]
           one == [v \in N |-> 1]
<1>1. /\ N \in SUBSET Node /\ IsFiniteSet(N) /\ Cardinality(N) \in Nat
      /\ d \in Int /\ d >= 1 /\ \A v \in N : wt(v) \in Int /\ wt(v) >= 1
  BY DegreeIs
<1>2. d = Total(w)
  BY DEF Degree
<1>3. one \in [N -> Int] /\ Total(one) = Cardinality(N)
  BY <1>1, TotalOnes
<1> HIDE DEF N, d, wt
<1>4. 2 * d \in Int /\ 2 * d > 0 /\ 2 * d >= 1
  BY <1>1
<1>5. ASSUME NEW v \in N
      PROVE  /\ r * wt(v) \in Int /\ h[v] \in Int /\ h[v] >= 0
             /\ (2 * d) * h[v] <= r * wt(v) /\ r * wt(v) <= (2 * d) * h[v] + (2 * d)
  <2>1. wt(v) \in Int /\ wt(v) >= 1
    BY <1>1
  <2>2. r * wt(v) \in Int /\ r * wt(v) >= 0
    <3>1. r * 0 <= r * wt(v)
      BY <2>1, Times
    <3> QED BY <3>1, <2>1
  <2> DEFINE a == r * wt(v)
             b == 2 * d
  <2>3. h[v] = a \div b
    OBVIOUS
  <2> HIDE DEF a, b, h
  <2>4. a \in Int /\ a >= 0 /\ b \in Int /\ b > 0
    BY <2>2, <1>4 DEF a, b
  <2>5. h[v] \in Int /\ b * h[v] <= a /\ a <= b * h[v] + b
    BY <2>3, <2>4, Quotient
  <2>6. h[v] >= 0
    BY <2>3, <2>4
  <2> QED BY <2>2, <2>5, <2>6 DEF a, b
<1>6. h \in [N -> Int] /\ w \in [N -> Int] /\ \A v \in N : w[v] = wt(v) /\ h[v] >= 0 /\ one[v] = 1
  <2>1. w \in [N -> Int]
    BY <1>1
  <2>2. h = [v \in N |-> h[v]]
    OBVIOUS
  <2> HIDE DEF h
  <2>3. h \in [N -> Int]
    BY <1>5, <2>2
  <2> QED BY <2>1, <2>3, <1>5
<1> HIDE DEF h, w, one
<1> DEFINE b == 2 * d
<1> HIDE DEF b
<1> DEFINE rw == [v \in N |-> r * w[v]]
           bh == [v \in N |-> b * h[v]]
           bo == [v \in N |-> b * one[v]]
           sum == [v \in N |-> bh[v] + bo[v]]
<1>7. b \in Int /\ b >= 1 /\ b = 2 * d
  BY <1>4 DEF b
<1>8. Total(rw) = r * d /\ Total(bh) = b * Total(h) /\ Total(bo) = b * Cardinality(N)
  <2>1. ASSUME NEW c \in Int, NEW f \in [N -> Int]
        PROVE  Total([v \in N |-> c * f[v]]) = c * Total(f)
    BY <1>1, TotalScale
  <2>2. Total(rw) = r * Total(w)
    BY <1>6, <2>1
  <2>3. Total(bh) = b * Total(h)
    BY <1>6, <1>7, <2>1
  <2>4. Total(bo) = b * Total(one)
    BY <1>3, <1>7, <2>1
  <2> HIDE DEF rw, bh, bo
  <2> QED BY <2>2, <2>3, <2>4, <1>2, <1>3
<1>9. rw \in [N -> Int] /\ bh \in [N -> Int] /\ bo \in [N -> Int] /\ sum \in [N -> Int]
  <2>1. \A v \in N : r * w[v] \in Int /\ b * h[v] \in Int /\ b * one[v] \in Int
    BY <1>3, <1>6, <1>7
  <2> QED BY <2>1
<1>10. \A v \in N : bh[v] <= rw[v] /\ rw[v] <= sum[v]
  <2> TAKE v \in N
  <2>1. b * h[v] <= r * w[v] /\ r * w[v] <= b * h[v] + b /\ b * one[v] = b
    BY <1>5, <1>6, <1>7
  <2> QED BY <2>1
<1>11. Total(sum) = Total(bh) + Total(bo)
  <2> HIDE DEF bh, bo
  <2> QED BY <1>1, <1>9, TotalPlus
<1> HIDE DEF rw, bh, bo, sum
<1>12. Total(bh) <= Total(rw) /\ Total(rw) <= Total(sum)
  BY <1>1, <1>9, <1>10, TotalLe
<1>13. Total(h) \in Int
  BY <1>1, <1>6, TotalLaw
<1> DEFINE g == Total(h)
           n == Cardinality(N)
<1> HIDE DEF g, n
<1>14. b * g <= r * d /\ r * d <= b * g + b * n /\ g \in Int /\ n \in Int
  BY <1>8, <1>11, <1>12, <1>13, <1>1 DEF g, n
<1>15. d * (2 * g) <= d * r /\ d * r <= d * (2 * g + 2 * n)
  <2>1. b * g = d * (2 * g) /\ b * n = d * (2 * n) /\ r * d = d * r
    BY <1>7, <1>14, <1>1
  <2>2. d * (2 * g + 2 * n) = d * (2 * g) + d * (2 * n)
    BY <1>14, <1>1, Times
  <2> QED BY <1>14, <2>1, <2>2
<1>16. 2 * g <= r /\ r <= 2 * g + 2 * n
  <2>1. 2 * g \in Int /\ 2 * g + 2 * n \in Int
    BY <1>14
  <2> QED BY <2>1, <1>1, <1>15, Times
<1> QED BY <1>6, <1>13, <1>16 DEF g, n, h, N, d, wt

\* What a push does to the residuals.
LEMMA PushedIs ==
  ASSUME search \in Searches, residual \in [Node -> Int], NEW u \in Node, residual[u] > 0
  PROVE  /\ Pushed(u) \in [Node -> Int]
         /\ \A v \in Node \ {u} : Pushed(u)[v] >= residual[v]
         /\ \A v \in Node \ Neighbors(u) : Pushed(u)[v] = IF v = u THEN 0 ELSE residual[v]
         /\ Total(Pushed(u)) + residual[u] \div 2 <= Total(residual)
         /\ Total(residual) <= Total(Pushed(u)) + residual[u] \div 2 + Cardinality(Node)
<1> DEFINE N == Neighbors(u)
           r == residual[u]
           give(v) == (r * Weight(u, v)) \div (2 * Degree(u))
           h == [v \in N |-> give(v)]
           a == [v \in Node |-> IF v = u THEN 0 ELSE residual[v]]
           b == [v \in Node |-> IF v \in N THEN give(v) ELSE 0]
<1>1. r \in Int /\ r > 0 /\ IsFiniteSet(Node)
  BY PushAssumption
<1>2. /\ h \in [N -> Int] /\ (\A v \in N : h[v] >= 0) /\ Total(h) \in Int
      /\ 2 * Total(h) <= r /\ r <= 2 * Total(h) + 2 * Cardinality(N)
  <2> HIDE DEF r
  <2> QED BY <1>1, Given
<1>3. /\ N \in SUBSET Node
      /\ Cardinality(N) \in Nat /\ Cardinality(Node) \in Nat /\ Cardinality(N) <= Cardinality(Node)
  <2>1. Cardinality(Node) \in Nat
    BY <1>1, FS_CardinalityType
  <2> QED BY <2>1, DegreeIs
<1>4. Pushed(u) = [v \in Node |-> a[v] + b[v]]
  BY DEF Pushed
<1>5. \A v \in N : h[v] = give(v)
  OBVIOUS
<1> HIDE DEF N, give, h
<1>6. a \in [Node -> Int] /\ b \in [Node -> Int] /\ \A v \in Node : b[v] >= 0
  <2>1. \A v \in N : give(v) \in Int /\ give(v) >= 0
    BY <1>2, <1>5
  <2> QED BY <2>1
<1>7. \A v \in Node : a[v] = IF v = u THEN 0 ELSE residual[v]
  OBVIOUS
<1>8. \A v \in Node : b[v] = IF v \in N THEN h[v] ELSE 0
  BY <1>5
<1> HIDE DEF a, b, r
<1>9. Pushed(u) \in [Node -> Int] /\ \A v \in Node : Pushed(u)[v] = a[v] + b[v]
  BY <1>4, <1>6
<1>10. \A v \in Node \ {u} : Pushed(u)[v] >= residual[v]
  BY <1>6, <1>7, <1>9
<1>11. \A v \in Node \ N : Pushed(u)[v] = IF v = u THEN 0 ELSE residual[v]
  <2> TAKE v \in Node \ N
  <2>1. b[v] = 0 /\ a[v] \in Int /\ Pushed(u)[v] = a[v] + b[v]
    BY <1>6, <1>8, <1>9
  <2>2. Pushed(u)[v] = a[v]
    BY <2>1
  <2> QED BY <2>2, <1>7
<1>12. Total(Pushed(u)) = Total(a) + Total(b)
  BY <1>1, <1>4, <1>6, TotalPlus
<1>13. Total(a) = Total(residual) - r
  <2>1. Total(a) = Total(residual) - residual[u] + a[u]
    <3>1. \A v \in Node \ {u} : residual[v] = a[v]
      BY <1>7
    <3> QED BY <3>1, <1>1, <1>6, TotalChange
  <2>2. a[u] = 0 /\ Total(residual) \in Int
    BY <1>1, <1>7, TotalLaw
  <2>3. residual[u] = r
    BY DEF r
  <2> QED BY <2>1, <2>2, <2>3, <1>1
<1>14. Total(b) = Total(h)
  <2>1. Total(b) = Part(b, N)
    BY <1>1, <1>3, <1>6, <1>8, TotalSome
  <2>2. [v \in N |-> b[v]] = h
    <3>1. \A v \in N : b[v] = h[v]
      BY <1>8, <1>3
    <3>2. h = [v \in N |-> h[v]]
      BY <1>2
    <3> QED BY <3>1, <3>2
  <2> QED BY <2>1, <2>2 DEF Part
<1> DEFINE g == Total(h)
           t == Total(residual)
           c == Cardinality(Node)
           n == Cardinality(N)
           half == r \div 2
<1>15. /\ g \in Int /\ t \in Int /\ c \in Int /\ n \in Int /\ n <= c /\ half \in Int
       /\ 2 * half <= r /\ r <= 2 * half + 1
       /\ 2 * g <= r /\ r <= 2 * g + 2 * n
       /\ Total(Pushed(u)) = (t - r) + g
  <2>1. half \in Int /\ 2 * half <= r /\ r <= 2 * half + 1
    BY <1>1
  <2>2. t \in Int
    BY <1>1, TotalLaw
  <2> HIDE DEF half
  <2> QED BY <2>1, <2>2, <1>2, <1>3, <1>12, <1>13, <1>14
<1> HIDE DEF g, t, c, n, half
<1>16. Total(Pushed(u)) + half <= t /\ t <= Total(Pushed(u)) + half + c
  BY <1>15, <1>1
<1> QED BY <1>9, <1>10, <1>11, <1>16 DEF t, c, half, r, N

\* What a push pays for.
LEMMA Work ==
  ASSUME NEW E \in Int, E >= 0, NEW D \in Int, D >= 1, NEW r \in Int, NEW p \in Int, r <= 2 * p + 1,
         NEW T \in Int, NEW w \in Int, NEW e \in Int,
         T * w <= 2 * E * (e + w), T * D <= r * E
  PROVE  T * (w + D) <= 2 * E * ((e + p) + (w + D))
<1>1. r * E = E * r /\ E * r \in Int /\ E * (2 * p + 1) \in Int
  OBVIOUS
<1>2. 2 * p + 1 \in Int /\ 2 * D \in Int /\ 2 * p \in Int
  OBVIOUS
<1>3. E * r <= E * (2 * p + 1)
  BY <1>2, Times
<1>4. E * (2 * p + 1) <= E * (2 * p + 2 * D)
  BY <1>2, Times
<1>5. E * (2 * p + 2 * D) = 2 * E * (p + D)
  <2>1. 2 * p + 2 * D = 2 * (p + D)
    OBVIOUS
  <2> QED BY <2>1
<1>6. T * (w + D) = T * w + T * D /\ T * w \in Int /\ T * D \in Int
  BY Times
<1>7. 2 * E * ((e + p) + (w + D)) = 2 * E * (e + w) + 2 * E * (p + D)
  <2> DEFINE c == 2 * E
             x == e + w
             y == p + D
  <2>1. c \in Int /\ x \in Int /\ y \in Int /\ (e + p) + (w + D) = x + y
    OBVIOUS
  <2> HIDE DEF c, x, y
  <2>2. c * (x + y) = c * x + c * y
    BY <2>1, Times
  <2> QED BY <2>1, <2>2 DEF c, x, y
<1>8. 2 * E * (e + w) \in Int /\ 2 * E * (p + D) \in Int
  OBVIOUS
<1> QED BY <1>1, <1>3, <1>4, <1>5, <1>6, <1>7, <1>8

-----------------------------------------------------------------------------
(* The worklist *)

\* A seed above the threshold waits with all its mass, or has been pushed.
Clear ==
  \A u \in Node : LET m == Seed(search.layers)[u] IN
    Reaches(m, u) => (u \in listed /\ residual[u] >= m) \/ estimate[u] >= m \div 2

\* the inductive invariant
PInv ==
  /\ search \in Searches
  /\ estimate \in [Node -> Nat] /\ residual \in [Node -> Int]
  /\ active \in Seq(Node) /\ work \in Nat
  /\ NothingForgotten /\ MassIsKept /\ Clear

\* The graph does not change while it is searched.
LEMMA SameGraph ==
  ASSUME search' = search, NEW u \in Node
  PROVE  Degree(u)' = Degree(u)
<1>1. ASSUME NEW v \in Node PROVE Between(u, v)' = Between(u, v)
  BY DEF Between
<1>2. Linked(u)' = Linked(u)
  BY <1>1 DEF Linked
<1>3. Neighbors(u)' = Neighbors(u) /\ Neighbors(u) \in SUBSET Node
  BY <1>2 DEF Neighbors, Looped, Linked
<1>4. ASSUME NEW v \in Neighbors(u) PROVE Weight(u, v)' = Weight(u, v)
  BY <1>1, <1>3 DEF Weight
<1>5. [v \in Neighbors(u)' |-> Weight(u, v)'] = [v \in Neighbors(u) |-> Weight(u, v)]
  BY <1>3, <1>4
<1> QED BY <1>5 DEF Degree

\* the threshold, in numbers
LEMMA ReachesIs ==
  ASSUME search \in Searches, NEW u \in Node
  PROVE  /\ EpsDen \in Nat /\ Total(Seed(search.layers)) \in Int /\ Degree(u) \in Int /\ Degree(u) >= 1
         /\ \A m, n \in Int : Reaches(m, u) /\ m <= n => Reaches(n, u)
<1>1. Total(Seed(search.layers)) \in Int
  BY SeedIs, TotalLaw, PushAssumption
<1>2. ASSUME NEW m \in Int, NEW n \in Int, Reaches(m, u), m <= n PROVE Reaches(n, u)
  <2>1. EpsDen * m <= EpsDen * n
    BY <1>2, PushAssumption, Times
  <2>2. m * EpsDen = EpsDen * m /\ n * EpsDen = EpsDen * n
    BY PushAssumption
  <2>3. m * EpsDen \in Int /\ n * EpsDen \in Int /\ Total(Seed(search.layers)) * Degree(u) \in Int
    BY <1>1, DegreeIs, PushAssumption
  <2> QED BY <1>2, <2>1, <2>2, <2>3 DEF Reaches
<1> QED BY <1>1, <1>2, DegreeIs, PushAssumption

\* The seeds that clear the threshold are the worklist (seeding).
LEMMA PInvInit == PushInit => PInv
<1> SUFFICES ASSUME PushInit PROVE PInv
  OBVIOUS
<1>1. search \in Searches /\ residual = Seed(search.layers) /\ work = 0
  BY DEF PushInit
<1>2. IsFiniteSet(Node)
  BY PushAssumption
<1>3. residual \in [Node -> Int] /\ SeedOrder(search.layers) \in Seq(Node)
  BY <1>1, SeedIs
<1>4. estimate \in [Node -> Nat] /\ estimate \in [Node -> Int] /\ \A u \in Node : estimate[u] = 0
  BY DEF PushInit
<1>5. Total(estimate) = 0
  BY <1>2, <1>4, TotalZeros
<1> DEFINE S == {u \in Node : Reaches(residual[u], u)}
<1>6. /\ active \in Seq(Node) /\ IsInjective(active)
      /\ Range(active) = Range(SeedOrder(search.layers)) \cap S /\ listed = Range(active)
  <2>1. active = Firsts(SeedOrder(search.layers), S) /\ listed = Range(active)
    BY DEF PushInit
  <2> HIDE DEF S
  <2> QED BY <1>3, <2>1, FirstsKeep
<1>7. ASSUME NEW u \in Node, Reaches(residual[u], u) PROVE u \in listed
  <2>1. residual[u] # 0
    <3>1. residual[u] > 0
      BY <1>7 DEF Reaches
    <3> QED BY <3>1
  <2>2. u \in Range(SeedOrder(search.layers))
    BY <1>1, <2>1, SeedIs
  <2> QED BY <1>6, <1>7, <2>2
<1>8. NothingForgotten
  BY <1>6, <1>7 DEF NothingForgotten
<1>9. MassIsKept
  <2> DEFINE t == Total(residual)
  <2>1. t \in Int /\ Cardinality(Node) \in Nat /\ EpsDen \in Nat
    BY <1>2, <1>3, TotalLaw, FS_CardinalityType, PushAssumption
  <2> HIDE DEF t
  <2>2. t + 0 <= t /\ t - (0 + t) <= 0 * (Cardinality(Node) + 1) /\ t * 0 <= 2 * EpsDen * (0 + 0)
    BY <2>1
  <2>3. Total(estimate) + t = t
    BY <1>5, <2>1
  <2> QED BY <1>1, <1>5, <2>1, <2>2, <2>3 DEF MassIsKept, t
<1>10. Clear
  <2>1. ASSUME NEW u \in Node PROVE residual[u] >= residual[u]
    BY <1>3
  <2> QED BY <1>1, <1>7, <2>1 DEF Clear
<1> QED BY <1>1, <1>3, <1>4, <1>6, <1>8, <1>9, <1>10 DEF PInv

\* A popped node below the threshold is no seed that waits.
LEMMA PInvStale == PInv /\ PopStale => PInv'
<1> SUFFICES ASSUME PInv, PopStale PROVE PInv'
  OBVIOUS
<1>1. /\ search \in Searches /\ active \in Seq(Node) /\ residual \in [Node -> Int]
      /\ listed = Range(active) /\ IsInjective(active)
      /\ \A u \in Node : Reaches(residual[u], u) => u \in listed
  BY DEF PInv, NothingForgotten
<1> DEFINE u == Last(active)
<1>2. /\ active # <<>> /\ ~Reaches(residual[u], u)
      /\ active' = Front(active) /\ listed' = listed \ {u}
      /\ search' = search /\ estimate' = estimate /\ residual' = residual /\ work' = work
  BY DEF PopStale
<1>3. u \in Node /\ active' \in Seq(Node) /\ IsInjective(active') /\ Range(active') = listed'
  BY <1>1, <1>2, FrontProps
<1> HIDE DEF u
<1>4. ASSUME NEW v \in Node, NEW m PROVE Reaches(m, v)' <=> Reaches(m, v)
  BY <1>2, SameGraph DEF Reaches
<1>5. NothingForgotten'
  <2>1. ASSUME NEW v \in Node, Reaches(residual[v], v) PROVE v \in listed'
    BY <1>1, <1>2, <2>1
  <2>2. ASSUME NEW v \in Node, Reaches(residual[v], v)' PROVE v \in listed'
    <3>1. Reaches(residual[v], v)
      BY <1>2, <2>2, SameGraph DEF Reaches
    <3> QED BY <2>1, <3>1
  <2> QED BY <1>3, <2>2 DEF NothingForgotten
<1>6. MassIsKept'
  BY <1>2 DEF PInv, MassIsKept
<1>7. Clear'
  <2> SUFFICES ASSUME NEW v \in Node, NEW m, m = Seed(search.layers)[v], Reaches(m, v)
               PROVE  (v \in listed' /\ residual[v] >= m) \/ estimate[v] >= m \div 2
    BY <1>2, <1>4 DEF Clear
  <2>1. (v \in listed /\ residual[v] >= m) \/ estimate[v] >= m \div 2
    BY DEF PInv, Clear
  <2>2. CASE v = u
    <3>1. ~(residual[v] >= m)
      <4>1. m \in Int /\ residual[v] \in Int
        BY <1>1, SeedIs
      <4> QED BY <4>1, <1>1, <1>2, <2>2, ReachesIs
    <3> QED BY <2>1, <3>1
  <2> QED BY <1>2, <2>1, <2>2
<1>8. search' \in Searches /\ estimate' \in [Node -> Nat] /\ residual' \in [Node -> Int] /\ work' \in Nat
  BY <1>2 DEF PInv
<1> QED BY <1>3, <1>5, <1>6, <1>7, <1>8 DEF PInv

\* A push moves half of the mass on, and lists whom it lifts over the threshold.
LEMMA PInvPush == PInv /\ PopAndPush => PInv'
<1> SUFFICES ASSUME PInv, PopAndPush PROVE PInv'
  OBVIOUS
<1>1. /\ search \in Searches /\ active \in Seq(Node)
      /\ residual \in [Node -> Int] /\ estimate \in [Node -> Nat] /\ work \in Nat
      /\ listed = Range(active) /\ IsInjective(active)
      /\ \A u \in Node : Reaches(residual[u], u) => u \in listed
  BY DEF PInv, NothingForgotten
<1> DEFINE u == Last(active)
           new == {v \in Neighbors(u) : v \notin Listed(u) /\ Reaches(Pushed(u)[v], v)}
           rank == Ranked(new, [v \in new |-> 0])
           p == residual[u] \div 2
<1>2. /\ active # <<>> /\ Reaches(residual[u], u) /\ search' = search
      /\ estimate' = [estimate EXCEPT ![u] = @ + p] /\ residual' = Pushed(u)
      /\ active' = Front(active) \o rank /\ listed' = (listed \ {u}) \cup new
      /\ work' = work + Degree(u)
  BY DEF PopAndPush
<1>3. /\ u \in Node /\ Front(active) \in Seq(Node)
      /\ IsInjective(Front(active)) /\ Range(Front(active)) = listed \ {u}
  BY <1>1, <1>2, FrontProps
<1>4. new \in SUBSET Node /\ IsFiniteSet(new) /\ Node \subseteq Int /\ IsFiniteSet(Node)
  <2>1. Neighbors(u) \in SUBSET Node
    BY <1>1, <1>3, DegreeIs
  <2> QED BY <2>1, PushAssumption, FS_Subset
<1>5. new \cap (listed \ {u}) = {}
  BY DEF Listed
<1>6. ASSUME NEW v \in Neighbors(u), Reaches(Pushed(u)[v], v) PROVE v \in listed'
  BY <1>2, <1>6 DEF Listed
<1> HIDE DEF u, new
<1>7. rank \in Seq(new) /\ rank \in Seq(Node) /\ IsInjective(rank) /\ Range(rank) = new
  <2> DEFINE key == [v \in new |-> 0]
  <2>1. \A v \in new : key[v] \in Int
    OBVIOUS
  <2> HIDE DEF key
  <2>2. Ranked(new, key) \in Seq(new) /\ IsInjective(Ranked(new, key)) /\ Range(Ranked(new, key)) = new
    BY <1>4, <2>1, RankedAll
  <2>3. Ranked(new, key) \in Seq(Node)
    BY <1>4, <2>2, SeqWider
  <2> QED BY <2>2, <2>3 DEF key
<1> HIDE DEF rank
<1>8. active' \in Seq(Node) /\ IsInjective(active') /\ listed' = Range(active')
  BY <1>2, <1>3, <1>5, <1>7, RangeConcat, ConcatInjective
<1>9. residual[u] \in Int /\ residual[u] > 0
  BY <1>1, <1>2, <1>3 DEF Reaches
<1>10. /\ residual' \in [Node -> Int]
       /\ \A v \in Node \ {u} : residual'[v] >= residual[v]
       /\ \A v \in Node \ Neighbors(u) : residual'[v] = IF v = u THEN 0 ELSE residual[v]
       /\ Total(residual') + p <= Total(residual)
       /\ Total(residual) <= Total(residual') + p + Cardinality(Node)
  BY <1>1, <1>2, <1>3, <1>9, PushedIs
<1>11. p \in Nat /\ residual[u] <= 2 * p + 1
  BY <1>9
<1>12. /\ estimate' \in [Node -> Nat] /\ estimate'[u] = estimate[u] + p
       /\ \A v \in Node \ {u} : estimate'[v] = estimate[v]
  <2> HIDE DEF p
  <2>1. estimate[u] \in Nat /\ estimate[u] + p \in Nat
    BY <1>1, <1>3, <1>11
  <2>2. estimate' = [v \in Node |-> IF v = u THEN estimate[u] + p ELSE estimate[v]]
    BY <1>1, <1>2
  <2>3. \A v \in Node : estimate'[v] = IF v = u THEN estimate[u] + p ELSE estimate[v]
    BY <2>2
  <2>4. estimate' \in [Node -> Nat]
    BY <1>1, <2>1, <2>2
  <2> QED BY <1>3, <2>3, <2>4
<1>13. /\ Total(estimate') = Total(estimate) + p
       /\ Total(estimate) \in Int /\ Total(residual) \in Int /\ Total(residual') \in Int
  <2>1. estimate \in [Node -> Int] /\ estimate' \in [Node -> Int]
    BY <1>1, <1>12
  <2>2. \A v \in Node \ {u} : estimate[v] = estimate'[v]
    BY <1>12
  <2>3. Total(estimate') = Total(estimate) - estimate[u] + estimate'[u]
    <3> DEFINE f == estimate
               h == estimate'
    <3>1. f \in [Node -> Int] /\ h \in [Node -> Int] /\ \A v \in Node \ {u} : f[v] = h[v]
      BY <2>1, <2>2
    <3> HIDE DEF f, h
    <3>2. Total(h) = Total(f) - f[u] + h[u]
      <4>1. u \in Node /\ IsFiniteSet(Node)
        BY <1>3, <1>4
      <4> QED BY <3>1, <4>1, TotalChange
    <3> QED BY <3>2 DEF f, h
  <2>4. Total(estimate) \in Int /\ Total(residual) \in Int /\ Total(residual') \in Int
    BY <1>1, <1>4, <1>10, <2>1, TotalLaw
  <2>5. estimate[u] \in Int
    BY <1>3, <2>1
  <2> QED BY <1>11, <1>12, <2>3, <2>4, <2>5
<1>14. ASSUME NEW v \in Node, NEW m PROVE Reaches(m, v)' <=> Reaches(m, v)
  BY <1>2, SameGraph DEF Reaches
<1> HIDE DEF p
<1>15. NothingForgotten'
  <2>1. ASSUME NEW v \in Node, Reaches(residual'[v], v) PROVE v \in listed'
    <3>1. CASE v \in Neighbors(u)
      BY <1>2, <1>6, <2>1, <3>1
    <3>2. CASE v \notin Neighbors(u)
      <4>1. residual'[v] = IF v = u THEN 0 ELSE residual[v]
        BY <1>10, <3>2
      <4>2. v # u
        <5>1. residual'[v] > 0
          BY <2>1 DEF Reaches
        <5> QED BY <4>1, <5>1
      <4>3. v \in listed
        BY <1>1, <2>1, <4>1, <4>2
      <4> QED BY <1>2, <4>2, <4>3
    <3> QED BY <3>1, <3>2
  <2>2. ASSUME NEW v \in Node, Reaches(residual[v], v)' PROVE v \in listed'
    <3>1. Reaches(residual'[v], v)
      BY <1>2, <2>2, SameGraph DEF Reaches
    <3> QED BY <2>1, <3>1
  <2> QED BY <1>8, <2>2 DEF NothingForgotten
<1>16. MassIsKept'
  <2> DEFINE t == Total(Seed(search.layers))
             e == Total(estimate)
             r == Total(residual)
             s == Total(residual')
             D == Degree(u)
             n == Cardinality(Node)
  <2>1. t \in Int /\ EpsDen \in Int /\ EpsDen >= 0 /\ D \in Int /\ D >= 1
    BY <1>1, <1>3, ReachesIs
  <2>2. n \in Nat
    BY <1>4, FS_CardinalityType
  <2>3. /\ e + r <= t /\ t - (e + r) <= work * (n + 1)
        /\ t * work <= 2 * EpsDen * (e + work)
    BY DEF PInv, MassIsKept
  <2>4. t * D <= residual[u] * EpsDen
    BY <1>2, <2>1, <1>9 DEF Reaches
  <2>5. s + p <= r /\ r <= s + p + n
    BY <1>10
  <2>6. e \in Int /\ r \in Int /\ s \in Int /\ Total(estimate') = e + p
    BY <1>13
  <2> HIDE DEF t, e, r, s, D, n
  <2>7. t * (work + D) <= 2 * EpsDen * ((e + p) + (work + D))
    <3> DEFINE E == EpsDen
               w == work
               q == residual[u]
    <3>1. /\ E \in Int /\ E >= 0 /\ q \in Int /\ p \in Int /\ w \in Int
          /\ q <= 2 * p + 1 /\ t * w <= 2 * E * (e + w) /\ t * D <= q * E
      BY <1>1, <1>9, <1>11, <2>1, <2>3, <2>4
    <3> HIDE DEF E, w, q
    <3>2. t * (w + D) <= 2 * E * ((e + p) + (w + D))
      BY <3>1, <2>1, <2>6, Work, Zenon
    <3> QED BY <3>2 DEF E, w
  <2>8. (e + p) + s <= t
    BY <1>11, <2>1, <2>3, <2>5, <2>6
  <2>9. t - ((e + p) + s) <= (work + D) * (n + 1)
    <3>1. t - ((e + p) + s) <= work * (n + 1) + n
      <4>1. work * (n + 1) \in Int
        BY <1>1, <2>2
      <4> QED BY <1>11, <2>1, <2>2, <2>3, <2>5, <2>6, <4>1
    <3>2. (work + D) * (n + 1) = work * (n + 1) + D * (n + 1)
      BY <1>1, <2>1, <2>2
    <3>3. (n + 1) * 1 <= (n + 1) * D
      BY <2>1, <2>2, Times
    <3>4. work * (n + 1) \in Int /\ D * (n + 1) = (n + 1) * D /\ (n + 1) * D \in Int /\ (n + 1) * 1 = n + 1
      BY <1>1, <2>1, <2>2
    <3> QED BY <1>11, <2>1, <2>2, <2>6, <3>1, <3>2, <3>3, <3>4
  <2> QED BY <1>2, <2>6, <2>7, <2>8, <2>9 DEF MassIsKept, t, s, D, n
<1>17. Clear'
  <2> SUFFICES ASSUME NEW v \in Node, NEW m, m = Seed(search.layers)[v], Reaches(m, v)
               PROVE  (v \in listed' /\ residual'[v] >= m) \/ estimate'[v] >= m \div 2
    BY <1>2, <1>14 DEF Clear
  <2>1. (v \in listed /\ residual[v] >= m) \/ estimate[v] >= m \div 2
    BY DEF PInv, Clear
  <2>2. m \in Int /\ residual[v] \in Int /\ estimate[v] \in Nat
    BY <1>1, SeedIs
  <2>3. CASE v = u
    <3>1. estimate'[v] = estimate[v] + p /\ p = residual[v] \div 2
      BY <1>12, <2>3 DEF p
    <3>2. CASE residual[v] >= m
      <4>1. residual[v] \div 2 >= m \div 2
        BY <2>2, <3>2
      <4> QED BY <2>2, <3>1, <4>1, <1>11
    <3>3. CASE estimate[v] >= m \div 2
      BY <2>2, <3>1, <3>3, <1>11
    <3> QED BY <2>1, <3>2, <3>3
  <2>4. CASE v # u
    <3>1. residual'[v] >= residual[v] /\ residual'[v] \in Int /\ estimate'[v] = estimate[v]
      BY <1>10, <1>12, <2>4
    <3>2. v \in listed => v \in listed'
      BY <1>2, <2>4
    <3> QED BY <2>1, <2>2, <3>1, <3>2
  <2> QED BY <2>3, <2>4
<1>18. search' \in Searches /\ work' \in Nat
  <2>1. Degree(u) \in Int /\ Degree(u) >= 1
    BY <1>1, <1>3, DegreeIs
  <2> QED BY <1>1, <1>2, <2>1
<1> QED BY <1>8, <1>10, <1>12, <1>15, <1>16, <1>17, <1>18 DEF PInv

\* What is found, in every behaviour, is sound.
LEMMA PInvSound == PInv => DiffusionIsSound
<1> SUFFICES ASSUME PInv PROVE DiffusionIsSound
  OBVIOUS
<1>1. NothingForgotten /\ MassIsKept
  BY DEF PInv
<1>2. CapsuleOnlyAdds
  <2>1. estimate \in [Node -> Int]
    BY DEF PInv
  <2> QED BY <2>1, CapsulesAdd DEF PInv
<1>3. ClearSeedsSurvive
  <2> SUFFICES ASSUME active = <<>>, NEW u \in Node, Reaches(Seed(search.layers)[u], u)
               PROVE  estimate[u] >= Seed(search.layers)[u] \div 2
    BY DEF ClearSeedsSurvive, Pushing
  <2>1. listed = {}
    <3>1. Range(active) = {}
      BY DEF Range
    <3> QED BY <1>1, <3>1 DEF NothingForgotten
  <2> QED BY <2>1 DEF PInv, Clear
<1> QED BY <1>1, <1>2, <1>3 DEF DiffusionIsSound

\* In every state of a diffusion (approximate_ppr_push) each node above the threshold is on the
\* worklist, once, and no mass is made or lost but for rounding, at the price of the degrees
\* pushed; at its end the clear seeds have kept their share, and every capsule (compose_capsule)
\* names a symbol once and only adds behind the hits, and behind a smaller capsule.
THEOREM DiffusionStaysSound == PushSpec => []DiffusionIsSound
<1>1. PInv /\ [PushNext]_pushVars => PInv'
  <2> SUFFICES ASSUME PInv, [PushNext]_pushVars PROVE PInv'
    OBVIOUS
  <2>1. CASE PopStale
    BY <2>1, PInvStale
  <2>2. CASE PopAndPush
    BY <2>2, PInvPush
  <2>3. CASE UNCHANGED pushVars
    <3>1. ASSUME NEW u \in Node, NEW m PROVE Reaches(m, u)' <=> Reaches(m, u)
      BY <2>3, SameGraph DEF Reaches, pushVars
    <3>2. ASSUME NEW u \in Node PROVE Reaches(residual[u], u)' <=> Reaches(residual[u], u)
      BY <2>3, SameGraph DEF Reaches, pushVars
    <3>3. NothingForgotten'
      BY <2>3, <3>2 DEF PInv, NothingForgotten, pushVars
    <3>4. Clear'
      BY <2>3, <3>1 DEF PInv, Clear, pushVars
    <3> QED BY <2>3, <3>3, <3>4 DEF PInv, MassIsKept, pushVars
  <2> QED BY <2>1, <2>2, <2>3 DEF PushNext
<1> QED BY <1>1, PInvInit, PInvSound, PTL DEF PushSpec
=============================================================================
