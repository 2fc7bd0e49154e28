-------------------------- MODULE SubsequenceTheorems ------------------------
(***************************************************************************)
(* What is kept of a sequence: the queue of the event loop seen by the     *)
(* runner, the line of a game, the commits in a log and the messages about *)
(* a game are all parts of sequences that grow at their end.               *)
(***************************************************************************)
EXTENDS Subsequences, WellFoundedInduction, TLAPS

\* Induction, with a set for the property: what a prover can instantiate.
LEMMA NatSetInduction ==
  ASSUME NEW T \in SUBSET Nat, 0 \in T, \A n \in T : n + 1 \in T
  PROVE  T = Nat
<1> DEFINE R == {ss \in Nat \X Nat : ss[1] < ss[2]}
<1>1. IsWellFoundedOn(R, Nat)
  BY NatLessThanWellFounded DEF OpToRel
<1>2. \A a, b \in Nat : a < b => <<a, b>> \in R
  OBVIOUS
<1>3. SUFFICES ASSUME Nat \ T # {} PROVE FALSE
  OBVIOUS
<1>4. PICK x \in Nat \ T : \A y \in Nat \ T : ~(<<y, x>> \in R)
  <2>1. Nat \ T \subseteq Nat
    OBVIOUS
  <2>2. QED
    BY <1>1, <1>3, <2>1, WFMin
<1> HIDE DEF R
<1>5. x # 0 /\ x - 1 \in Nat /\ x - 1 < x
  BY SMT
<1>6. x - 1 \in T
  BY <1>2, <1>4, <1>5
<1>7. QED
  BY <1>5, <1>6

-----------------------------------------------------------------------------
(* The recursion behind Kept.                                              *)

KeepAt(f, s, S, n) ==
  IF n = 0 THEN <<>> ELSE IF s[n] \in S THEN Append(f[n - 1], s[n]) ELSE f[n - 1]
Keeping(f, s, S, n) == f = [k \in 0 .. n |-> KeepAt(f, s, S, k)]

LEMMA KeepingExists ==
  ASSUME NEW s, NEW S, NEW n \in Nat
  PROVE  \E f : Keeping(f, s, S, n)
<1> DEFINE T == {k \in Nat : \E f : Keeping(f, s, S, k)}
<1>1. 0 \in T
  <2> DEFINE f == [k \in 0 .. 0 |-> <<>>]
  <2>1. \A k \in 0 .. 0 : KeepAt(f, s, S, k) = <<>>
    BY DEF KeepAt
  <2>2. Keeping(f, s, S, 0)
    BY <2>1 DEF Keeping
  <2>3. QED
    BY <2>2
<1>2. ASSUME NEW k \in T
      PROVE  k + 1 \in T
  <2>1. PICK f : Keeping(f, s, S, k)
    OBVIOUS
  <2> DEFINE e == IF s[k + 1] \in S THEN Append(f[k], s[k + 1]) ELSE f[k]
             g == [i \in 0 .. k + 1 |-> IF i = k + 1 THEN e ELSE f[i]]
  <2>2. k \in Nat /\ \A i \in 0 .. k : g[i] = f[i] /\ f[i] = KeepAt(f, s, S, i)
    BY <2>1 DEF Keeping
  <2>3. g[k + 1] = KeepAt(g, s, S, k + 1)
    <3>1. (k + 1) - 1 = k /\ k + 1 # 0 /\ k + 1 \in 0 .. k + 1 /\ g[k] = f[k]
      BY <2>2
    <3>2. QED
      BY <3>1 DEF KeepAt
  <2>4. ASSUME NEW i \in 0 .. k
        PROVE  g[i] = KeepAt(g, s, S, i)
    <3>1. i # 0 => i - 1 \in 0 .. k
      BY <2>2
    <3>2. i # 0 => g[i - 1] = f[i - 1]
      BY <2>2, <3>1
    <3>3. KeepAt(g, s, S, i) = KeepAt(f, s, S, i)
      BY <3>2 DEF KeepAt
    <3>4. QED
      BY <2>2, <3>3
  <2>5. \A i \in 0 .. k + 1 : i = k + 1 \/ i \in 0 .. k
    BY <2>2
  <2>6. \A i \in 0 .. k + 1 : g[i] = KeepAt(g, s, S, i)
    BY <2>3, <2>4, <2>5
  <2>7. Keeping(g, s, S, k + 1)
    <3>1. g = [i \in 0 .. k + 1 |-> g[i]]
      OBVIOUS
    <3> HIDE DEF g
    <3>2. QED
      BY <2>6, <3>1 DEF Keeping
  <2> HIDE DEF g
  <2>8. QED
    BY <2>2, <2>7
<1>3. T = Nat
  <2> HIDE DEF T
  <2>1. T \subseteq Nat
    BY DEF T
  <2>2. QED
    BY <1>1, <1>2, <2>1, NatSetInduction
<1>4. QED
  BY <1>3

\* Sequences that agree have recursions that agree.
LEMMA KeepingsAgree ==
  ASSUME NEW s, NEW t, NEW S, NEW R, NEW n \in Nat, NEW m \in Nat, NEW f, NEW g,
         Keeping(f, s, S, n), Keeping(g, t, R, m), NEW b \in Nat, b <= n, b <= m,
         \A i \in 1 .. b : s[i] = t[i] /\ (s[i] \in S <=> t[i] \in R)
  PROVE  f[b] = g[b]
<1> DEFINE T == {k \in Nat : k <= b => f[k] = g[k]}
<1>1. /\ \A k \in 0 .. n : f[k] = KeepAt(f, s, S, k)
      /\ \A k \in 0 .. m : g[k] = KeepAt(g, t, R, k)
  BY DEF Keeping
<1>2. 0 \in T
  BY <1>1 DEF KeepAt
<1>3. ASSUME NEW k \in T
      PROVE  k + 1 \in T
  <2>1. SUFFICES ASSUME k + 1 <= b PROVE f[k + 1] = g[k + 1]
    OBVIOUS
  <2>2. /\ k + 1 \in 0 .. n /\ k + 1 \in 0 .. m /\ k + 1 \in 1 .. b
        /\ (k + 1) - 1 = k /\ k + 1 # 0 /\ f[k] = g[k]
    BY <2>1
  <2>3. /\ f[k + 1] = KeepAt(f, s, S, k + 1) /\ g[k + 1] = KeepAt(g, t, R, k + 1)
        /\ s[k + 1] = t[k + 1] /\ (s[k + 1] \in S <=> t[k + 1] \in R)
    BY <1>1, <2>2
  <2>4. QED
    BY <2>2, <2>3 DEF KeepAt
<1>4. T = Nat
  <2> HIDE DEF T
  <2>1. T \subseteq Nat
    BY DEF T
  <2>2. QED
    BY <1>2, <1>3, <2>1, NatSetInduction
<1>5. QED
  BY <1>4

LEMMA KeptIsKeeping ==
  ASSUME NEW V, NEW s \in Seq(V), NEW S
  PROVE  \E f : Keeping(f, s, S, Len(s)) /\ Kept(s, S) = f[Len(s)]
<1> DEFINE f == CHOOSE f : Keeping(f, s, S, Len(s))
<1>1. Keeping(f, s, S, Len(s))
  <2>1. Len(s) \in Nat
    OBVIOUS
  <2>2. \E h : Keeping(h, s, S, Len(s))
    BY <2>1, KeepingExists
  <2>3. QED
    BY <2>2
<1>2. Kept(s, S) = f[Len(s)]
  BY DEF Kept, Keeping, KeepAt
<1>3. QED
  BY <1>1, <1>2

-----------------------------------------------------------------------------
(* What is kept of a sequence, from its end.                               *)

LEMMA KeptEmpty ==
  ASSUME NEW S
  PROVE  Kept(<<>>, S) = <<>>
<1>1. <<>> \in Seq({}) /\ Len(<<>>) = 0
  OBVIOUS
<1>2. PICK f : Keeping(f, <<>>, S, 0) /\ Kept(<<>>, S) = f[0]
  BY <1>1, KeptIsKeeping
<1>3. QED
  BY <1>2 DEF Keeping, KeepAt

LEMMA KeptStep ==
  ASSUME NEW V, NEW s \in Seq(V), NEW e \in V, NEW S
  PROVE  Kept(Append(s, e), S) = IF e \in S THEN Append(Kept(s, S), e) ELSE Kept(s, S)
<1> DEFINE r == Append(s, e)
           n == Len(s)
<1>1. /\ n \in Nat /\ Len(r) = n + 1 /\ r[n + 1] = e /\ r \in Seq(V)
      /\ \A i \in 1 .. n : r[i] = s[i]
  OBVIOUS
<1> HIDE DEF r, n
<1>2. PICK f : Keeping(f, s, S, n) /\ Kept(s, S) = f[n]
  BY KeptIsKeeping DEF n
<1>3. PICK g : Keeping(g, r, S, n + 1) /\ Kept(r, S) = g[n + 1]
  BY <1>1, KeptIsKeeping
<1>4. g[n] = f[n]
  <2>1. n + 1 \in Nat /\ n <= n + 1 /\ n <= n
    BY <1>1
  <2>2. QED
    BY <1>1, <1>2, <1>3, <2>1, KeepingsAgree
<1>5. g[n + 1] = KeepAt(g, r, S, n + 1)
  <2>1. n + 1 \in 0 .. n + 1
    BY <1>1
  <2>2. QED
    BY <1>3, <2>1 DEF Keeping
<1>6. (n + 1) - 1 = n /\ n + 1 # 0
  BY <1>1
<1>7. QED
  BY <1>1, <1>2, <1>3, <1>4, <1>5, <1>6 DEF KeepAt, r

LEMMA SequenceInduction ==
  ASSUME NEW V, NEW T \in SUBSET Seq(V), <<>> \in T,
         \A s \in T : \A e \in V : Append(s, e) \in T
  PROVE  T = Seq(V)
<1> DEFINE L == {n \in Nat : \A s \in Seq(V) : Len(s) = n => s \in T}
<1>1. 0 \in L
  BY SMT
<1>2. ASSUME NEW n \in L
      PROVE  n + 1 \in L
  <2>1. SUFFICES ASSUME NEW s \in Seq(V), Len(s) = n + 1 PROVE s \in T
    BY <1>2
  <2> DEFINE front == [i \in 1 .. n |-> s[i]]
  <2>2. front \in Seq(V) /\ Len(front) = n /\ s[n + 1] \in V
    BY <2>1
  <2>3. s = Append(front, s[n + 1])
    BY <2>1, <2>2
  <2>4. front \in T
    BY <1>2, <2>2
  <2>5. QED
    BY <2>2, <2>3, <2>4
<1>3. L = Nat
  <2> HIDE DEF L
  <2>1. L \subseteq Nat
    BY DEF L
  <2>2. QED
    BY <1>1, <1>2, <2>1, NatSetInduction
<1>4. \A s \in Seq(V) : Len(s) \in Nat
  OBVIOUS
<1>5. QED
  BY <1>3, <1>4

LEMMA KeptType ==
  ASSUME NEW V, NEW s \in Seq(V), NEW S
  PROVE  Kept(s, S) \in Seq(V \cap S) /\ Kept(s, S) \in Seq(V)
<1> DEFINE T == {q \in Seq(V) : Kept(q, S) \in Seq(V \cap S)}
<1>1. <<>> \in T
  <2>1. Kept(<<>>, S) = <<>>
    BY KeptEmpty
  <2>2. <<>> \in Seq(V) /\ <<>> \in Seq(V \cap S)
    OBVIOUS
  <2>3. QED
    BY <2>1, <2>2
<1>2. ASSUME NEW q \in T, NEW e \in V
      PROVE  Append(q, e) \in T
  <2>1. Kept(Append(q, e), S) = IF e \in S THEN Append(Kept(q, S), e) ELSE Kept(q, S)
    BY KeptStep
  <2>2. e \in S => Append(Kept(q, S), e) \in Seq(V \cap S)
    BY <1>2
  <2>3. Append(q, e) \in Seq(V) /\ Kept(q, S) \in Seq(V \cap S)
    BY <1>2
  <2>4. Kept(Append(q, e), S) \in Seq(V \cap S)
    BY <2>1, <2>2, <2>3, Zenon
  <2>5. QED
    BY <2>3, <2>4
<1>3. T = Seq(V)
  <2> HIDE DEF T
  <2>1. T \subseteq Seq(V)
    BY DEF T
  <2>2. QED
    BY <1>1, <1>2, <2>1, SequenceInduction
<1>4. Kept(s, S) \in Seq(V \cap S)
  BY <1>3
<1>5. QED
  BY <1>4

\* Sequences of the same shape keep the same, and what is put together is
\* kept piece by piece.
LEMMA KeptSame ==
  ASSUME NEW V, NEW s \in Seq(V), NEW S, NEW R,
         \A i \in DOMAIN s : s[i] \in S <=> s[i] \in R
  PROVE  Kept(s, S) = Kept(s, R)
<1>1. PICK n \in Nat : n = Len(s) /\ DOMAIN s = 1 .. n
  OBVIOUS
<1>2. PICK f : Keeping(f, s, S, n) /\ Kept(s, S) = f[n]
  BY <1>1, KeptIsKeeping
<1>3. PICK g : Keeping(g, s, R, n) /\ Kept(s, R) = g[n]
  BY <1>1, KeptIsKeeping
<1>4. n <= n /\ \A i \in 1 .. n : s[i] = s[i] /\ (s[i] \in S <=> s[i] \in R)
  BY <1>1
<1>5. f[n] = g[n]
  BY <1>2, <1>3, <1>4, KeepingsAgree
<1>6. QED
  BY <1>2, <1>3, <1>5

LEMMA KeptConcat ==
  ASSUME NEW V, NEW s \in Seq(V), NEW t \in Seq(V), NEW S
  PROVE  Kept(s \o t, S) = Kept(s, S) \o Kept(t, S)
<1> DEFINE T == {q \in Seq(V) : Kept(s \o q, S) = Kept(s, S) \o Kept(q, S)}
<1>1. <<>> \in T
  <2>1. Kept(s, S) \in Seq(V) /\ Kept(<<>>, S) = <<>>
    BY KeptType, KeptEmpty
  <2>2. s \o <<>> = s /\ Kept(s, S) \o <<>> = Kept(s, S)
    BY <2>1
  <2>3. QED
    BY <2>1, <2>2
<1>2. ASSUME NEW q \in T, NEW e \in V
      PROVE  Append(q, e) \in T
  <2>1. s \o Append(q, e) = Append(s \o q, e) /\ s \o q \in Seq(V) /\ Append(q, e) \in Seq(V)
    BY <1>2
  <2>2. /\ Kept(Append(q, e), S) = IF e \in S THEN Append(Kept(q, S), e) ELSE Kept(q, S)
        /\ Kept(Append(s \o q, e), S)
             = IF e \in S THEN Append(Kept(s \o q, S), e) ELSE Kept(s \o q, S)
    <3>1. q \in Seq(V)
      BY <1>2
    <3>2. \A a \in Seq(V) :
            Kept(Append(a, e), S) = IF e \in S THEN Append(Kept(a, S), e) ELSE Kept(a, S)
      BY KeptStep
    <3> HIDE DEF T
    <3>3. QED
      BY <2>1, <3>1, <3>2, Zenon
  <2>3. Kept(s, S) \in Seq(V) /\ Kept(q, S) \in Seq(V)
    BY KeptType
  <2>4. Kept(s, S) \o Append(Kept(q, S), e) = Append(Kept(s, S) \o Kept(q, S), e)
    BY <2>3
  <2>5. Kept(s \o Append(q, e), S) = Kept(s, S) \o Kept(Append(q, e), S)
    BY <1>2, <2>1, <2>2, <2>4
  <2>6. QED
    BY <2>1, <2>5
<1>3. T = Seq(V)
  <2> HIDE DEF T
  <2>1. T \subseteq Seq(V)
    BY DEF T
  <2>2. QED
    BY <1>1, <1>2, <2>1, SequenceInduction
<1>4. QED
  BY <1>3

\* From its start.
LEMMA KeptHead ==
  ASSUME NEW V, NEW s \in Seq(V), s # <<>>, NEW S
  PROVE  /\ Head(s) \notin S => Kept(s, S) = Kept(Tail(s), S)
         /\ Head(s) \in S => /\ Kept(s, S) # <<>>
                             /\ Head(Kept(s, S)) = Head(s)
                             /\ Tail(Kept(s, S)) = Kept(Tail(s), S)
<1> DEFINE h == <<Head(s)>>
<1>1. h \in Seq(V) /\ Tail(s) \in Seq(V) /\ s = h \o Tail(s) /\ h = Append(<<>>, Head(s))
      /\ Head(s) \in V /\ <<>> \in Seq(V)
  OBVIOUS
<1>2. Kept(s, S) = Kept(h, S) \o Kept(Tail(s), S)
  <2> HIDE DEF h
  <2>1. \A a, b \in Seq(V) : Kept(a \o b, S) = Kept(a, S) \o Kept(b, S)
    BY KeptConcat
  <2>2. Kept(h \o Tail(s), S) = Kept(h, S) \o Kept(Tail(s), S)
    BY <1>1, <2>1, Zenon
  <2>3. QED
    BY <1>1, <2>2, Zenon
<1>3. Kept(h, S) = IF Head(s) \in S THEN Append(<<>>, Head(s)) ELSE <<>>
  <2> HIDE DEF h
  <2>1. Kept(Append(<<>>, Head(s)), S)
          = IF Head(s) \in S THEN Append(Kept(<<>>, S), Head(s)) ELSE Kept(<<>>, S)
    BY <1>1, KeptStep, Zenon
  <2>2. QED
    BY <1>1, <2>1, KeptEmpty, Zenon
<1>4. Kept(Tail(s), S) \in Seq(V)
  BY <1>1, KeptType
<1>5. CASE Head(s) \notin S
  <2>1. Kept(s, S) = <<>> \o Kept(Tail(s), S)
    BY <1>2, <1>3, <1>5, Zenon
  <2>2. PICK q \in Seq(V) : q = Kept(Tail(s), S)
    BY <1>4
  <2>3. <<>> \o q = q
    OBVIOUS
  <2>4. QED
    BY <1>5, <2>1, <2>2, <2>3, Zenon
<1>6. CASE Head(s) \in S
  <2>1. Kept(s, S) = <<Head(s)>> \o Kept(Tail(s), S)
    <3>1. Kept(h, S) = h
      BY <1>1, <1>3, <1>6, Zenon
    <3>2. QED
      BY <1>2, <3>1, Zenon
  <2>2. QED
    BY <1>1, <1>4, <1>6, <2>1
<1>7. QED
  BY <1>5, <1>6

\* Nothing is kept that was not there, and nothing in S is lost.
LEMMA KeptElements ==
  ASSUME NEW V, NEW s \in Seq(V), NEW S, NEW e
  PROVE  (\E i \in DOMAIN Kept(s, S) : Kept(s, S)[i] = e)
           <=> e \in S /\ \E i \in DOMAIN s : s[i] = e
<1> DEFINE Has(q) == \E i \in DOMAIN q : q[i] = e
           T == {q \in Seq(V) : Has(Kept(q, S)) <=> e \in S /\ Has(q)}
<1>1. <<>> \in T
  BY KeptEmpty
<1>2. ASSUME NEW q \in Seq(V), NEW x \in V
      PROVE  Has(Append(q, x)) <=> Has(q) \/ x = e
  <2>1. /\ DOMAIN Append(q, x) = 1 .. Len(q) + 1 /\ DOMAIN q = 1 .. Len(q) /\ Len(q) \in Nat
        /\ Append(q, x)[Len(q) + 1] = x
        /\ \A i \in DOMAIN q : Append(q, x)[i] = q[i]
    OBVIOUS
  <2> HIDE DEF Has
  <2>2. QED
    BY <2>1 DEF Has
<1>3. ASSUME NEW q \in T, NEW x \in V
      PROVE  Append(q, x) \in T
  <2>1. Kept(Append(q, x), S) = IF x \in S THEN Append(Kept(q, S), x) ELSE Kept(q, S)
    BY KeptStep
  <2>2. Kept(q, S) \in Seq(V) /\ q \in Seq(V) /\ Append(q, x) \in Seq(V)
    <3>1. q \in Seq(V)
      BY <1>3
    <3>2. Kept(q, S) \in Seq(V)
      BY <3>1, KeptType
    <3>3. QED
      BY <3>1, <3>2
  <2>3. Has(Kept(q, S)) <=> e \in S /\ Has(q)
    BY <1>3
  <2>4. Has(Append(q, x)) <=> Has(q) \/ x = e
    BY <1>2, <2>2
  <2>5. Has(Append(Kept(q, S), x)) <=> Has(Kept(q, S)) \/ x = e
    BY <1>2, <2>2
  <2> HIDE DEF Has
  <2>6. Has(Kept(Append(q, x), S)) <=> e \in S /\ Has(Append(q, x))
    BY <2>1, <2>3, <2>4, <2>5
  <2>7. QED
    BY <2>2, <2>6
<1>4. T = Seq(V)
  <2> HIDE DEF T
  <2>1. T \subseteq Seq(V)
    BY DEF T
  <2>2. QED
    BY <1>1, <1>3, <2>1, SequenceInduction
<1>5. QED
  BY <1>4

LEMMA NothingKept ==
  ASSUME NEW V, NEW s \in Seq(V), NEW S, \A i \in DOMAIN s : s[i] \notin S
  PROVE  Kept(s, S) = <<>>
<1>1. Kept(s, S) = Kept(s, {})
  <2>1. \A i \in DOMAIN s : s[i] \in S <=> s[i] \in {}
    OBVIOUS
  <2>2. QED
    BY <2>1, KeptSame
<1>2. Kept(s, {}) \in Seq(V \cap {})
  BY KeptType
<1>3. Kept(s, {}) = <<>>
  BY <1>2
<1>4. QED
  BY <1>1, <1>3

\* The first element in S comes first, and without it the rest is kept.
LEMMA KeptFirst ==
  ASSUME NEW V, NEW s \in Seq(V), NEW S, NEW i \in DOMAIN s, s[i] \in S,
         \A j \in DOMAIN s : j < i => s[j] \notin S
  PROVE  /\ Kept(s, S) # <<>> /\ Head(Kept(s, S)) = s[i]
         /\ (\A j \in DOMAIN s : s[j] = s[i] => j = i)
              => Kept(s, S \ {s[i]}) = Tail(Kept(s, S))
<1> DEFINE n == Len(s)
           x == s[i]
           front == [j \in 1 .. i - 1 |-> s[j]]
           back == [j \in 1 .. n - i |-> s[i + j]]
<1>1. /\ n \in Nat /\ i \in 1 .. n /\ DOMAIN s = 1 .. n /\ x \in V
      /\ front \in Seq(V) /\ Len(front) = i - 1 /\ DOMAIN front = 1 .. i - 1
      /\ back \in Seq(V) /\ Len(back) = n - i /\ DOMAIN back = 1 .. n - i
      /\ \A j \in 1 .. i - 1 : front[j] = s[j]
      /\ \A j \in 1 .. n - i : back[j] = s[i + j]
  <2>1. n \in Nat /\ i \in 1 .. n /\ DOMAIN s = 1 .. n /\ x \in V /\ \A j \in 1 .. n : s[j] \in V
    OBVIOUS
  <2> HIDE DEF n, x
  <2>2. i - 1 \in Nat /\ n - i \in Nat
    BY <2>1
  <2>3. /\ \A j \in 1 .. i - 1 : j \in 1 .. n
        /\ \A j \in 1 .. n - i : i + j \in 1 .. n
    BY <2>1
  <2>4. front \in Seq(V) /\ Len(front) = i - 1 /\ DOMAIN front = 1 .. i - 1
    <3>1. PICK m \in Nat : m = i - 1
      BY <2>2
    <3>2. \A j \in 1 .. m : s[j] \in V
      BY <2>1, <2>3, <3>1
    <3>3. front \in [1 .. m -> V]
      BY <3>1, <3>2
    <3>4. front \in Seq(V) /\ Len(front) = m /\ DOMAIN front = 1 .. m
      <4> HIDE DEF front
      <4>1. QED
        BY <3>1, <3>3
    <3>5. QED
      BY <3>1, <3>4
  <2>5. back \in Seq(V) /\ Len(back) = n - i /\ DOMAIN back = 1 .. n - i
    <3>1. PICK m \in Nat : m = n - i
      BY <2>2
    <3>2. \A j \in 1 .. m : s[i + j] \in V
      BY <2>1, <2>3, <3>1
    <3>3. back \in [1 .. m -> V]
      BY <3>1, <3>2
    <3>4. back \in Seq(V) /\ Len(back) = m /\ DOMAIN back = 1 .. m
      <4> HIDE DEF back
      <4>1. QED
        BY <3>1, <3>3
    <3>5. QED
      BY <3>1, <3>4
  <2>6. QED
    BY <2>1, <2>4, <2>5
<1>2. s = Append(front, x) \o back
  BY <1>1
<1> HIDE DEF n, x, front, back
<1>3. Kept(front, S) = <<>> /\ Kept(front, S \ {x}) = <<>>
  <2>1. ASSUME NEW j \in DOMAIN front
        PROVE  front[j] \notin S
    <3>1. j \in DOMAIN s /\ j < i /\ front[j] = s[j]
      BY <1>1
    <3>2. QED
      BY <3>1
  <2>2. \A j \in DOMAIN front : front[j] \notin S \ {x}
    BY <2>1
  <2>3. QED
    BY <1>1, <2>1, <2>2, NothingKept
<1>4. /\ Kept(Append(front, x), S) = Append(<<>>, x)
      /\ Kept(Append(front, x), S \ {x}) = <<>>
  <2>1. x \in S
    BY DEF x
  <2>2. \A R : Kept(Append(front, x), R) = IF x \in R THEN Append(Kept(front, R), x) ELSE Kept(front, R)
    BY <1>1, KeptStep
  <2>3. QED
    BY <1>3, <2>1, <2>2, Zenon
<1>5. \A R : Kept(s, R) = Kept(Append(front, x), R) \o Kept(back, R)
  <2>1. Append(front, x) \in Seq(V)
    BY <1>1
  <2>2. \A R : \A a, b \in Seq(V) : Kept(a \o b, R) = Kept(a, R) \o Kept(b, R)
    BY KeptConcat
  <2>3. QED
    BY <1>1, <1>2, <2>1, <2>2, Zenon
<1>6. Kept(s, S) = Append(<<>>, x) \o Kept(back, S) /\ Kept(s, S \ {x}) = <<>> \o Kept(back, S \ {x})
  BY <1>4, <1>5, Zenon
<1>7. Kept(back, S) \in Seq(V) /\ Kept(back, S \ {x}) \in Seq(V)
  BY <1>1, KeptType
<1>8. /\ Kept(s, S) # <<>> /\ Head(Kept(s, S)) = x /\ Tail(Kept(s, S)) = Kept(back, S)
      /\ Kept(s, S \ {x}) = Kept(back, S \ {x})
  BY <1>1, <1>6, <1>7
<1>9. ASSUME \A j \in DOMAIN s : s[j] = x => j = i
      PROVE  Kept(back, S \ {x}) = Kept(back, S)
  <2>1. ASSUME NEW j \in DOMAIN back
        PROVE  back[j] # x
    <3>1. i + j \in DOMAIN s /\ i + j # i /\ back[j] = s[i + j]
      BY <1>1
    <3>2. QED
      BY <1>9, <3>1
  <2>2. \A j \in DOMAIN back : back[j] \in S \ {x} <=> back[j] \in S
    BY <2>1
  <2>3. QED
    BY <1>1, <2>2, KeptSame
<1>10. QED
  BY <1>8, <1>9 DEF x

LEMMA KeptOne ==
  ASSUME NEW V, NEW e \in V, NEW S
  PROVE  Kept(<<e>>, S) = IF e \in S THEN <<e>> ELSE <<>>
<1>1. <<>> \in Seq(V) /\ <<e>> = Append(<<>>, e)
  OBVIOUS
<1>2. Kept(Append(<<>>, e), S) = IF e \in S THEN Append(Kept(<<>>, S), e) ELSE Kept(<<>>, S)
  BY <1>1, KeptStep
<1>3. QED
  BY <1>1, <1>2, KeptEmpty

\* A queue loses its head and gets more at its end.
LEMMA KeptMoves ==
  ASSUME NEW V, NEW s \in Seq(V), s # <<>>, NEW t \in Seq(V), NEW S
  PROVE  /\ Head(s) \in S => /\ Kept(s, S) # <<>> /\ Head(Kept(s, S)) = Head(s)
                             /\ Kept(Tail(s) \o t, S) = Tail(Kept(s, S)) \o Kept(t, S)
         /\ Head(s) \notin S => Kept(Tail(s) \o t, S) = Kept(s, S) \o Kept(t, S)
<1>1. PICK r \in Seq(V) : r = Tail(s)
  <2>1. Tail(s) \in Seq(V)
    OBVIOUS
  <2>2. QED
    BY <2>1
<1>2. Kept(r \o t, S) = Kept(r, S) \o Kept(t, S)
  BY KeptConcat
<1>3. /\ Head(s) \notin S => Kept(s, S) = Kept(Tail(s), S)
      /\ Head(s) \in S => /\ Kept(s, S) # <<>>
                          /\ Head(Kept(s, S)) = Head(s)
                          /\ Tail(Kept(s, S)) = Kept(Tail(s), S)
  BY KeptHead
<1>4. QED
  BY <1>1, <1>2, <1>3

\* Everything is kept.
LEMMA AllKept ==
  ASSUME NEW V, NEW s \in Seq(V), NEW S, V \subseteq S
  PROVE  Kept(s, S) = s
<1> DEFINE T == {q \in Seq(V) : Kept(q, S) = q}
<1>1. <<>> \in T
  BY KeptEmpty
<1>2. ASSUME NEW q \in T, NEW e \in V
      PROVE  Append(q, e) \in T
  <2>1. q \in Seq(V) /\ Kept(q, S) = q /\ e \in S
    OBVIOUS
  <2>2. Kept(Append(q, e), S) = IF e \in S THEN Append(Kept(q, S), e) ELSE Kept(q, S)
    BY <2>1, KeptStep
  <2>3. QED
    BY <2>1, <2>2
<1>3. T \in SUBSET Seq(V)
  OBVIOUS
<1> HIDE DEF T
<1>4. T = Seq(V)
  BY <1>1, <1>2, <1>3, SequenceInduction
<1>5. QED
  BY <1>4 DEF T

=============================================================================
