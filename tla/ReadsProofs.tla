---------------------------- MODULE ReadsProofs ----------------------------
(***************************************************************************)
(* Theorems about what a client reads: the operations of Dispatch, beside  *)
(* and within the listings of Search, the commands of BugReads and the     *)
(* commands of SavedQueries; for any servers, operations, bugs, queries    *)
(* and users.                                                              *)
(***************************************************************************)
EXTENDS Search, BugReads, SavedQueries, TLAPS,
        SequenceTheorems, FiniteSetTheorems, WellFoundedInduction

-----------------------------------------------------------------------------
(* Induction, and what Select and FlattenSeq do *)

LEMMA LeastNat ==
  ASSUME NEW T, T \subseteq Nat, T # {}
  PROVE  \E x \in T : \A y \in T : x <= y
<1> DEFINE R == OpToRel(<, Nat)
<1>1. IsWellFoundedOn(R, Nat)
  BY NatLessThanWellFounded
<1>2. \A x, y \in Nat : y < x => <<y, x>> \in R
  BY DEF OpToRel
<1> HIDE DEF R
<1>4. PICK x \in T : \A y \in T : ~ (<<y, x>> \in R)
  BY <1>1, WFMin
<1>5. ASSUME NEW y \in T PROVE x <= y
  <2>1. x \in Nat /\ y \in Nat /\ ~ (<<y, x>> \in R)
    BY <1>4
  <2>2. ~(y < x)
    BY <1>2, <2>1
  <2> QED BY <2>1, <2>2
<1>6. QED
  BY <1>5

LEMMA Induct ==
  ASSUME NEW T, 0 \in T, \A n \in Nat : n \in T => n + 1 \in T
  PROVE  \A n \in Nat : n \in T
<1> SUFFICES ASSUME Nat \ T # {} PROVE FALSE
  OBVIOUS
<1>1. PICK x \in Nat \ T : \A y \in Nat \ T : x <= y
  BY LeastNat
<1>2. x # 0 /\ x - 1 \in Nat /\ x = (x - 1) + 1 /\ ~ (x <= x - 1)
  BY <1>1
<1>3. x - 1 \in T
  BY <1>1, <1>2
<1>4. QED
  BY <1>1, <1>2, <1>3

\* f goes from a, in N steps of D.
Iterates(f, X, a, N, D) ==
  /\ f \in [0..N -> X]
  /\ f[0] = a
  /\ \A n \in 1..N : f[n] = D[<<f[n - 1], n>>]

LEMMA IterationExists ==
  ASSUME NEW X, NEW a \in X, NEW N \in Nat, NEW D \in [X \X (1..N) -> X]
  PROVE  \E f : Iterates(f, X, a, N, D)
<1> DEFINE Upto(n, f) == /\ f \in [0..N -> X]
                         /\ f[0] = a
                         /\ \A m \in 1..n : f[m] = D[<<f[m - 1], m>>]
<1> DEFINE T == {n \in Nat : n <= N => \E f : Upto(n, f)}
<1>1. 0 \in T
  <2>1. Upto(0, [m \in 0..N |-> a])
    OBVIOUS
  <2> HIDE DEF Upto
  <2> QED BY <2>1
<1>2. ASSUME NEW n \in Nat, n \in T PROVE n + 1 \in T
  <2> SUFFICES ASSUME n + 1 <= N PROVE \E f : Upto(n + 1, f)
    OBVIOUS
  <2>1. PICK f : Upto(n, f)
    BY <1>2
  <2> DEFINE g == [f EXCEPT ![n + 1] = D[<<f[n], n + 1>>]]
  <2>2. n + 1 \in 1..N /\ n + 1 \in 0..N /\ n \in 0..N
    OBVIOUS
  <2>3. g \in [0..N -> X] /\ g[n + 1] = D[<<f[n], n + 1>>]
        /\ \A m \in 0..N : m # n + 1 => g[m] = f[m]
    BY <2>1, <2>2
  <2> HIDE DEF g
  <2>4. ASSUME NEW m \in 1..(n + 1) PROVE g[m] = D[<<g[m - 1], m>>]
    <3>1. m - 1 \in 0..N /\ m - 1 # n + 1 /\ m \in 0..N
      BY <2>2
    <3>2. g[m - 1] = f[m - 1]
      BY <2>3, <3>1
    <3>3. CASE m = n + 1
      BY <2>3, <3>2, <3>3
    <3>4. CASE m # n + 1
      <4>1. m \in 1..n
        BY <3>4
      <4> QED BY <2>1, <2>3, <3>1, <3>2, <3>4, <4>1
    <3> QED BY <3>3, <3>4
  <2>5. g[0] = a
    BY <2>1, <2>3
  <2>6. Upto(n + 1, g)
    BY <2>3, <2>4, <2>5
  <2> HIDE DEF Upto
  <2> QED BY <2>6
<1>3. N \in T
  <2> HIDE DEF T
  <2> QED BY <1>1, <1>2, Induct
<1>4. PICK f : Upto(N, f)
  BY <1>3
<1>5. Iterates(f, X, a, N, D)
  BY <1>4 DEF Iterates
<1>6. QED
  BY <1>5

\* Two functions that start alike and go on alike end alike.
LEMMA IterationUnique ==
  ASSUME NEW N \in Nat, NEW f, NEW g, f[0] = g[0],
         \A n \in Nat : n < N /\ f[n] = g[n] => f[n + 1] = g[n + 1]
  PROVE  f[N] = g[N]
<1> DEFINE T == {n \in Nat : n <= N => f[n] = g[n]}
<1>1. 0 \in T
  OBVIOUS
<1>2. ASSUME NEW n \in Nat, n \in T PROVE n + 1 \in T
  BY <1>2
<1>3. N \in T
  <2> HIDE DEF T
  <2> QED BY <1>1, <1>2, Induct
<1>4. QED
  BY <1>3

\* What a sequence begins with decides what is true of it, entry by entry.
LEMMA SeqInduct ==
  ASSUME NEW E, NEW T, <<>> \in T,
         \A s \in Seq(E), x \in E : s \in T => Append(s, x) \in T
  PROVE  Seq(E) \subseteq T
<1> DEFINE U == {n \in Nat : \A s \in Seq(E) : Len(s) = n => s \in T}
<1>1. 0 \in U
  OBVIOUS
<1>2. ASSUME NEW n \in Nat, n \in U PROVE n + 1 \in U
  <2> SUFFICES ASSUME NEW s \in Seq(E), Len(s) = n + 1 PROVE s \in T
    OBVIOUS
  <2>1. s # <<>>
    OBVIOUS
  <2>2. PICK t \in Seq(E), x \in E : s = Append(t, x)
    BY <2>1, SequenceEmptyOrAppend
  <2>3. Len(t) = n
    BY <2>2
  <2>4. t \in T
    BY <1>2, <2>3
  <2> QED BY <2>2, <2>4
<1>3. \A n \in Nat : n \in U
  <2> HIDE DEF U
  <2> QED BY <1>1, <1>2, Induct
<1>4. QED
  BY <1>3

\* f is what Select has kept of s after each entry.
Keeps(f, s, S) ==
  f = [n \in 0..Len(s) |->
         IF n = 0 THEN <<>>
         ELSE IF s[n] \in S THEN Append(f[n - 1], s[n]) ELSE f[n - 1]]

\* The same, as steps.
KeepsOn(f, s, S) ==
  /\ f[0] = <<>>
  /\ \A n \in Nat : n < Len(s) =>
       f[n + 1] = IF s[n + 1] \in S THEN Append(f[n], s[n + 1]) ELSE f[n]

LEMMA KeepsSteps ==
  ASSUME NEW s, NEW S, NEW f, Len(s) \in Nat, Keeps(f, s, S)
  PROVE  KeepsOn(f, s, S)
<1>1. f[0] = <<>>
  BY DEF Keeps
<1>2. ASSUME NEW n \in Nat, n < Len(s)
      PROVE  f[n + 1] = IF s[n + 1] \in S THEN Append(f[n], s[n + 1]) ELSE f[n]
  <2>1. n + 1 \in 0..Len(s) /\ n + 1 # 0 /\ (n + 1) - 1 = n
    BY <1>2
  <2>2. \A m \in 0..Len(s) :
          f[m] = IF m = 0 THEN <<>>
                 ELSE IF s[m] \in S THEN Append(f[m - 1], s[m]) ELSE f[m - 1]
    BY DEF Keeps
  <2> QED BY <2>1, <2>2
<1>3. QED
  BY <1>1, <1>2 DEF KeepsOn

LEMMA SelectKeeps ==
  ASSUME NEW E, NEW s \in Seq(E), NEW S
  PROVE  \E f : KeepsOn(f, s, S) /\ Select(s, S) = f[Len(s)]
<1> DEFINE D == [x \in Seq(E) \X (1..Len(s)) |->
                   IF s[x[2]] \in S THEN Append(x[1], s[x[2]]) ELSE x[1]]
<1>1. Len(s) \in Nat /\ \A n \in 1..Len(s) : s[n] \in E
  OBVIOUS
<1>2. D \in [Seq(E) \X (1..Len(s)) -> Seq(E)]
  BY <1>1
<1>3. \A x \in Seq(E), n \in 1..Len(s) :
        D[<<x, n>>] = IF s[n] \in S THEN Append(x, s[n]) ELSE x
  OBVIOUS
<1>4. <<>> \in Seq(E)
  OBVIOUS
<1> HIDE DEF D
<1>5. PICK f : Iterates(f, Seq(E), <<>>, Len(s), D)
  BY <1>1, <1>2, <1>4, IterationExists
<1>6. ASSUME NEW n \in 0..Len(s)
      PROVE  f[n] = IF n = 0 THEN <<>>
                    ELSE IF s[n] \in S THEN Append(f[n - 1], s[n]) ELSE f[n - 1]
  <2>1. CASE n = 0
    BY <1>5, <2>1 DEF Iterates
  <2>2. CASE n # 0
    <3>1. n \in 1..Len(s) /\ n - 1 \in 0..Len(s)
      BY <1>1, <2>2
    <3>2. f[n - 1] \in Seq(E) /\ f[n] = D[<<f[n - 1], n>>]
      BY <1>5, <3>1 DEF Iterates
    <3> QED BY <1>3, <2>2, <3>1, <3>2
  <2> QED BY <2>1, <2>2
<1>7. f = [n \in 0..Len(s) |-> f[n]]
  BY <1>5 DEF Iterates
<1>8. Keeps(f, s, S)
  BY <1>6, <1>7 DEF Keeps
<1>9. Select(s, S) = (CHOOSE g : Keeps(g, s, S))[Len(s)]
  BY DEF Select, Keeps
<1>10. PICK g : Keeps(g, s, S) /\ Select(s, S) = g[Len(s)]
  BY <1>8, <1>9
<1>11. KeepsOn(g, s, S)
  BY <1>1, <1>10, KeepsSteps
<1>12. QED
  BY <1>10, <1>11

LEMMA SelectEmpty ==
  ASSUME NEW S
  PROVE  Select(<<>>, S) = <<>>
<1>1. <<>> \in Seq({}) /\ Len(<<>>) = 0
  OBVIOUS
<1>2. PICK f : KeepsOn(f, <<>>, S) /\ Select(<<>>, S) = f[Len(<<>>)]
  BY <1>1, SelectKeeps
<1>3. QED
  BY <1>1, <1>2 DEF KeepsOn

LEMMA SelectAppend ==
  ASSUME NEW E, NEW s \in Seq(E), NEW x \in E, NEW S
  PROVE  Select(Append(s, x), S) =
           IF x \in S THEN Append(Select(s, S), x) ELSE Select(s, S)
<1> DEFINE t == Append(s, x)
<1>1. /\ t \in Seq(E) /\ Len(t) = Len(s) + 1 /\ Len(s) \in Nat /\ t[Len(s) + 1] = x
      /\ \A n \in Nat : n < Len(s) => t[n + 1] = s[n + 1]
  OBVIOUS
<1> HIDE DEF t
<1>2. PICK f : KeepsOn(f, s, S) /\ Select(s, S) = f[Len(s)]
  BY SelectKeeps
<1>3. PICK g : KeepsOn(g, t, S) /\ Select(t, S) = g[Len(t)]
  BY <1>1, SelectKeeps
<1>4. /\ f[0] = <<>>
      /\ \A n \in Nat : n < Len(s) =>
           f[n + 1] = IF s[n + 1] \in S THEN Append(f[n], s[n + 1]) ELSE f[n]
  BY <1>2 DEF KeepsOn
<1>5. /\ g[0] = <<>>
      /\ \A n \in Nat : n < Len(t) =>
           g[n + 1] = IF t[n + 1] \in S THEN Append(g[n], t[n + 1]) ELSE g[n]
  BY <1>3 DEF KeepsOn
<1>6. f[0] = g[0] /\ \A n \in Nat : n < Len(s) /\ f[n] = g[n] => f[n + 1] = g[n + 1]
  BY <1>1, <1>4, <1>5
<1>7. f[Len(s)] = g[Len(s)]
  BY <1>1, <1>6, IterationUnique
<1>8. Len(s) \in Nat /\ Len(s) < Len(t)
  BY <1>1
<1>9. g[Len(s) + 1] = IF x \in S THEN Append(g[Len(s)], x) ELSE g[Len(s)]
  BY <1>1, <1>5, <1>8
<1>10. Select(t, S) = IF x \in S THEN Append(Select(s, S), x) ELSE Select(s, S)
  BY <1>1, <1>2, <1>3, <1>7, <1>9
<1>11. QED
  BY <1>10 DEF t

LEMMA SelectType ==
  ASSUME NEW E, NEW S
  PROVE  \A s \in Seq(E) : Select(s, S) \in Seq(E)
<1> DEFINE T == {s \in Seq(E) : Select(s, S) \in Seq(E)}
<1>1. <<>> \in T
  <2>1. <<>> \in Seq(E) /\ Select(<<>>, S) = <<>>
    BY SelectEmpty
  <2> QED BY <2>1
<1>2. ASSUME NEW s \in Seq(E), NEW x \in E, s \in T PROVE Append(s, x) \in T
  <2>1. Select(Append(s, x), S) = IF x \in S THEN Append(Select(s, S), x) ELSE Select(s, S)
    BY SelectAppend
  <2>2. Select(s, S) \in Seq(E) /\ Append(s, x) \in Seq(E)
    BY <1>2
  <2>3. Append(Select(s, S), x) \in Seq(E)
    BY <2>2
  <2>4. QED
    BY <2>1, <2>2, <2>3
<1>3. Seq(E) \subseteq T
  <2> HIDE DEF T
  <2> QED BY <1>1, <1>2, SeqInduct
<1>4. QED
  BY <1>3

LEMMA SelectConcats ==
  ASSUME NEW E, NEW s \in Seq(E), NEW S
  PROVE  \A t \in Seq(E) : Select(s \o t, S) = Select(s, S) \o Select(t, S)
<1> DEFINE T == {t \in Seq(E) : Select(s \o t, S) = Select(s, S) \o Select(t, S)}
<1>1. <<>> \in T
  <2>1. s \o <<>> = s /\ Select(s, S) \in Seq(E)
    BY SelectType
  <2> QED BY <2>1, SelectEmpty
<1>2. ASSUME NEW t \in Seq(E), NEW x \in E, t \in T PROVE Append(t, x) \in T
  <2>1. s \o t \in Seq(E) /\ s \o Append(t, x) = Append(s \o t, x) /\ Append(t, x) \in Seq(E)
    OBVIOUS
  <2>2. Select(s, S) \in Seq(E) /\ Select(t, S) \in Seq(E)
    BY SelectType
  <2>3. Select(s, S) \o Append(Select(t, S), x) = Append(Select(s, S) \o Select(t, S), x)
    BY <2>2
  <2>4. Select(s \o Append(t, x), S)
          = IF x \in S THEN Append(Select(s \o t, S), x) ELSE Select(s \o t, S)
    BY <2>1, SelectAppend
  <2>5. Select(Append(t, x), S) = IF x \in S THEN Append(Select(t, S), x) ELSE Select(t, S)
    BY SelectAppend
  <2>6. Select(s \o t, S) = Select(s, S) \o Select(t, S)
    BY <1>2
  <2> QED BY <2>1, <2>3, <2>4, <2>5, <2>6
<1>3. Seq(E) \subseteq T
  <2> HIDE DEF T
  <2> QED BY <1>1, <1>2, SeqInduct
<1>4. QED
  BY <1>3

LEMMA SelectConcat ==
  ASSUME NEW E, NEW s, NEW t, NEW S, s \in Seq(E), t \in Seq(E)
  PROVE  Select(s \o t, S) = Select(s, S) \o Select(t, S)
  BY SelectConcats

LEMMA AppendRange ==
  ASSUME NEW E, NEW s \in Seq(E), NEW x \in E
  PROVE  Append(s, x) \in Seq(E) /\ ToSet(Append(s, x)) = ToSet(s) \cup {x}
<1>1. DOMAIN s = 1..Len(s) /\ DOMAIN Append(s, x) = 1..(Len(s) + 1) /\ Len(s) \in Nat
  OBVIOUS
<1>2. Append(s, x)[Len(s) + 1] = x /\ \A n \in 1..Len(s) : Append(s, x)[n] = s[n]
  OBVIOUS
<1>3. 1..(Len(s) + 1) = 1..Len(s) \cup {Len(s) + 1}
  BY <1>1
<1>4. Append(s, x) \in Seq(E)
  OBVIOUS
<1>5. QED
  BY <1>1, <1>2, <1>3, <1>4 DEF ToSet

LEMMA TailRange ==
  ASSUME NEW E, NEW s \in Seq(E), s # <<>>
  PROVE  /\ Head(s) \in E /\ Tail(s) \in Seq(E)
         /\ ToSet(s) = {Head(s)} \cup ToSet(Tail(s))
<1>1. /\ Len(s) \in Nat /\ Len(s) >= 1 /\ DOMAIN s = 1..Len(s)
      /\ Head(s) = s[1] /\ Head(s) \in E /\ Tail(s) \in Seq(E)
      /\ DOMAIN Tail(s) = 1..(Len(s) - 1) /\ \A n \in 1..(Len(s) - 1) : Tail(s)[n] = s[n + 1]
  OBVIOUS
<1>2. \A n \in 1..Len(s) : n = 1 \/ (n - 1 \in 1..(Len(s) - 1) /\ Tail(s)[n - 1] = s[n])
  BY <1>1
<1>3. \A n \in 1..(Len(s) - 1) : n + 1 \in 1..Len(s) /\ 1 \in 1..Len(s)
  BY <1>1
<1>4. ASSUME NEW x \in ToSet(s) PROVE x \in {Head(s)} \cup ToSet(Tail(s))
  <2>1. PICK n \in 1..Len(s) : x = s[n]
    BY <1>1, <1>4 DEF ToSet
  <2>2. CASE n = 1
    BY <1>1, <2>1, <2>2
  <2>3. CASE n # 1
    <3>1. n - 1 \in DOMAIN Tail(s) /\ x = Tail(s)[n - 1]
      BY <1>1, <1>2, <2>1, <2>3
    <3> QED BY <3>1 DEF ToSet
  <2> QED BY <2>2, <2>3
<1>5. ASSUME NEW x \in {Head(s)} \cup ToSet(Tail(s)) PROVE x \in ToSet(s)
  <2>1. CASE x = Head(s)
    <3>1. 1 \in DOMAIN s /\ x = s[1]
      BY <1>1, <2>1
    <3> QED BY <3>1 DEF ToSet
  <2>2. CASE x \in ToSet(Tail(s))
    <3>1. PICK n \in 1..(Len(s) - 1) : x = Tail(s)[n]
      BY <1>1, <2>2 DEF ToSet
    <3>2. n + 1 \in DOMAIN s /\ x = s[n + 1]
      BY <1>1, <1>3, <3>1
    <3> QED BY <3>2 DEF ToSet
  <2> QED BY <1>5, <2>1, <2>2
<1>6. QED
  BY <1>1, <1>4, <1>5

LEMMA SelectRange ==
  ASSUME NEW E, NEW S
  PROVE  \A s \in Seq(E) : ToSet(Select(s, S)) = ToSet(s) \cap S
<1> DEFINE T == {s \in Seq(E) : ToSet(Select(s, S)) = ToSet(s) \cap S}
<1>1. <<>> \in T
  BY SelectEmpty DEF ToSet
<1>2. ASSUME NEW s \in Seq(E), NEW x \in E, s \in T PROVE Append(s, x) \in T
  <2>1. Select(s, S) \in Seq(E) /\ Append(s, x) \in Seq(E)
    BY SelectType
  <2>2. ToSet(Append(Select(s, S), x)) = ToSet(Select(s, S)) \cup {x}
    BY <2>1, AppendRange
  <2>3. ToSet(Append(s, x)) = ToSet(s) \cup {x}
    BY AppendRange
  <2>4. Select(Append(s, x), S) = IF x \in S THEN Append(Select(s, S), x) ELSE Select(s, S)
    BY SelectAppend
  <2> HIDE DEF ToSet
  <2> QED BY <1>2, <2>1, <2>2, <2>3, <2>4
<1>3. Seq(E) \subseteq T
  <2> HIDE DEF T
  <2> QED BY <1>1, <1>2, SeqInduct
<1>4. QED
  BY <1>3

\* The entries of s are in t, where they were or further on.
Rightwards(s, t) == \A p \in DOMAIN s : \E q \in DOMAIN t : q >= p /\ t[q] = s[p]

\* An entry that is put into a sequence moves the others to the right at most.
LEMMA SelectInsert ==
  ASSUME NEW E, NEW s \in Seq(E), NEW x \in E, NEW S, NEW n \in 1..(Len(s) + 1)
  PROVE  /\ InsertAt(s, n, x) \in Seq(E)
         /\ Rightwards(Select(s, S), Select(InsertAt(s, n, x), S))
<1> DEFINE a == SubSeq(s, 1, n - 1)
           z == SubSeq(s, n, Len(s))
           y == <<x>>
<1>1. a \in Seq(E) /\ z \in Seq(E) /\ y \in Seq(E)
  OBVIOUS
<1>2. s = a \o z
  <2> DEFINE k == n - 1
  <2>1. k \in 0..Len(s) /\ k + 1 = n /\ Len(s) \in k..Len(s) /\ 1 \in 1..(Len(s) + 1)
    OBVIOUS
  <2>2. k \in (1 - 1)..Len(s)
    BY <2>1
  <2> HIDE DEF k
  <2>3. SubSeq(s, 1, k) \o SubSeq(s, k + 1, Len(s)) = SubSeq(s, 1, Len(s))
    BY <2>1, <2>2, ConcatAdjacentSubSeq
  <2>4. SubSeq(s, 1, Len(s)) = s
    BY SubSeqFull
  <2> QED BY <2>1, <2>3, <2>4 DEF k
<1>3. InsertAt(s, n, x) = (a \o y) \o z
  BY DEF InsertAt
<1> HIDE DEF a, z, y
<1>4. a \o y \in Seq(E)
  BY <1>1
<1>5. /\ Select(s, S) = Select(a, S) \o Select(z, S)
      /\ Select((a \o y) \o z, S) = (Select(a, S) \o Select(y, S)) \o Select(z, S)
  <2>1. Select(a \o z, S) = Select(a, S) \o Select(z, S)
    BY <1>1, SelectConcat
  <2>2. Select(a \o y, S) = Select(a, S) \o Select(y, S)
    BY <1>1, SelectConcat
  <2> DEFINE b == a \o y
  <2>3. b \in Seq(E)
    BY <1>4
  <2> HIDE DEF b
  <2>4. Select(b \o z, S) = Select(b, S) \o Select(z, S)
    BY <1>1, <2>3, SelectConcat
  <2> QED BY <1>2, <2>1, <2>2, <2>4 DEF b
<1> DEFINE A == Select(a, S)
           X == Select(y, S)
           Z == Select(z, S)
<1>6. A \in Seq(E) /\ X \in Seq(E) /\ Z \in Seq(E)
  BY <1>1, SelectType
<1>7. Select(s, S) = A \o Z /\ Select(InsertAt(s, n, x), S) = (A \o X) \o Z
  BY <1>3, <1>5
<1> HIDE DEF A, X, Z
<1>8. ASSUME NEW p \in DOMAIN (A \o Z)
      PROVE  \E q \in DOMAIN ((A \o X) \o Z) : q >= p /\ ((A \o X) \o Z)[q] = (A \o Z)[p]
  <2>1. /\ Len(A) \in Nat /\ Len(X) \in Nat /\ Len(Z) \in Nat
        /\ p \in 1..(Len(A) + Len(Z))
        /\ DOMAIN ((A \o X) \o Z) = 1..(Len(A) + Len(X) + Len(Z))
    BY <1>6
  <2>2. CASE p <= Len(A)
    <3>1. p \in DOMAIN ((A \o X) \o Z) /\ ((A \o X) \o Z)[p] = A[p] /\ (A \o Z)[p] = A[p]
      BY <1>6, <2>1, <2>2
    <3> QED BY <2>1, <3>1
  <2>3. CASE p > Len(A)
    <3>1. /\ p + Len(X) \in DOMAIN ((A \o X) \o Z) /\ p + Len(X) >= p
          /\ ((A \o X) \o Z)[p + Len(X)] = Z[p - Len(A)] /\ (A \o Z)[p] = Z[p - Len(A)]
      BY <1>6, <2>1, <2>3
    <3> QED BY <3>1
  <2> QED BY <2>1, <2>2, <2>3
<1>9. InsertAt(s, n, x) \in Seq(E)
  BY <1>1, <1>3
<1>10. QED
  BY <1>7, <1>8, <1>9 DEF Rightwards

-----------------------------------------------------------------------------
(* FlattenSeq *)

\* f is the concatenation of the first sequences of ss.
Joins(f, ss) ==
  f = [n \in 1..Len(ss) |-> IF n = 1 THEN ss[n] ELSE f[n - 1] \o ss[n]]

JoinsOn(f, ss) ==
  /\ f[1] = ss[1]
  /\ \A n \in Nat \ {0} : n < Len(ss) => f[n + 1] = f[n] \o ss[n + 1]

LEMMA JoinsSteps ==
  ASSUME NEW ss, NEW f, Len(ss) \in Nat \ {0}, Joins(f, ss)
  PROVE  JoinsOn(f, ss)
<1>1. \A n \in 1..Len(ss) : f[n] = IF n = 1 THEN ss[n] ELSE f[n - 1] \o ss[n]
  BY DEF Joins
<1>2. f[1] = ss[1]
  BY <1>1
<1>3. ASSUME NEW n \in Nat \ {0}, n < Len(ss) PROVE f[n + 1] = f[n] \o ss[n + 1]
  <2>1. n + 1 \in 1..Len(ss) /\ n + 1 # 1 /\ (n + 1) - 1 = n
    BY <1>3
  <2> QED BY <1>1, <2>1
<1>4. QED
  BY <1>2, <1>3 DEF JoinsOn

LEMMA FlattenJoins ==
  ASSUME NEW E, NEW ss \in Seq(Seq(E)), ss # <<>>
  PROVE  \E f : JoinsOn(f, ss) /\ FlattenSeq(ss) = f[Len(ss)]
<1> DEFINE D == [x \in Seq(E) \X (1..Len(ss)) |-> x[1] \o ss[x[2]]]
<1>1. Len(ss) \in Nat \ {0} /\ \A n \in 1..Len(ss) : ss[n] \in Seq(E)
  OBVIOUS
<1>2. D \in [Seq(E) \X (1..Len(ss)) -> Seq(E)]
  BY <1>1
<1>3. \A x \in Seq(E), n \in 1..Len(ss) : D[<<x, n>>] = x \o ss[n]
  OBVIOUS
<1>4. <<>> \in Seq(E)
  OBVIOUS
<1> HIDE DEF D
<1>5. PICK f : Iterates(f, Seq(E), <<>>, Len(ss), D)
  BY <1>1, <1>2, <1>4, IterationExists
<1> DEFINE g == [n \in 1..Len(ss) |-> f[n]]
<1>6. ASSUME NEW n \in 1..Len(ss)
      PROVE  g[n] = IF n = 1 THEN ss[n] ELSE g[n - 1] \o ss[n]
  <2>0. n - 1 \in 0..Len(ss)
    BY <1>1
  <2>1. f[n - 1] \in Seq(E) /\ f[n] = D[<<f[n - 1], n>>]
    BY <1>5, <2>0 DEF Iterates
  <2>2. g[n] = f[n - 1] \o ss[n]
    BY <1>3, <2>1
  <2>3. CASE n = 1
    <3>1. f[n - 1] = <<>>
      BY <1>5, <2>3 DEF Iterates
    <3>2. <<>> \o ss[n] = ss[n]
      BY <1>1
    <3> QED BY <2>2, <2>3, <3>1, <3>2
  <2>4. CASE n # 1
    <3>1. n - 1 \in 1..Len(ss)
      BY <1>1, <2>4
    <3> QED BY <2>2, <2>4, <3>1
  <2> QED BY <2>3, <2>4
<1>7. Joins(g, ss)
  BY <1>6 DEF Joins
<1> HIDE DEF g
<1>8. FlattenSeq(ss) = (CHOOSE h : Joins(h, ss))[Len(ss)]
  BY <1>1 DEF FlattenSeq, Joins
<1>9. PICK h : Joins(h, ss) /\ FlattenSeq(ss) = h[Len(ss)]
  BY <1>7, <1>8
<1>10. JoinsOn(h, ss)
  BY <1>1, <1>9, JoinsSteps
<1>11. QED
  BY <1>9, <1>10

\* The entries of a concatenation are those of its parts.
LEMMA ConcatRange ==
  ASSUME NEW E, NEW s \in Seq(E), NEW t \in Seq(E)
  PROVE  ToSet(s \o t) = ToSet(s) \cup ToSet(t)
<1>1. DOMAIN s = 1..Len(s) /\ DOMAIN t = 1..Len(t) /\ DOMAIN (s \o t) = 1..(Len(s) + Len(t))
      /\ Len(s) \in Nat /\ Len(t) \in Nat
  OBVIOUS
<1>2. /\ \A n \in 1..Len(s) : n \in 1..(Len(s) + Len(t)) /\ (s \o t)[n] = s[n]
      /\ \A n \in 1..Len(t) : Len(s) + n \in 1..(Len(s) + Len(t)) /\ (s \o t)[Len(s) + n] = t[n]
  OBVIOUS
<1>3. \A n \in 1..(Len(s) + Len(t)) : n \in 1..Len(s) \/ \E m \in 1..Len(t) : n = Len(s) + m
  <2> TAKE n \in 1..(Len(s) + Len(t))
  <2>1. n \notin 1..Len(s) => n - Len(s) \in 1..Len(t) /\ n = Len(s) + (n - Len(s))
    BY <1>1
  <2> QED BY <2>1
<1>4. ASSUME NEW y \in ToSet(s) \cup ToSet(t) PROVE y \in ToSet(s \o t)
  <2>1. CASE y \in ToSet(s)
    BY <1>1, <1>2, <2>1 DEF ToSet
  <2>2. CASE y \in ToSet(t)
    <3>1. PICK n \in 1..Len(t) : y = t[n]
      BY <1>1, <2>2 DEF ToSet
    <3>2. Len(s) + n \in DOMAIN (s \o t) /\ (s \o t)[Len(s) + n] = y
      BY <1>1, <1>2, <3>1
    <3> QED BY <3>2 DEF ToSet
  <2> QED BY <2>1, <2>2
<1>5. ASSUME NEW y \in ToSet(s \o t) PROVE y \in ToSet(s) \cup ToSet(t)
  <2>1. PICK n \in 1..(Len(s) + Len(t)) : y = (s \o t)[n]
    BY <1>1, <1>5 DEF ToSet
  <2>2. CASE n \in 1..Len(s)
    <3>1. n \in DOMAIN s /\ y = s[n]
      BY <1>1, <1>2, <2>1, <2>2
    <3> QED BY <3>1 DEF ToSet
  <2>3. CASE n \notin 1..Len(s)
    <3>1. PICK m \in 1..Len(t) : n = Len(s) + m
      BY <1>3, <2>3
    <3>2. m \in DOMAIN t /\ y = t[m]
      BY <1>1, <1>2, <2>1, <3>1
    <3> QED BY <3>2 DEF ToSet
  <2> QED BY <2>2, <2>3
<1>6. QED
  BY <1>4, <1>5

LEMMA FlattenRange ==
  ASSUME NEW E, NEW ss \in Seq(Seq(E))
  PROVE  /\ FlattenSeq(ss) \in Seq(E)
         /\ ToSet(FlattenSeq(ss)) = UNION {ToSet(ss[n]) : n \in DOMAIN ss}
<1>1. CASE ss = <<>>
  <2>1. FlattenSeq(ss) = <<>> /\ DOMAIN ss = {}
    BY <1>1 DEF FlattenSeq
  <2> QED BY <2>1 DEF ToSet
<1>2. CASE ss # <<>>
  <2>1. /\ Len(ss) \in Nat \ {0} /\ DOMAIN ss = 1..Len(ss)
        /\ \A n \in 1..Len(ss) : ss[n] \in Seq(E)
    BY <1>2
  <2>2. PICK f : JoinsOn(f, ss) /\ FlattenSeq(ss) = f[Len(ss)]
    BY <1>2, FlattenJoins
  <2> DEFINE T == {n \in Nat : n + 1 <= Len(ss) =>
                     /\ f[n + 1] \in Seq(E)
                     /\ ToSet(f[n + 1]) = UNION {ToSet(ss[m]) : m \in 1..(n + 1)}}
  <2>3. 0 \in T
    <3>1. f[1] = ss[1] /\ 1 \in 1..Len(ss) /\ 0 + 1 = 1 /\ 1..1 = {1}
      BY <2>1, <2>2 DEF JoinsOn
    <3>2. f[1] \in Seq(E) /\ ToSet(f[1]) = UNION {ToSet(ss[m]) : m \in {1}}
      BY <2>1, <3>1
    <3> QED BY <3>1, <3>2
  <2>4. ASSUME NEW n \in Nat, n \in T PROVE n + 1 \in T
    <3> SUFFICES ASSUME (n + 1) + 1 <= Len(ss)
                 PROVE  /\ f[(n + 1) + 1] \in Seq(E)
                        /\ ToSet(f[(n + 1) + 1]) = UNION {ToSet(ss[m]) : m \in 1..((n + 1) + 1)}
      OBVIOUS
    <3>1. /\ n + 1 \in Nat \ {0} /\ n + 1 < Len(ss) /\ (n + 1) + 1 \in 1..Len(ss)
          /\ 1..((n + 1) + 1) = 1..(n + 1) \cup {(n + 1) + 1}
      BY <2>1
    <3>2. f[(n + 1) + 1] = f[n + 1] \o ss[(n + 1) + 1]
      BY <2>2, <3>1 DEF JoinsOn
    <3>3. /\ f[n + 1] \in Seq(E) /\ ss[(n + 1) + 1] \in Seq(E)
          /\ ToSet(f[n + 1]) = UNION {ToSet(ss[m]) : m \in 1..(n + 1)}
      BY <2>1, <2>4, <3>1
    <3>4. ToSet(f[(n + 1) + 1]) = ToSet(f[n + 1]) \cup ToSet(ss[(n + 1) + 1])
      BY <3>2, <3>3, ConcatRange
    <3>5. f[(n + 1) + 1] \in Seq(E)
      BY <3>2, <3>3
    <3>6. UNION {ToSet(ss[m]) : m \in 1..((n + 1) + 1)}
            = (UNION {ToSet(ss[m]) : m \in 1..(n + 1)}) \cup ToSet(ss[(n + 1) + 1])
      BY <3>1
    <3> QED BY <3>3, <3>4, <3>5, <3>6
  <2>5. \A n \in Nat : n \in T
    <3> HIDE DEF T
    <3> QED BY <2>3, <2>4, Induct
  <2>6. Len(ss) - 1 \in Nat /\ (Len(ss) - 1) + 1 = Len(ss)
    BY <2>1
  <2>7. Len(ss) - 1 \in T
    BY <2>5, <2>6
  <2>8. f[Len(ss)] \in Seq(E) /\ ToSet(f[Len(ss)]) = UNION {ToSet(ss[m]) : m \in 1..Len(ss)}
    BY <2>1, <2>6, <2>7
  <2> QED BY <2>1, <2>2, <2>8
<1>3. QED
  BY <1>1, <1>2

-----------------------------------------------------------------------------
(* Lists, whatever they are of *)

LEMMA ListOf ==
  ASSUME NEW E, NEW s \in Seq(E)
  PROVE  IsList(s)
<1>1. Len(s) \in Nat /\ DOMAIN s = 1..Len(s) /\ s = [n \in 1..Len(s) |-> s[n]]
  OBVIOUS
<1>2. \A n \in 1..Len(s) : s[n] \in ToSet(s)
  BY <1>1 DEF ToSet
<1> DEFINE R == ToSet(s)
<1> HIDE DEF R
<1>3. s \in [1..Len(s) -> R]
  BY <1>1, <1>2 DEF R
<1>4. s \in Seq(R)
  BY <1>1, <1>3
<1> QED BY <1>4 DEF R, IsList

LEMMA ListForm ==
  ASSUME NEW s, IsList(s)
  PROVE  /\ Len(s) \in Nat /\ DOMAIN s = 1..Len(s)
         /\ \A n \in DOMAIN s : s[n] \in ToSet(s)
<1> DEFINE R == ToSet(s)
<1>1. s \in Seq(R)
  BY DEF IsList
<1>2. \A n \in DOMAIN s : s[n] \in ToSet(s)
  BY DEF ToSet
<1> HIDE DEF R
<1> QED BY <1>1, <1>2

\* A function on the places of a list is a list of as many.
LEMMA ListOver ==
  ASSUME NEW s, IsList(s), NEW t, DOMAIN t = DOMAIN s, t = [n \in DOMAIN s |-> t[n]]
  PROVE  IsList(t) /\ Len(t) = Len(s)
<1>1. Len(s) \in Nat /\ DOMAIN s = 1..Len(s)
  BY ListForm
<1> DEFINE R == ToSet(t)
<1>2. \A n \in 1..Len(s) : t[n] \in R
  BY <1>1 DEF ToSet
<1> HIDE DEF R
<1>3. t \in [1..Len(s) -> R]
  BY <1>1, <1>2
<1>4. t \in Seq(R) /\ Len(t) = Len(s)
  BY <1>1, <1>3
<1> QED BY <1>4 DEF R, IsList

LEMMA EmptyList ==
  /\ IsList(<<>>) /\ ToSet(<<>>) = {}
  /\ \A s : IsList(s) /\ (ToSet(s) = {} \/ DOMAIN s = {}) => s = <<>>
<1>1. <<>> \in Seq({}) /\ ToSet(<<>>) = {}
  BY DEF ToSet
<1>2. IsList(<<>>)
  BY <1>1 DEF IsList
<1>3. ASSUME NEW s, IsList(s), ToSet(s) = {} \/ DOMAIN s = {}
      PROVE  s = <<>>
  <2>1. ToSet(s) = {}
    BY <1>3 DEF ToSet
  <2>2. s \in Seq({})
    BY <1>3, <2>1 DEF IsList
  <2> QED BY <2>2
<1> QED BY <1>1, <1>2, <1>3

LEMMA OneList ==
  ASSUME NEW x
  PROVE  IsList(<<x>>) /\ ToSet(<<x>>) = {x}
<1>1. <<x>> \in Seq({x}) /\ ToSet(<<x>>) = {x}
  BY DEF ToSet
<1> QED BY <1>1 DEF IsList

LEMMA ConcatList ==
  ASSUME NEW s, NEW t, IsList(s), IsList(t)
  PROVE  /\ IsList(s \o t) /\ ToSet(s \o t) = ToSet(s) \cup ToSet(t)
         /\ Len(s \o t) = Len(s) + Len(t)
         /\ \A n \in 1..Len(s) : (s \o t)[n] = s[n]
         /\ \A n \in 1..Len(t) : (s \o t)[Len(s) + n] = t[n]
         /\ \A n \in 1..(Len(s) + Len(t)) : n \notin 1..Len(s) => n - Len(s) \in 1..Len(t)
<1> DEFINE E == ToSet(s) \cup ToSet(t)
<1>1. s \in Seq(E) /\ t \in Seq(E)
  <2> DEFINE A == ToSet(s)
             B == ToSet(t)
  <2>1. s \in Seq(A) /\ t \in Seq(B)
    BY DEF IsList
  <2> HIDE DEF A, B
  <2>2. s \in Seq(A \cup B) /\ t \in Seq(A \cup B)
    BY <2>1
  <2> QED BY <2>2 DEF A, B
<1> HIDE DEF E
<1>2. s \o t \in Seq(E) /\ ToSet(s \o t) = ToSet(s) \cup ToSet(t)
  BY <1>1, ConcatRange
<1>3. IsList(s \o t)
  BY <1>2, ListOf
<1>4. /\ Len(s \o t) = Len(s) + Len(t)
      /\ \A n \in 1..Len(s) : (s \o t)[n] = s[n]
      /\ \A n \in 1..Len(t) : (s \o t)[Len(s) + n] = t[n]
      /\ \A n \in 1..(Len(s) + Len(t)) : n \notin 1..Len(s) => n - Len(s) \in 1..Len(t)
  BY <1>1
<1> QED BY <1>2, <1>3, <1>4

LEMMA SelectList ==
  ASSUME NEW s, IsList(s), NEW S
  PROVE  IsList(Select(s, S)) /\ ToSet(Select(s, S)) = ToSet(s) \cap S
<1> DEFINE E == ToSet(s)
<1>1. s \in Seq(E)
  BY DEF IsList
<1> HIDE DEF E
<1>2. Select(s, S) \in Seq(E) /\ ToSet(Select(s, S)) = ToSet(s) \cap S
  BY <1>1, SelectType, SelectRange
<1> QED BY <1>2, ListOf

LEMMA FlattenList ==
  ASSUME NEW ss, IsList(ss), \A n \in DOMAIN ss : IsList(ss[n])
  PROVE  /\ IsList(FlattenSeq(ss))
         /\ \A x : x \in ToSet(FlattenSeq(ss)) <=> \E n \in DOMAIN ss : x \in ToSet(ss[n])
<1> DEFINE E == UNION {ToSet(ss[n]) : n \in DOMAIN ss}
<1>1. \A n \in DOMAIN ss : ss[n] \in Seq(E)
  <2> TAKE n \in DOMAIN ss
  <2> DEFINE A == ToSet(ss[n])
  <2>1. ss[n] \in Seq(A) /\ A \subseteq E
    BY DEF IsList
  <2> HIDE DEF A, E
  <2> QED BY <2>1
<1> HIDE DEF E
<1>2. ss \in Seq(Seq(E))
  <2>1. Len(ss) \in Nat /\ DOMAIN ss = 1..Len(ss) /\ ss = [n \in DOMAIN ss |-> ss[n]]
    <3> DEFINE A == ToSet(ss)
    <3>1. ss \in Seq(A)
      BY DEF IsList
    <3> HIDE DEF A
    <3> QED BY <3>1
  <2>2. ss \in [1..Len(ss) -> Seq(E)]
    BY <1>1, <2>1
  <2> QED BY <2>1, <2>2
<1>3. FlattenSeq(ss) \in Seq(E) /\ ToSet(FlattenSeq(ss)) = UNION {ToSet(ss[n]) : n \in DOMAIN ss}
  BY <1>2, FlattenRange
<1>4. IsList(FlattenSeq(ss))
  BY <1>3, ListOf
<1> QED BY <1>3, <1>4

LEMMA ListUpTo ==
  ASSUME NEW t, NEW k \in Nat, t = [n \in 1..k |-> t[n]]
  PROVE  IsList(t) /\ Len(t) = k
<1> DEFINE R == ToSet(t)
<1>1. \A n \in 1..k : t[n] \in R
  BY DEF ToSet
<1> HIDE DEF R
<1>2. t \in [1..k -> R]
  BY <1>1
<1>3. t \in Seq(R) /\ Len(t) = k
  BY <1>2
<1> QED BY <1>3 DEF R, IsList

LEMMA ConcatsAlike ==
  ASSUME NEW s, NEW t, NEW u, IsList(s), IsList(t), IsList(u)
  PROVE  (s \o t) \o u = s \o (t \o u)
<1> DEFINE A == ToSet(s)
           B == ToSet(t)
           C == ToSet(u)
           E == A \cup B \cup C
<1>1. s \in Seq(A) /\ t \in Seq(B) /\ u \in Seq(C)
  BY DEF IsList
<1> HIDE DEF A, B, C
<1>2. s \in Seq(E) /\ t \in Seq(E) /\ u \in Seq(E)
  BY <1>1
<1> HIDE DEF E
<1> QED BY <1>2, ConcatAssociative

LEMMA PairOfOne ==
  ASSUME NEW p, NEW y
  PROVE  Append(<<p>>, y) = <<p, y>>
<1> DEFINE E == {p, y}
           t == Append(<<p>>, y)
           u == <<p, y>>
<1>1. <<p>> \in Seq(E) /\ y \in E /\ Len(<<p>>) = 1 /\ <<p>>[1] = p
  OBVIOUS
<1>2. t \in Seq(E) /\ Len(t) = 2 /\ t[1] = p /\ t[2] = y
  BY <1>1
<1>3. u \in Seq(E) /\ Len(u) = 2 /\ u[1] = p /\ u[2] = y
  OBVIOUS
<1> HIDE DEF E, t, u
<1>4. t = u
  <2>1. \A n \in 1..2 : n = 1 \/ n = 2
    OBVIOUS
  <2>2. t = [n \in 1..2 |-> t[n]] /\ u = [n \in 1..2 |-> u[n]]
    BY <1>2, <1>3
  <2> QED BY <1>2, <1>3, <2>1, <2>2
<1> QED BY <1>4 DEF t, u

-----------------------------------------------------------------------------
(* The answers of a server, and what an operation makes of one *)

LEMMA NoneIsNoError == None \notin Errors /\ None \notin Routes
  BY DispatchAssumption

LEMMA RowsAndErrs ==
  /\ \A s : Rows(s).error = None /\ Rows(s).rows = s
  /\ \A e : Err(e).error = e /\ Err(e).rows = <<>>
  BY DEF Rows, Err

\* The errors that a server sends.
Sendable == {"fault", "internal", "crashed", "blocked", "no method", "gone"}

\* What comes instead of an answer, over one protocol or the other.
Troubles == {"lost", "large", "garbled", "other"}
Spoiled == {Err(e) : e \in Troubles}

LEMMA SendableErrors ==
  /\ Sendable \cup Troubles \subseteq Errors
  /\ "not found" \notin Sendable \cup Troubles
  /\ "large" \notin Sendable /\ "lost" \notin Sendable
  BY DEF Sendable, Troubles, Errors

LEMMA SpoiledIs ==
  /\ \A e \in Troubles : Err(e) \in Spoiled
  /\ \A r \in Spoiled : r.error \in Troubles /\ r = Err(r.error) /\ r.error # None
<1>1. None \notin Troubles
  BY NoneIsNoError, SendableErrors
<1>2. QED
  BY <1>1, RowsAndErrs DEF Spoiled

\* An answer is some rows, or an error of the server's.
LEMMA AnswerShape ==
  ASSUME NEW at, NEW r \in Answers(at)
  PROVE  \/ \E s : r = Rows(s)
         \/ \E e \in Sendable : r = Err(e)
<1>1. ASSUME NEW x \in SearchAnswers(at)
      PROVE  (\E s : x = Rows(s)) \/ x \in Crash
  BY <1>1 DEF SearchAnswers
<1>2. ASSUME NEW x \in ThreadAnswers(at)
      PROVE  (\E s : x = Rows(s)) \/ x = Err("fault")
  BY <1>2 DEF ThreadAnswers
<1>3. ASSUME NEW x \in Object(at)
      PROVE  (\E s : x = Rows(s)) \/ x = Err("fault")
  BY <1>3 DEF Object
<1>4. r \in SearchAnswers(at) \/ r \in ThreadAnswers(at) \/ r \in Object(at)
      \/ \E e \in Sendable : r = Err(e)
      \/ r \in {Rows(<<"list">>), Rows(<<"object">>)}
  BY DEF Answers, Missing, Crash, Sendable
<1>5. "fault" \in Sendable /\ \A x \in Crash : \E e \in Sendable : x = Err(e)
  BY DEF Crash, Sendable
<1>6. QED
  BY <1>1, <1>2, <1>3, <1>4, <1>5

LEMMA AnswerError ==
  ASSUME NEW at, NEW r \in Answers(at)
  PROVE  r.error = None \/ r.error \in Sendable
  BY AnswerShape, RowsAndErrs

\* The operations to which nothing is an answer.
Plural == {"search", "links nodes", "extensions"}

\* Nothing where one object was looked up: it is not there.
LEMMA NothingFound ==
  ASSUME NEW at, NEW r \in Answers(at), r.error = None, r.rows = <<>>,
         op.kind \notin Plural, at # "search"
  PROVE  server.target = "absent"
<1>1. <<"object">> # <<>> /\ <<"list">> # <<>> /\ <<"public">> # <<>> /\ <<"public", "private">> # <<>>
  OBVIOUS
<1>2. \A e \in Sendable : r # Err(e)
  BY RowsAndErrs, NoneIsNoError, SendableErrors
<1>3. r \notin {Rows(<<"object">>), Rows(<<"list">>), Rows(<<"public">>), Rows(<<"public", "private">>)}
  BY <1>1, RowsAndErrs
<1>4. r \notin {Err("fault"), Err("gone"), Err("internal"), Err("crashed"), Err("blocked"),
             Err("no method")}
  BY <1>2 DEF Sendable
<1>5. CASE r \in Object(at)
  BY <1>3, <1>4, <1>5 DEF Object
<1>6. CASE r \in ThreadAnswers(at)
  BY <1>3, <1>4, <1>6 DEF ThreadAnswers
<1>7. QED
  BY <1>3, <1>4, <1>5, <1>6 DEF Answers, SearchAnswers, Crash, Missing, Plural

LEMMA VerdictNotFound ==
  ASSUME NEW at, NEW r, Verdict(at, r).error = "not found", r.error # "not found"
  PROVE  /\ r.error = None /\ r.rows = <<>> /\ at # "search"
         /\ op.kind \notin Plural
<1>1. Err("no method").error = "no method" /\ Err("other").error = "other"
      /\ Err("internal").error = "internal"
  BY RowsAndErrs
<1>2. QED
  BY <1>1 DEF Verdict, Plural

\* The whole of what a leg does with an answer, lost, oversized or the server's.
LEMMA LegCases ==
  ASSUME Leg
  PROVE  /\ UNCHANGED <<server, op>> /\ route # None /\ op # None
         /\ \/ \E r : /\ r \in Answers(route) \cup Spoiled
                      /\ Take(r)
            \/ /\ op.kind = "search" /\ result' = Rows(<<>>) /\ route' = None
               /\ tried' = Append(tried, [route |-> route, error |-> "late"])
<1>1. Err("lost") \in Spoiled /\ Err("large") \in Spoiled
      /\ Err(IF route = "xmlrpc" THEN "garbled" ELSE "other") \in Spoiled
  BY DEF Spoiled, Troubles
<1>2. QED
  BY <1>1 DEF Leg, Answer, Lose, Garble, Oversize, CapOut, Waiting

\* The other steps: a listing asks for a page, takes one, or does neither.
LEMMA OtherSteps ==
  ASSUME [Next]_allVars, ~Leg
  PROVE  /\ UNCHANGED server
         /\ \/ UNCHANGED callVars
            \/ \E o : op = None /\ Begin(o) /\ o.kind = "search"
            \/ /\ op # None /\ op' = None /\ route' = None /\ result' = None
               /\ tried' = <<>>
<1>1. CASE Ask
  <2>1. \A c, f, z : Request(listing, c, f, z).kind = "search"
    BY DEF Request
  <2>2. QED
    BY <1>1, <2>1 DEF Ask
<1>2. CASE PageFails \/ WindowRead \/ PageRead
  BY <1>2 DEF PageFails, WindowRead, PageRead, Returned, Back
<1>3. CASE Refuse \/ Show \/ Save \/ UNCHANGED allVars
  BY <1>3 DEF Refuse, Show, Save, allVars, vars
<1>4. CASE Enter \/ Leave
  BY <1>4 DEF Enter, Leave
<1>5. QED
  BY <1>1, <1>2, <1>3, <1>4 DEF Next, PageLeg

-----------------------------------------------------------------------------
LEMMA InitNotFound ==
  ASSUME SearchInit \/ CallInit
  PROVE  NotFoundMeansAbsent
  BY DEF SearchInit, CallInit, Init, NotFoundMeansAbsent

LEMMA NextNotFound ==
  ASSUME NotFoundMeansAbsent, [Next]_allVars
  PROVE  NotFoundMeansAbsent'
<1>1. CASE Leg
  <2>1. CASE \E r : r \in Answers(route) \cup Spoiled /\ Take(r)
    <3>1. PICK r : r \in Answers(route) \cup Spoiled /\ Take(r)
      BY <2>1
    <3>2. result' = Verdict(route, r) \/ result' = None
      BY <3>1 DEF Take
    <3>3. r.error # "not found"
      BY <3>1, AnswerError, SpoiledIs, NoneIsNoError, SendableErrors DEF Errors
    <3>4. r \notin Answers(route) => r.error # None
      BY <3>1, SpoiledIs
    <3>5. Verdict(route, r).error = "not found" => server.target = "absent"
      <4>1. SUFFICES ASSUME Verdict(route, r).error = "not found"
                     PROVE  server.target = "absent"
        OBVIOUS
      <4>2. r.error = None /\ r.rows = <<>> /\ route # "search" /\ op.kind \notin Plural
        BY <3>3, <4>1, VerdictNotFound
      <4>3. QED
        BY <3>1, <3>4, <4>2, NothingFound
    <3>6. server' = server
      BY <1>1, LegCases
    <3>7. QED
      BY <3>2, <3>5, <3>6 DEF NotFoundMeansAbsent
  <2>2. CASE result' = Rows(<<>>)
    BY <2>2, RowsAndErrs, NoneIsNoError DEF NotFoundMeansAbsent, Errors
  <2>3. QED
    BY <1>1, <2>1, <2>2, LegCases
<1>2. CASE ~Leg
  BY <1>2, OtherSteps DEF NotFoundMeansAbsent, callVars, Begin
<1>3. QED
  BY <1>1, <1>2

\* A bug, group or user is reported as not found only if it is not there, over
\* either protocol and whatever the fallbacks and the network do.
THEOREM NotFoundHolds == SearchSpec => []NotFoundMeansAbsent
<1>1. SearchInit \/ CallInit => NotFoundMeansAbsent
  BY InitNotFound
<1>2. NotFoundMeansAbsent /\ [Next]_allVars => NotFoundMeansAbsent'
  BY NextNotFound
<1>3. QED
  BY <1>1, <1>2, PTL DEF SearchSpec

-----------------------------------------------------------------------------
(* Threads, and answers that are too large *)

Tries == [route : Routes, error : Errors \cup {None, "late"}]

\* Over XML-RPC no answer came, or there is no XML-RPC.
Unanswered ==
  \E n \in DOMAIN tried : tried[n].route = "xmlrpc" /\ tried[n].error \in {"gone", "lost", "garbled"}

\* A thread whose private part a caller should be shown in Hybrid mode.
PrivateThread ==
  op # None /\ op.kind \in XmlRpcFirst /\ Hybrid /\ op.key /\ Visible("xmlrpc")

\* It is asked for over XML-RPC until that has given no answer, or has answered.
ThreadWhole ==
  PrivateThread /\ route # "xmlrpc" =>
    Unanswered \/ (route = None /\ (result.error # None \/ "private" \in ToSet(result.rows)))

\* An operation has a route or a result, and its history is one of routes.
RouteOrResult ==
  /\ route \in Routes \cup {None}
  /\ route # None => result = None
  /\ result # None => op # None
  /\ tried \in Seq(Tries)

ReadsInv == RouteOrResult /\ ThreadWhole

\* Where an answer leaves an operation.
LEMMA TakeEnds ==
  ASSUME NEW r, Take(r)
  PROVE  /\ tried' = Append(tried, [route |-> route, error |-> r.error])
         /\ \/ /\ Onward(route, Verdict(route, r)) = {}
               /\ route' = None /\ result' = Verdict(route, r)
            \/ /\ route' \in Onward(route, Verdict(route, r)) /\ route' \in Routes
               /\ result' = None
<1> DEFINE onward == Onward(route, Verdict(route, r))
<1>1. onward \subseteq Routes
  BY DEF Onward
<1>2. CASE onward = {}
  BY <1>2 DEF Take
<1>3. CASE onward # {}
  <2>1. (CHOOSE next \in onward : TRUE) \in onward
    BY <1>3
  <2>2. QED
    BY <1>1, <1>3, <2>1 DEF Take
<1>4. QED
  BY <1>2, <1>3

LEMMA FirstRoute ==
  ASSUME NEW o
  PROVE  First(o) \in Routes
  BY DEF First, Routes

LEMMA AnswerTried ==
  ASSUME NEW at \in Routes, NEW r \in Answers(at) \cup Spoiled
  PROVE  [route |-> at, error |-> r.error] \in Tries
<1>1. r.error \in Errors \cup {None}
  BY AnswerError, SpoiledIs, SendableErrors
<1>2. QED
  BY <1>1 DEF Tries

LEMMA NextRouteOrResult ==
  ASSUME RouteOrResult, [Next]_allVars
  PROVE  RouteOrResult'
<1>1. CASE Leg
  <2>1. op' = op /\ route \in Routes /\ op # None
    BY <1>1, LegCases DEF RouteOrResult
  <2>2. CASE \E r : r \in Answers(route) \cup Spoiled /\ Take(r)
    <3>1. PICK r : r \in Answers(route) \cup Spoiled /\ Take(r)
      BY <2>2
    <3>2. [route |-> route, error |-> r.error] \in Tries
      BY <2>1, <3>1, AnswerTried
    <3>3. tried' \in Seq(Tries)
      BY <3>1, <3>2, TakeEnds DEF RouteOrResult
    <3>4. route' \in Routes \cup {None} /\ (route' # None => result' = None)
      BY <3>1, TakeEnds
    <3>5. QED
      BY <2>1, <3>3, <3>4 DEF RouteOrResult
  <2>3. CASE /\ route' = None
             /\ tried' = Append(tried, [route |-> route, error |-> "late"])
    <3>1. [route |-> route, error |-> "late"] \in Tries
      BY <2>1 DEF Tries
    <3>2. tried' \in Seq(Tries)
      BY <2>3, <3>1 DEF RouteOrResult
    <3>3. QED
      BY <2>1, <2>3, <3>2 DEF RouteOrResult
  <2>4. QED
    BY <1>1, <2>2, <2>3, LegCases
<1>2. CASE ~Leg
  <2>1. CASE UNCHANGED callVars
    BY <2>1 DEF callVars, RouteOrResult
  <2>2. CASE \E o : op = None /\ Begin(o) /\ o.kind = "search"
    <3>1. PICK o : Begin(o) /\ o.kind = "search"
      BY <2>2
    <3>2. op' = o /\ route' = First(o) /\ result' = None /\ tried' = <<>>
      BY <3>1 DEF Begin
    <3>3. QED
      BY <3>2, FirstRoute DEF RouteOrResult
  <2>3. CASE op' = None /\ route' = None /\ result' = None /\ tried' = <<>>
    BY <2>3 DEF RouteOrResult
  <2>4. QED
    BY <1>2, <2>1, <2>2, <2>3, OtherSteps
<1>3. QED
  BY <1>1, <1>2

\* A spoiled answer is an error whatever is asked.
LEMMA SpoiledVerdict ==
  ASSUME NEW at, NEW r \in Spoiled
  PROVE  Verdict(at, r) = r
<1>1. r.error # None /\ r.error \in Troubles
  BY SpoiledIs
<1>2. r # Err("gone")
  BY <1>1, RowsAndErrs DEF Troubles
<1>3. QED
  BY <1>1, <1>2 DEF Verdict

\* From XML-RPC an operation goes on only if no answer came that can be read.
LEMMA FromXmlRpc ==
  ASSUME NEW v, v.error \notin {"gone", "lost", "garbled"}
  PROVE  Onward("xmlrpc", v) = {}
<1>1. ~ThreadToRest("xmlrpc", v)
  BY DEF ThreadToRest, IsTransportFailure
<1>2. ~LookupToSearch("xmlrpc", v) /\ ~WhoamiToUser("xmlrpc", v)
  BY DEF LookupToSearch, WhoamiToUser
<1>3. ~BugToXmlRpc("xmlrpc", v) /\ ~GroupToXmlRpc("xmlrpc", v) /\ ~ExtensionsToXmlRpc("xmlrpc", v)
  BY DEF BugToXmlRpc, GroupToXmlRpc, ExtensionsToXmlRpc
<1>4. ~LoginToXmlRpc("xmlrpc", v) /\ ~UserToXmlRpc("xmlrpc", v) /\ ~SearchToXmlRpc("xmlrpc", v)
  BY DEF LoginToXmlRpc, UserToXmlRpc, SearchToXmlRpc
<1>5. QED
  BY <1>1, <1>2, <1>3, <1>4 DEF Onward, Routes

\* From an answer that was too large it goes nowhere, unless it may be any error.
LEMMA LargeGoesNowhere ==
  ASSUME NEW at, NEW v, v.error = "large", op.kind # "extensions"
  PROVE  Onward(at, v) = {}
<1>1. ~IsTransportFailure(v) /\ v # Rows(<<>>)
  BY RowsAndErrs, NoneIsNoError DEF IsTransportFailure, Errors
<1>2. ~LookupToSearch(at, v) /\ ~WhoamiToUser(at, v) /\ ~ThreadToRest(at, v)
  BY <1>1 DEF LookupToSearch, WhoamiToUser, ThreadToRest
<1>3. ~BugToXmlRpc(at, v) /\ ~GroupToXmlRpc(at, v) /\ ~ExtensionsToXmlRpc(at, v)
  BY <1>1 DEF BugToXmlRpc, GroupToXmlRpc, ExtensionsToXmlRpc
<1>4. ~LoginToXmlRpc(at, v) /\ ~UserToXmlRpc(at, v) /\ ~SearchToXmlRpc(at, v)
  BY <1>1 DEF LoginToXmlRpc, UserToXmlRpc, SearchToXmlRpc
<1>5. QED
  BY <1>2, <1>3, <1>4 DEF Onward, Routes

\* Over XML-RPC the server shows the whole of a thread, or has no XML-RPC.
LEMMA ThreadAnswered ==
  ASSUME PrivateThread, NEW r \in Answers("xmlrpc")
  PROVE  r = Err("gone") \/ r = Rows(<<"public", "private">>)
<1>1. Knows("xmlrpc") /\ Visible("xmlrpc")
  BY DEF PrivateThread, Knows
<1>2. op.kind \in {"comments", "attachments"}
  BY DEF PrivateThread, XmlRpcFirst
<1>3. r = Err("gone") \/ r \in ThreadAnswers("xmlrpc")
  BY <1>2 DEF Answers
<1>4. QED
  BY <1>1, <1>3 DEF ThreadAnswers

LEMMA ThreadKept ==
  ASSUME RouteOrResult, Unanswered, NEW x \in Tries, tried' = Append(tried, x)
  PROVE  Unanswered'
<1>1. PICK n \in DOMAIN tried : tried[n].route = "xmlrpc" /\ tried[n].error \in {"gone", "lost", "garbled"}
  BY DEF Unanswered
<1>2. n \in DOMAIN tried' /\ tried'[n] = tried[n]
  BY <1>1 DEF RouteOrResult
<1>3. QED
  BY <1>1, <1>2 DEF Unanswered

LEMMA ThreadUnanswered ==
  ASSUME RouteOrResult, NEW e \in {"gone", "lost", "garbled"},
         tried' = Append(tried, [route |-> "xmlrpc", error |-> e])
  PROVE  Unanswered'
<1> DEFINE x == [route |-> "xmlrpc", error |-> e]
<1>1. x \in Tries
  BY DEF Tries, Routes, Errors
<1> HIDE DEF x
<1>2. Len(tried) + 1 \in DOMAIN tried' /\ tried'[Len(tried) + 1] = x
  BY <1>1 DEF RouteOrResult, x
<1>3. x.route = "xmlrpc" /\ x.error = e
  BY DEF x
<1>4. QED
  BY <1>2, <1>3 DEF Unanswered

LEMMA NextThreadWhole ==
  ASSUME RouteOrResult, ThreadWhole, [Next]_allVars
  PROVE  ThreadWhole'
<1>1. CASE Leg
  <2>1. op' = op /\ server' = server /\ route \in Routes /\ op # None
    BY <1>1, LegCases DEF RouteOrResult
  <2>2. SUFFICES ASSUME PrivateThread, route' # "xmlrpc"
                 PROVE  Unanswered' \/ (route' = None /\ (result'.error # None
                                          \/ "private" \in ToSet(result'.rows)))
    BY <2>1 DEF ThreadWhole, PrivateThread, Hybrid, Visible, Knows
  <2>3. op.kind # "search"
    BY <2>2 DEF PrivateThread, XmlRpcFirst
  <2>4. PICK r : r \in Answers(route) \cup Spoiled /\ Take(r)
    BY <1>1, <2>3, LegCases
  <2>5. [route |-> route, error |-> r.error] \in Tries
    BY <2>1, <2>4, AnswerTried
  <2>6. tried' = Append(tried, [route |-> route, error |-> r.error])
    BY <2>4, TakeEnds
  <2>7. CASE route # "xmlrpc"
    <3>1. Unanswered
      BY <2>1, <2>2, <2>7, NoneIsNoError DEF ThreadWhole, RouteOrResult
    <3>2. QED
      BY <2>5, <2>6, <3>1, ThreadKept
  <2>8. CASE route = "xmlrpc" /\ r.error \in {"gone", "lost", "garbled"}
    <3>1. r.error \in {"gone", "lost", "garbled"}
      BY <2>8
    <3>2. QED
      BY <2>6, <2>8, <3>1, ThreadUnanswered
  <2>9. CASE /\ route = "xmlrpc" /\ Verdict(route, r) = r
             /\ r.error \in {"large", "other"} \/ r = Rows(<<"public", "private">>)
    <3>1. r.error \in {"large", "other", None} /\ r.error \notin {"gone", "lost", "garbled"}
      BY <2>9, RowsAndErrs, NoneIsNoError DEF Errors
    <3>2. Onward(route, r) = {}
      BY <2>9, <3>1, FromXmlRpc
    <3>3. route' = None /\ result' = r
      BY <2>4, <2>9, <3>2, TakeEnds
    <3>4. CASE r.error \in {"large", "other"}
      BY <3>3, <3>4, NoneIsNoError DEF Errors
    <3>5. CASE r = Rows(<<"public", "private">>)
      <4>1. r.rows = <<"public", "private">>
        BY <3>5, RowsAndErrs
      <4>2. r.rows[2] = "private" /\ 2 \in DOMAIN r.rows
        BY <4>1
      <4>3. QED
        BY <3>3, <4>2 DEF ToSet
    <3>6. QED
      BY <2>9, <3>4, <3>5
  <2>10. Verdict(route, Rows(<<"public", "private">>)) = Rows(<<"public", "private">>)
    <3>1. Rows(<<"public", "private">>).rows # <<>>
      BY RowsAndErrs
    <3>2. None # "gone"
      BY NoneIsNoError DEF Errors
    <3>3. Rows(<<"public", "private">>).error # Err("gone").error
      BY <3>2, RowsAndErrs
    <3>4. Rows(<<"public", "private">>) # Err("gone")
      BY <3>3
    <3>5. QED
      BY <3>1, <3>4 DEF Verdict
  <2>11. CASE route = "xmlrpc"
    <3>1. r = Err("gone") \/ r \in Spoiled \/ r = Rows(<<"public", "private">>)
      BY <2>2, <2>4, <2>11, ThreadAnswered
    <3>2. CASE r = Err("gone")
      <4>1. r.error = "gone"
        BY <3>2, RowsAndErrs
      <4> QED BY <2>8, <2>11, <4>1
    <3>3. CASE r = Rows(<<"public", "private">>)
      BY <2>9, <2>10, <2>11, <3>3
    <3>4. CASE r \in Spoiled
      <4>1. Verdict(route, r) = r /\ r.error \in {"lost", "large", "garbled", "other"}
        BY <3>4, SpoiledVerdict, SpoiledIs DEF Troubles
      <4> QED BY <2>8, <2>9, <2>11, <4>1
    <3>5. QED
      BY <3>1, <3>2, <3>3, <3>4
  <2>12. QED
    BY <2>7, <2>11
<1>2. CASE ~Leg
  <2>1. CASE UNCHANGED callVars /\ UNCHANGED server
    BY <2>1 DEF callVars, ThreadWhole, PrivateThread, Hybrid, Visible, Knows, Unanswered
  <2>2. CASE \E o : op = None /\ Begin(o) /\ o.kind = "search"
    BY <2>2 DEF Begin, ThreadWhole, PrivateThread, XmlRpcFirst
  <2>3. CASE op' = None
    BY <2>3 DEF ThreadWhole, PrivateThread
  <2>4. QED
    BY <1>2, <2>1, <2>2, <2>3, OtherSteps
<1>3. QED
  BY <1>1, <1>2

LEMMA InitReadsInv ==
  ASSUME SearchInit \/ CallInit
  PROVE  ReadsInv
<1>1. tried = <<>> /\ result = None /\ (op # None => route = First(op))
      /\ route \in Routes \cup {None}
  BY FirstRoute DEF SearchInit, CallInit, Init
<1>2. tried \in Seq(Tries)
  BY <1>1
<1>3. RouteOrResult
  BY <1>1, <1>2 DEF RouteOrResult
<1>4. PrivateThread => route = "xmlrpc"
  BY <1>1 DEF PrivateThread, Hybrid, XmlRpcFirst, First, XmlRpcOnly, RestOnly
<1>5. QED
  BY <1>3, <1>4 DEF ReadsInv, ThreadWhole

LEMMA ReadsHold == SearchSpec => []ReadsInv
<1>1. SearchInit \/ CallInit => ReadsInv
  BY InitReadsInv
<1>2. ReadsInv /\ [Next]_allVars => ReadsInv'
  BY NextRouteOrResult, NextThreadWhole DEF ReadsInv
<1>3. QED
  BY <1>1, <1>2, PTL DEF SearchSpec

\* In Hybrid mode the comments and attachments of a bug come without the private
\* ones only if XML-RPC gave no answer, for whoever the server knows there.
THEOREM PrivateAlwaysShown == SearchSpec => []PrivateShown
<1>1. ReadsInv => PrivateShown
  BY NoneIsNoError DEF ReadsInv, RouteOrResult, ThreadWhole, PrivateThread, Unanswered,
     PrivateShown, Routes
<1>2. QED
  BY <1>1, ReadsHold, PTL

LEMMA LargeStep ==
  ASSUME RouteOrResult, [Next]_allVars, op # None, op' = op, op.kind # "extensions",
         Len(tried') > Len(tried), tried'[Len(tried')].error = "large"
  PROVE  route' = None
<1>1. CASE Leg
  <2>1. route \in Routes
    BY <1>1, LegCases DEF RouteOrResult
  <2>2. CASE \E r : r \in Answers(route) \cup Spoiled /\ Take(r)
    <3>1. PICK r : r \in Answers(route) \cup Spoiled /\ Take(r)
      BY <2>2
    <3>2. [route |-> route, error |-> r.error] \in Tries
      BY <2>1, <3>1, AnswerTried
    <3>3. tried'[Len(tried')].error = r.error
      BY <3>1, <3>2, TakeEnds DEF RouteOrResult
    <3>4. r.error = "large" /\ r \in Spoiled
      <4>1. r.error = "large"
        BY <3>3
      <4>2. None # "large"
        BY NoneIsNoError DEF Errors
      <4>3. r \notin Answers(route)
        BY <4>1, <4>2, AnswerError, SendableErrors
      <4>4. QED
        BY <3>1, <4>1, <4>3
    <3>5. Verdict(route, r) = r /\ r.error = "large"
      BY <3>4, SpoiledVerdict
    <3>6. Onward(route, r) = {}
      BY <3>5, LargeGoesNowhere
    <3>7. QED
      BY <3>1, <3>5, <3>6, TakeEnds
  <2>3. CASE route' = None
    BY <2>3
  <2>4. QED
    BY <1>1, <2>2, <2>3, LegCases
<1>2. CASE ~Leg
  <2>1. CASE UNCHANGED callVars
    BY <2>1 DEF callVars, RouteOrResult
  <2>2. CASE op = None \/ route' = None
    BY <2>2
  <2>3. QED
    BY <1>2, <2>1, <2>2, OtherSteps
<1>3. QED
  BY <1>1, <1>2

\* An answer that was too large over one protocol is not fetched over the other,
\* by any operation but that of the extensions.
THEOREM LargeNeverRepeated == SearchSpec => LargeNotRepeated
<1>1. ReadsInv /\ [Next]_allVars
        => [(/\ op # None /\ op' = op /\ op.kind # "extensions"
             /\ Len(tried') > Len(tried) /\ tried'[Len(tried')].error = "large")
              => route' = None]_vars
  BY LargeStep DEF ReadsInv
<1>2. QED
  BY <1>1, ReadsHold, PTL DEF SearchSpec, LargeNotRepeated

-----------------------------------------------------------------------------
(* Listings: what a page answers *)

\* f is the union of s and t, when the first entries of t have been taken.
Unites(f, s, t) ==
  f = [n \in 0..Len(t) |->
         IF n = 0 THEN s
         ELSE IF t[n] \in ToSet(f[n - 1]) THEN f[n - 1] ELSE Append(f[n - 1], t[n])]

UnitesOn(f, s, t) ==
  /\ f[0] = s
  /\ \A n \in Nat : n < Len(t) =>
       f[n + 1] = IF t[n + 1] \in ToSet(f[n]) THEN f[n] ELSE Append(f[n], t[n + 1])

LEMMA UnitesSteps ==
  ASSUME NEW s, NEW t, NEW f, Len(t) \in Nat, Unites(f, s, t)
  PROVE  UnitesOn(f, s, t)
<1>1. \A m \in 0..Len(t) :
        f[m] = IF m = 0 THEN s
               ELSE IF t[m] \in ToSet(f[m - 1]) THEN f[m - 1] ELSE Append(f[m - 1], t[m])
  BY DEF Unites
<1>2. f[0] = s
  BY <1>1
<1>3. ASSUME NEW n \in Nat, n < Len(t)
      PROVE  f[n + 1] = IF t[n + 1] \in ToSet(f[n]) THEN f[n] ELSE Append(f[n], t[n + 1])
  <2>1. n + 1 \in 0..Len(t) /\ n + 1 # 0 /\ (n + 1) - 1 = n
    BY <1>3
  <2> QED BY <1>1, <2>1
<1>4. QED
  BY <1>2, <1>3 DEF UnitesOn

LEMMA UnionUnites ==
  ASSUME NEW E, NEW s \in Seq(E), NEW t \in Seq(E), Len(listing.categories) # 1
  PROVE  \E f : UnitesOn(f, s, t) /\ Union(s, t) = f[Len(t)]
<1> DEFINE D == [x \in Seq(E) \X (1..Len(t)) |->
                   IF t[x[2]] \in ToSet(x[1]) THEN x[1] ELSE Append(x[1], t[x[2]])]
<1>1. Len(t) \in Nat /\ \A n \in 1..Len(t) : t[n] \in E
  OBVIOUS
<1>2. D \in [Seq(E) \X (1..Len(t)) -> Seq(E)]
  BY <1>1
<1>3. \A x \in Seq(E), n \in 1..Len(t) :
        D[<<x, n>>] = IF t[n] \in ToSet(x) THEN x ELSE Append(x, t[n])
  OBVIOUS
<1> HIDE DEF D
<1>5. PICK f : Iterates(f, Seq(E), s, Len(t), D)
  BY <1>1, <1>2, IterationExists
<1>6. ASSUME NEW n \in 0..Len(t)
      PROVE  f[n] = IF n = 0 THEN s
                    ELSE IF t[n] \in ToSet(f[n - 1]) THEN f[n - 1] ELSE Append(f[n - 1], t[n])
  <2>1. CASE n = 0
    BY <1>5, <2>1 DEF Iterates
  <2>2. CASE n # 0
    <3>1. n \in 1..Len(t) /\ n - 1 \in 0..Len(t)
      BY <1>1, <2>2
    <3>2. f[n - 1] \in Seq(E) /\ f[n] = D[<<f[n - 1], n>>]
      BY <1>5, <3>1 DEF Iterates
    <3> QED BY <1>3, <2>2, <3>1, <3>2
  <2> QED BY <2>1, <2>2
<1>7. f = [n \in 0..Len(t) |-> f[n]]
  BY <1>5 DEF Iterates
<1>8. Unites(f, s, t)
  BY <1>6, <1>7 DEF Unites
<1>9. Union(s, t) = (CHOOSE g : Unites(g, s, t))[Len(t)]
  BY DEF Union, Unites
<1>10. PICK g : Unites(g, s, t) /\ Union(s, t) = g[Len(t)]
  BY <1>8, <1>9
<1>11. UnitesOn(g, s, t)
  BY <1>1, <1>10, UnitesSteps
<1>12. QED
  BY <1>10, <1>11

\* The bugs of a union are those of both, once each or not.
LEMMA UnionRange ==
  ASSUME NEW E, NEW s \in Seq(E), NEW t \in Seq(E)
  PROVE  Union(s, t) \in Seq(E) /\ ToSet(Union(s, t)) = ToSet(s) \cup ToSet(t)
<1>1. CASE Len(listing.categories) = 1
  <2>1. Union(s, t) = s \o t
    BY <1>1 DEF Union
  <2>2. s \o t \in Seq(E)
    OBVIOUS
  <2> QED BY <2>1, <2>2, ConcatRange
<1>2. CASE Len(listing.categories) # 1
  <2>1. PICK f : UnitesOn(f, s, t) /\ Union(s, t) = f[Len(t)]
    BY <1>2, UnionUnites
  <2>2. Len(t) \in Nat /\ DOMAIN t = 1..Len(t) /\ \A n \in 1..Len(t) : t[n] \in E
    OBVIOUS
  <2> DEFINE T == {n \in Nat : n <= Len(t) =>
                     /\ f[n] \in Seq(E)
                     /\ ToSet(f[n]) = ToSet(s) \cup {t[m] : m \in 1..n}}
  <2>3. 0 \in T
    BY <2>1 DEF UnitesOn
  <2>4. ASSUME NEW n \in Nat, n \in T PROVE n + 1 \in T
    <3> SUFFICES ASSUME n + 1 <= Len(t)
                 PROVE  /\ f[n + 1] \in Seq(E)
                        /\ ToSet(f[n + 1]) = ToSet(s) \cup {t[m] : m \in 1..(n + 1)}
      OBVIOUS
    <3>1. n < Len(t) /\ n + 1 \in 1..Len(t) /\ 1..(n + 1) = 1..n \cup {n + 1}
      BY <2>2
    <3>2. f[n + 1] = IF t[n + 1] \in ToSet(f[n]) THEN f[n] ELSE Append(f[n], t[n + 1])
      BY <2>1, <3>1 DEF UnitesOn
    <3>3. f[n] \in Seq(E) /\ ToSet(f[n]) = ToSet(s) \cup {t[m] : m \in 1..n}
      BY <2>2, <2>4, <3>1
    <3>4. t[n + 1] \in E
      BY <2>2, <3>1
    <3>5. Append(f[n], t[n + 1]) \in Seq(E)
          /\ ToSet(Append(f[n], t[n + 1])) = ToSet(f[n]) \cup {t[n + 1]}
      BY <3>3, <3>4, AppendRange
    <3>6. {t[m] : m \in 1..(n + 1)} = {t[m] : m \in 1..n} \cup {t[n + 1]}
      BY <3>1
    <3>7. f[n + 1] \in Seq(E) /\ ToSet(f[n + 1]) = ToSet(f[n]) \cup {t[n + 1]}
      BY <3>2, <3>3, <3>5
    <3> QED BY <3>3, <3>6, <3>7
  <2>5. \A n \in Nat : n \in T
    <3> HIDE DEF T
    <3> QED BY <2>3, <2>4, Induct
  <2>6. Len(t) \in T
    BY <2>2, <2>5
  <2>7. f[Len(t)] \in Seq(E) /\ ToSet(f[Len(t)]) = ToSet(s) \cup {t[m] : m \in 1..Len(t)}
    BY <2>2, <2>6
  <2>8. ToSet(t) = {t[m] : m \in 1..Len(t)}
    BY <2>2 DEF ToSet
  <2> QED BY <2>1, <2>7, <2>8
<1>3. QED
  BY <1>1, <1>2

\* A listing under way, with its page: in the other protocol only in Hybrid mode.
PageAsked ==
  listing # None /\ op # None =>
    /\ op = Request(listing, Head(todo), offset, PageSize)
    /\ todo # <<>> /\ status = "running"
    /\ route \in {"search", "xmlrpc", None}
    /\ route # None /\ listing.mode # "hybrid" => route = First(op)

ListTyped ==
  /\ server \in Servers /\ listing \in Listings \cup {None}
  /\ matches \in [Categories -> Seq(Bugs)] /\ first \in [Categories -> Seq(Bugs)]
  /\ todo \in Seq(Categories) /\ rows \in Seq(Bugs) /\ offset \in Nat /\ faults \in Nat
  /\ listing # None => ToSet(todo) \subseteq ToSet(listing.categories)
  /\ listing # None /\ result # None => result.rows \in Seq(Bugs)
  /\ status \in {"shown", "done"} => todo = <<>>

ListInv == ListTyped /\ PageAsked

LEMMA ListingFacts ==
  ASSUME listing \in Listings
  PROVE  /\ listing.categories \in Seq(Categories) /\ listing.categories # <<>>
         /\ listing.offset \in Nat /\ Limit \in Nat /\ PageSize \in Nat
         /\ listing.mode \in Modes
<1>1. listing \in ListingType /\ listing.categories # <<>>
  BY SearchAssumption
<1>2. /\ listing.categories \in Seq(Categories) /\ listing.offset \in 0..MaxU32
      /\ listing.limit \in 0..MaxU32 \cup {None} /\ listing.mode \in Modes
  BY <1>1 DEF ListingType
<1>3. MaxU32 \in Nat
  BY SearchAssumption
<1>4. QED
  BY <1>1, <1>2, <1>3 DEF Limit, PageSize

\* What the answer to a page may hold.
LEMMA SearchAnswered ==
  ASSUME op # None, op.kind = "search", NEW at \in {"search", "xmlrpc"}, NEW r \in Answers(at)
  PROVE  \/ r = Err("gone")
         \/ r = Rows(Window(at))
         \/ r = Rows(<<>>) /\ at = "search" /\ op.structured /\ ~server.filters
  BY DEF Answers, SearchAnswers

LEMMA WindowRange ==
  ASSUME op.category \in Categories, op.offset \in Nat, op.limit \in Nat,
         server \in Servers, matches \in [Categories -> Seq(Bugs)], NEW at
  PROVE  Window(at) \in Seq(Bugs)
<1> DEFINE seen == Select(matches[op.category], IF Knows(at) THEN Bugs ELSE Bugs \ Private)
           most == IF op.limit = 0 THEN Len(seen) ELSE op.limit
           size == IF server.clamp > 0 /\ server.clamp < most THEN server.clamp ELSE most
           last == IF op.offset + size < Len(seen) THEN op.offset + size ELSE Len(seen)
<1>1. seen \in Seq(Bugs)
  <2>1. matches[op.category] \in Seq(Bugs)
    OBVIOUS
  <2> QED BY <2>1, SelectType
<1>2. server.clamp \in Nat
  BY DispatchAssumption DEF ServerType
<1>3. Window(at) = SubSeq(seen, op.offset + 1, last)
  BY DEF Window
<1> HIDE DEF seen
<1>4. Len(seen) \in Nat
  BY <1>1
<1>5. last \in Int /\ last <= Len(seen)
  BY <1>2, <1>4
<1> HIDE DEF last
<1>6. \A n \in (op.offset + 1)..last : n \in 1..Len(seen)
  BY <1>4, <1>5
<1>7. SubSeq(seen, op.offset + 1, last) \in Seq(Bugs)
  BY <1>1, <1>5, <1>4
<1>8. QED
  BY <1>3, <1>7

Known == listing.key /\ (server.header \/ (listing.mode = "xmlrpc" /\ ~listing.raw))
Allowed == IF Known THEN Bugs ELSE Bugs \ Private

LEMMA SeenIs == \A s : Seen(s) = Select(s, Allowed)
  BY DEF Seen, Known, Allowed

\* What a page is of all that matches: from its offset, no longer than it may be.
PageOf(s) ==
  LET most == IF PageSize = 0 THEN Len(s) ELSE PageSize
      size == IF server.clamp > 0 /\ server.clamp < most THEN server.clamp ELSE most
  IN  SubSeq(s, offset + 1, IF offset + size < Len(s) THEN offset + size ELSE Len(s))

LEMMA RequestIs ==
  ASSUME PageAsked, listing # None, op # None
  PROVE  /\ op.kind = "search" /\ op.mode = listing.mode /\ op.key = listing.key
         /\ op.structured = listing.structured /\ op.raw = listing.raw
         /\ op.category = Head(todo) /\ op.offset = offset /\ op.limit = PageSize
  BY DEF PageAsked, Request

LEMMA SearchVerdict ==
  ASSUME op # None, op.kind = "search", NEW at \in {"search", "xmlrpc"}, NEW r \in Answers(at)
  PROVE  Verdict(at, r) = r
  BY SearchAnswered, RowsAndErrs, NoneIsNoError DEF Verdict, Errors

\* If REST and XML-RPC know the caller alike, a page is one of what the caller
\* may see.
LEMMA PageAnswers ==
  ASSUME ListInv, listing # None, Agreed, op # None, route # None,
         NEW r \in Answers(route), Take(r), result' # None, result'.error = None
  PROVE  result'.rows = PageOf(Seen(matches[Head(todo)]))
<1>1. /\ op.kind = "search" /\ op.mode = listing.mode /\ op.key = listing.key
      /\ op.structured = listing.structured /\ op.raw = listing.raw
      /\ op.category = Head(todo) /\ op.offset = offset /\ op.limit = PageSize
  BY RequestIs DEF ListInv
<1>2. route \in {"search", "xmlrpc"} /\ (listing.mode # "hybrid" => route = First(op))
  BY DEF ListInv, PageAsked
<1>3. listing.mode \in Modes
  BY ListingFacts DEF ListInv, ListTyped
<1>4. Onward(route, r) = {} /\ result' = r
  BY <1>1, <1>2, SearchVerdict, TakeEnds
<1>5. \/ r = Rows(Window(route))
      \/ r = Rows(<<>>) /\ route = "search" /\ op.structured /\ ~server.filters
  BY <1>1, <1>2, <1>4, SearchAnswered, RowsAndErrs, NoneIsNoError DEF Errors
<1>6. First(op) = IF listing.mode = "xmlrpc" /\ ~listing.raw THEN "xmlrpc" ELSE "search"
  BY <1>1, <1>3 DEF First, XmlRpcOnly, RestOnly, XmlRpcFirst, Modes
<1>7. ASSUME r = Rows(<<>>), route = "search", op.structured, ~server.filters
      PROVE  FALSE
  <2>1. listing.mode # "rest" /\ ~listing.raw
    BY <1>1, <1>7 DEF Agreed
  <2>2. listing.mode = "hybrid"
    BY <1>2, <1>3, <1>6, <1>7, <2>1 DEF Modes
  <2>3. SearchToXmlRpc(route, r)
    BY <1>1, <1>7, <2>1, <2>2 DEF SearchToXmlRpc, Hybrid
  <2>4. "xmlrpc" \in Onward(route, r)
    BY <2>3 DEF Onward, Routes
  <2> QED BY <1>4, <2>4
<1>8. Knows(route) <=> Known
  BY <1>1, <1>2, <1>3, <1>6 DEF Agreed, Knows, Known, Modes
<1>9. Window(route) = PageOf(Seen(matches[Head(todo)]))
  BY <1>1, <1>8, SeenIs DEF Window, PageOf, Allowed
<1>10. QED
  BY <1>4, <1>5, <1>7, <1>9, RowsAndErrs

\* Where a page ends.
PageEnd(s) ==
  LET most == IF PageSize = 0 THEN Len(s) ELSE PageSize
      size == IF server.clamp > 0 /\ server.clamp < most THEN server.clamp ELSE most
  IN  IF offset + size < Len(s) THEN offset + size ELSE Len(s)

LEMMA PageEnds ==
  ASSUME ListInv, listing # None, NEW s \in Seq(Bugs)
  PROVE  /\ PageEnd(s) \in Nat /\ PageEnd(s) <= Len(s)
         /\ PageOf(s) = SubSeq(s, offset + 1, PageEnd(s))
         /\ PageSize = 0 /\ server.clamp = 0 => PageEnd(s) = Len(s)
         /\ PageSize > 0 /\ offset < Len(s) => PageEnd(s) > offset
         /\ PageSize > 0 => PageEnd(s) <= offset + PageSize
         /\ PageSize > 0 /\ offset + PageSize <= Len(s)
              /\ (server.clamp = 0 \/ server.clamp >= PageSize) => PageEnd(s) = offset + PageSize
<1>1. offset \in Nat /\ PageSize \in Nat /\ server.clamp \in Nat /\ Len(s) \in Nat
  BY ListingFacts, DispatchAssumption DEF ListInv, ListTyped, ServerType
<1>2. PageOf(s) = SubSeq(s, offset + 1, PageEnd(s))
  BY DEF PageOf, PageEnd
<1> DEFINE most == IF PageSize = 0 THEN Len(s) ELSE PageSize
           size == IF server.clamp > 0 /\ server.clamp < most THEN server.clamp ELSE most
<1>3. PageEnd(s) = IF offset + size < Len(s) THEN offset + size ELSE Len(s)
  BY DEF PageEnd
<1>4. /\ size \in Nat /\ (PageSize > 0 => size > 0 /\ size <= PageSize)
      /\ PageSize = 0 /\ server.clamp = 0 => size = Len(s)
      /\ PageSize > 0 /\ (server.clamp = 0 \/ server.clamp >= PageSize) => size = PageSize
  BY <1>1
<1> HIDE DEF size
<1>5. PageEnd(s) \in Nat /\ PageEnd(s) <= Len(s)
  BY <1>1, <1>3, <1>4
<1>6. PageSize = 0 /\ server.clamp = 0 => PageEnd(s) = Len(s)
  BY <1>1, <1>3, <1>4
<1>7. PageSize > 0 /\ offset < Len(s) => PageEnd(s) > offset
  BY <1>1, <1>3, <1>4
<1>8. PageSize > 0 => PageEnd(s) <= offset + PageSize
  BY <1>1, <1>3, <1>4
<1>9. PageSize > 0 /\ offset + PageSize <= Len(s)
        /\ (server.clamp = 0 \/ server.clamp >= PageSize) => PageEnd(s) = offset + PageSize
  BY <1>1, <1>3, <1>4
<1>10. QED
  BY <1>2, <1>5, <1>6, <1>7, <1>8, <1>9

\* The entries of a page.
LEMMA PageEntries ==
  ASSUME ListInv, listing # None, NEW s \in Seq(Bugs)
  PROVE  /\ PageOf(s) \in Seq(Bugs)
         /\ Len(PageOf(s)) = IF offset < PageEnd(s) THEN PageEnd(s) - offset ELSE 0
         /\ \A p \in DOMAIN s : offset < p /\ p <= PageEnd(s) => s[p] \in ToSet(PageOf(s))
<1>1. /\ offset \in Nat /\ Len(s) \in Nat /\ PageEnd(s) \in Nat /\ PageEnd(s) <= Len(s)
      /\ PageOf(s) = SubSeq(s, offset + 1, PageEnd(s))
  <2>1. offset \in Nat /\ Len(s) \in Nat
    BY DEF ListInv, ListTyped
  <2>2. PageEnd(s) \in Nat /\ PageEnd(s) <= Len(s) /\ PageOf(s) = SubSeq(s, offset + 1, PageEnd(s))
    BY PageEnds
  <2> QED BY <2>1, <2>2
<1> DEFINE z == PageEnd(s)
           t == SubSeq(s, offset + 1, z)
<1>2. z \in Nat /\ z <= Len(s) /\ DOMAIN s = 1..Len(s)
  BY <1>1
<1> HIDE DEF z
<1>3. t \in Seq(Bugs) /\ Len(t) = IF offset + 1 <= z THEN z - offset ELSE 0
  BY <1>1, <1>2
<1>4. /\ DOMAIN t = 1..Len(t)
      /\ \A n \in 1..(z - offset) : t[n] = s[offset + n]
  BY <1>1, <1>2, <1>3
<1> HIDE DEF t
<1>5. ASSUME NEW p \in DOMAIN s, offset < p, p <= z
      PROVE  s[p] \in ToSet(t)
  <2>1. /\ p - offset \in 1..(z - offset) /\ p - offset \in DOMAIN t
        /\ offset + (p - offset) = p
    BY <1>1, <1>2, <1>3, <1>4, <1>5
  <2>2. t[p - offset] = s[p]
    BY <1>4, <2>1
  <2> QED BY <2>1, <2>2 DEF ToSet
<1>6. QED
  BY <1>1, <1>2, <1>3, <1>5 DEF z, t

\* A leg of a page: where it leaves the page.
LEMMA PageLegEnds ==
  ASSUME ListInv, listing # None, Leg
  PROVE  /\ UNCHANGED <<server, matches, op>> /\ op # None /\ route # None
         /\ result' # None => result'.rows \in Seq(Bugs)
         /\ route' \in {"search", "xmlrpc", None}
         /\ route' # None => listing.mode = "hybrid"
<1>1. UNCHANGED <<server, matches, op>> /\ op # None /\ route # None
  BY DEF Leg, Answer, Lose, Garble, Oversize, CapOut, Waiting
<1>2. /\ op.kind = "search" /\ op.mode = listing.mode /\ op.category = Head(todo)
      /\ op.offset = offset /\ op.limit = PageSize
  BY <1>1, RequestIs DEF ListInv
<1>3. route \in {"search", "xmlrpc"} /\ todo # <<>>
  BY <1>1 DEF ListInv, PageAsked
<1>4. op.category \in Categories
  BY <1>2, <1>3, TailRange DEF ListInv, ListTyped
<1>5. op.offset \in Nat /\ op.limit \in Nat /\ server \in Servers
      /\ matches \in [Categories -> Seq(Bugs)]
  BY <1>2, ListingFacts DEF ListInv, ListTyped
<1>6. Window(route) \in Seq(Bugs) /\ <<>> \in Seq(Bugs)
  BY <1>4, <1>5, WindowRange
<1>7. CASE \E r : r \in Answers(route) \cup Spoiled /\ Take(r)
  <2>1. PICK r : r \in Answers(route) \cup Spoiled /\ Take(r)
    BY <1>7
  <2>2. r.rows \in Seq(Bugs)
    <3>1. r \in {Err("gone"), Err(r.error), Rows(Window(route)), Rows(<<>>)}
      BY <1>1, <1>2, <1>3, <2>1, SearchAnswered, SpoiledIs
    <3>2. /\ Err("gone").rows = <<>> /\ Err(r.error).rows = <<>>
          /\ Rows(<<>>).rows = <<>> /\ Rows(Window(route)).rows = Window(route)
      BY RowsAndErrs
    <3> QED BY <1>6, <3>1, <3>2
  <2>3. Verdict(route, r) = r
    BY <1>1, <1>2, <1>3, <2>1, SearchVerdict, SpoiledVerdict
  <2>4. Onward(route, r) \subseteq {"xmlrpc"}
        /\ (Onward(route, r) # {} => listing.mode = "hybrid")
    <3>1. ~ThreadToRest(route, r) /\ ~LookupToSearch(route, r) /\ ~WhoamiToUser(route, r)
      BY <1>2 DEF ThreadToRest, LookupToSearch, WhoamiToUser, XmlRpcFirst
    <3>2. ~BugToXmlRpc(route, r) /\ ~GroupToXmlRpc(route, r) /\ ~ExtensionsToXmlRpc(route, r)
          /\ ~LoginToXmlRpc(route, r) /\ ~UserToXmlRpc(route, r)
      BY <1>2 DEF BugToXmlRpc, GroupToXmlRpc, ExtensionsToXmlRpc, LoginToXmlRpc, UserToXmlRpc
    <3>3. SearchToXmlRpc(route, r) => listing.mode = "hybrid"
      BY <1>2 DEF SearchToXmlRpc, Hybrid
    <3> QED BY <3>1, <3>2, <3>3 DEF Onward, Routes
  <2>5. route' = None \/ (route' = "xmlrpc" /\ listing.mode = "hybrid")
    BY <2>1, <2>3, <2>4, TakeEnds
  <2>6. result' = r \/ result' = None
    BY <2>1, <2>3, TakeEnds
  <2> QED BY <1>1, <2>2, <2>5, <2>6
<1>8. CASE route' = None /\ result' = Rows(<<>>)
  BY <1>1, <1>6, <1>8, RowsAndErrs
<1>9. QED
  BY <1>7, <1>8, LegCases

\* The steps of a listing beside its legs, one by one.
LEMMA PageStep ==
  ASSUME ListTyped, RouteOrResult, PageFails \/ WindowRead \/ PageRead
  PROVE  /\ listing # None /\ op # None /\ result # None /\ op' = None /\ result' = None /\ route' = None
         /\ UNCHANGED <<server, matches, faults, first, entered, left, listing>>
         /\ result.rows \in Seq(Bugs)
<1>1. Returned /\ Back
  BY DEF PageFails, WindowRead, PageRead
<1>2. QED
  BY <1>1 DEF PageFails, WindowRead, PageRead, Returned, Running, Back, worldVars, ListTyped

LEMMA NextCategoryTyped ==
  ASSUME ListTyped, listing # None, todo # <<>>, NextCategory
  PROVE  /\ todo' \in Seq(Categories) /\ ToSet(todo') \subseteq ToSet(listing.categories)
         /\ offset' \in Nat
<1>1. todo \in Seq(Categories) /\ ToSet(todo) \subseteq ToSet(listing.categories) /\ todo' = Tail(todo)
      /\ offset' = listing.offset
  BY DEF ListTyped, NextCategory
<1>2. listing.offset \in Nat
  BY ListingFacts DEF ListTyped
<1>3. Tail(todo) \in Seq(Categories) /\ ToSet(Tail(todo)) \subseteq ToSet(todo)
  BY <1>1, TailRange
<1>4. QED
  BY <1>1, <1>2, <1>3

\* What WindowRead and PageRead do to the rows.
LEMMA ReadRows ==
  ASSUME ListTyped, RouteOrResult, WindowRead \/ PageRead
  PROVE  /\ rows' \in Seq(Bugs) /\ ToSet(rows) \subseteq ToSet(rows')
         /\ PageRead => ToSet(rows') = ToSet(rows) \cup ToSet(result.rows)
<1>1. result.rows \in Seq(Bugs) /\ rows \in Seq(Bugs) /\ listing # None
  BY PageStep DEF ListTyped
<1>2. CASE PageRead
  <2>1. rows' = Union(rows, result.rows)
    BY <1>2 DEF PageRead
  <2> QED BY <1>1, <2>1, UnionRange
<1>3. CASE WindowRead
  <2> DEFINE t == IF Limit > 0 /\ Len(result.rows) > Limit THEN SubSeq(result.rows, 1, Limit)
                  ELSE result.rows
  <2>1. rows' = Union(rows, t)
    BY <1>3 DEF WindowRead
  <2>2. Limit \in Nat /\ Len(result.rows) \in Nat
    BY <1>1, ListingFacts DEF ListTyped
  <2>3. t \in Seq(Bugs)
    BY <1>1, <2>2
  <2> HIDE DEF t
  <2>4. rows' \in Seq(Bugs) /\ ToSet(rows) \subseteq ToSet(rows')
    BY <1>1, <2>1, <2>3, UnionRange
  <2>5. ~PageRead
    BY <1>3 DEF WindowRead, PageRead
  <2> QED BY <2>4, <2>5
<1>4. QED
  BY <1>2, <1>3

LEMMA NextListTyped ==
  ASSUME ListInv, RouteOrResult, [Next]_allVars
  PROVE  ListTyped'
<1> USE DEF ListTyped
<1>0. ListTyped
  BY DEF ListInv
<1>1. CASE UNCHANGED allVars
  BY <1>0, <1>1 DEF allVars, vars, callVars, listVars, worldVars
<1>2. CASE Ask
  BY <1>0, <1>2 DEF Ask, Begin, listVars, worldVars
<1>3. CASE Refuse
  BY <1>0, <1>3 DEF Refuse, Stop, vars, callVars, worldVars
<1>4. CASE PageLeg
  <2>1. UNCHANGED <<listVars, worldVars>> /\ Leg
    BY <1>4 DEF PageLeg
  <2>2. UNCHANGED <<server, matches, op>>
    BY <2>1 DEF Leg, Answer, Lose, Garble, Oversize, CapOut
  <2>3. listing # None /\ result' # None => result'.rows \in Seq(Bugs)
    BY <2>1, PageLegEnds
  <2>4. faults' \in Nat
    <3>1. faults' = faults \/ Fault
      BY <2>1 DEF Leg, Answer, Lose, Garble, Oversize, CapOut
    <3> QED BY <1>0, <3>1 DEF Fault
  <2> QED BY <1>0, <2>1, <2>2, <2>3, <2>4 DEF listVars, worldVars
<1>5. CASE PageFails
  BY <1>0, <1>5, PageStep DEF PageFails, Stop
<1>6. CASE WindowRead
  <2>1. listing # None /\ todo # <<>> /\ NextCategory /\ status' = status /\ Returned
    BY <1>0, <1>6, PageStep DEF WindowRead, ListInv, PageAsked
  <2>2. status = "running"
    BY <2>1 DEF Returned, Running
  <2> QED BY <1>0, <1>6, <2>1, <2>2, PageStep, NextCategoryTyped, ReadRows
<1>7. CASE PageRead
  <2>1. listing # None /\ todo # <<>> /\ Returned
    BY <1>0, <1>7, PageStep DEF PageRead, ListInv, PageAsked
  <2>2. status = "running"
    BY <2>1 DEF Returned, Running
  <2>3. CASE NextCategory /\ UNCHANGED status
    BY <1>0, <1>7, <2>1, <2>2, <2>3, PageStep, NextCategoryTyped, ReadRows
  <2>4. CASE Stop("failed") /\ UNCHANGED <<offset, todo>>
    BY <1>0, <1>7, <2>1, <2>4, PageStep, ReadRows DEF Stop
  <2>5. CASE offset' = offset + Len(result.rows) /\ UNCHANGED <<todo, status>>
    BY <1>0, <1>7, <2>1, <2>2, <2>5, PageStep, ReadRows
  <2>6. QED
    BY <1>7, <2>3, <2>4, <2>5 DEF PageRead
<1>8. CASE Show
  BY <1>0, <1>8 DEF Show, Stop, vars, callVars, worldVars
<1>9. CASE Save
  BY <1>0, <1>9 DEF Save, Stop, vars, callVars, worldVars
<1>10. CASE Enter
  <2>1. PICK c \in ToSet(listing.categories) :
          \E b \in Bugs : \E n \in 1..(Len(matches[c]) + 1) :
            matches' = [matches EXCEPT ![c] = InsertAt(@, n, b)]
    BY <1>10 DEF Enter
  <2>2. PICK b \in Bugs, n \in 1..(Len(matches[c]) + 1) :
          matches' = [matches EXCEPT ![c] = InsertAt(@, n, b)]
    BY <2>1
  <2>3. c \in Categories => InsertAt(matches[c], n, b) \in Seq(Bugs)
    BY <1>0, SelectInsert
  <2>4. matches' \in [Categories -> Seq(Bugs)]
    BY <1>0, <2>2, <2>3
  <2> QED BY <1>0, <1>10, <2>4 DEF Enter, callVars, listVars
<1>11. CASE Leave
  <2>1. PICK c \in ToSet(listing.categories) :
          \E b \in ToSet(matches[c]) : matches' = [matches EXCEPT ![c] = Select(@, Bugs \ {b})]
    BY <1>11 DEF Leave
  <2>4. PICK b : matches' = [matches EXCEPT ![c] = Select(@, Bugs \ {b})]
    BY <2>1
  <2>2. c \in Categories => Select(matches[c], Bugs \ {b}) \in Seq(Bugs)
    BY <1>0, SelectType
  <2>3. matches' \in [Categories -> Seq(Bugs)]
    BY <1>0, <2>4, <2>2
  <2> QED BY <1>0, <1>11, <2>3 DEF Leave, callVars, listVars
<1>12. QED
  BY <1>1, <1>2, <1>3, <1>4, <1>5, <1>6, <1>7, <1>8, <1>9, <1>10, <1>11 DEF Next

LEMMA NextPageAsked ==
  ASSUME ListInv, RouteOrResult, [Next]_allVars
  PROVE  PageAsked'
<1>0. PageAsked /\ ListTyped
  BY DEF ListInv
<1>1. CASE UNCHANGED allVars
  BY <1>0, <1>1 DEF allVars, vars, callVars, listVars, worldVars, PageAsked, PageSize, Limit
<1>2. CASE Ask
  <2>1. /\ op' = Request(listing, Head(todo), offset, PageSize) /\ route' = First(op')
        /\ UNCHANGED listVars /\ Running /\ todo # <<>>
    BY <1>2 DEF Ask, Begin
  <2>2. op'.kind = "search"
    BY <2>1 DEF Request
  <2>3. route' \in {"search", "xmlrpc"}
    BY <2>1, <2>2 DEF First, XmlRpcOnly, RestOnly, XmlRpcFirst
  <2>4. PageSize' = PageSize
    BY <2>1 DEF PageSize, Limit, listVars
  <2> QED BY <2>1, <2>3, <2>4 DEF PageAsked, listVars, Running
<1>3. CASE Refuse \/ Show \/ Save
  <2>1. UNCHANGED op /\ (op = None \/ status # "running" \/ todo = <<>>) /\ listing' = listing
    BY <1>3 DEF Refuse, Show, Save, vars, callVars
  <2> QED BY <1>0, <2>1 DEF PageAsked
<1>4. CASE PageLeg
  <2>1. UNCHANGED <<listVars, worldVars>> /\ Leg
    BY <1>4 DEF PageLeg
  <2>2. SUFFICES ASSUME listing # None PROVE PageAsked'
    BY <2>1 DEF PageAsked, listVars
  <2>3. /\ UNCHANGED <<server, matches, op>> /\ op # None
        /\ route' \in {"search", "xmlrpc", None}
        /\ route' # None => listing.mode = "hybrid"
    BY <2>1, <2>2, PageLegEnds
  <2>4. PageSize' = PageSize
    BY <2>1 DEF PageSize, Limit, listVars
  <2> QED BY <1>0, <2>1, <2>3, <2>4 DEF PageAsked, listVars
<1>5. CASE PageFails \/ WindowRead \/ PageRead
  BY <1>0, <1>5, PageStep DEF PageAsked
<1>6. CASE Enter \/ Leave
  <2>1. UNCHANGED callVars /\ UNCHANGED listVars
    BY <1>6 DEF Enter, Leave
  <2>2. PageSize' = PageSize
    BY <2>1 DEF PageSize, Limit, listVars
  <2> QED BY <1>0, <2>1, <2>2 DEF PageAsked, listVars, callVars
<1>7. QED
  BY <1>1, <1>2, <1>3, <1>4, <1>5, <1>6 DEF Next

LEMMA InitListInv ==
  ASSUME SearchInit \/ CallInit
  PROVE  ListInv
<1>1. CASE SearchInit
  <2>1. listing \in Listings
    BY <1>1 DEF SearchInit
  <2>2. listing.categories \in Seq(Categories) /\ listing.offset \in Nat
    BY <2>1, ListingFacts
  <2>3. Results \subseteq Seq(Bugs)
    BY SearchAssumption
  <2>4. matches \in [Categories -> Seq(Bugs)] /\ first = matches
    BY <1>1, <2>3 DEF SearchInit
  <2>5. ListTyped
    BY <1>1, <2>2, <2>4 DEF SearchInit, ListTyped
  <2> QED BY <1>1, <2>5 DEF SearchInit, ListInv, PageAsked
<1>2. CASE CallInit
  <2>1. listing = None /\ server \in Servers /\ todo = <<>> /\ rows = <<>> /\ offset = 0
        /\ matches = [c \in Categories |-> <<>>] /\ first = matches /\ faults = 0
    BY <1>2 DEF CallInit, Init
  <2>2. matches \in [Categories -> Seq(Bugs)]
    BY <2>1
  <2> QED BY <2>1, <2>2 DEF ListInv, ListTyped, PageAsked
<1>3. QED
  BY <1>1, <1>2

-----------------------------------------------------------------------------
(* Listings: no bug is missed, and what a window says of the rest is true *)

\* The entries of s beyond its n-th.
Beyond(s, n) == {s[p] : p \in {m \in DOMAIN s : m > n}}

\* What the caller may see of what a category matches now beyond its n-th bug,
Ahead(c, n) == Beyond(Seen(matches[c]), n)

\* and of what it matched at first beyond the offset of the listing: it is to be shown.
Due(c) == Beyond(Seen(first[c]), listing.offset)

\* The page under way has come, and where the next one will begin.
PageCame == op # None /\ result # None /\ result.error = None
ToCome ==
  IF ~PageCame THEN Ahead(Head(todo), offset)
  ELSE ToSet(result.rows) \cup
       (IF Limit = 0 \/ result.rows = <<>> THEN {}
        ELSE Ahead(Head(todo), offset + Len(result.rows)))

\* The pages of --paginate show one result, from which nothing has gone.
Steady == listing # None /\ listing.paginate /\ OneView /\ Bounded /\ left = {}

NothingLost ==
  Steady =>
    /\ \A c \in ToSet(listing.categories) :
         /\ Due(c) \subseteq Ahead(c, listing.offset)
         /\ c \in ToSet(todo) \/ Due(c) \subseteq ToSet(rows)
    /\ status = "running" /\ todo # <<>> => Due(Head(todo)) \subseteq ToSet(rows) \cup ToCome

\* There is more of a category than a window shows.
More(c) == Len(Seen(matches[c])) > listing.offset + Limit

\* A window that nothing has changed under.
Still ==
  /\ listing # None /\ ~listing.paginate /\ Limit > 0 /\ OneView
  /\ entered = {} /\ left = {}
Ample == server.clamp = 0 \/ server.clamp > Limit

WindowTold ==
  Still =>
    /\ offset = listing.offset
    /\ truncated => \E c \in ToSet(listing.categories) : More(c)
    /\ \A c \in ToSet(listing.categories) : Ample /\ More(c) => c \in ToSet(todo) \/ truncated
    /\ PageCame =>
         /\ Len(result.rows) > Limit => More(Head(todo))
         /\ Ample /\ More(Head(todo)) => Len(result.rows) > Limit

LEMMA InsertBeyond ==
  ASSUME NEW E, NEW s \in Seq(E), NEW x \in E, NEW S, NEW m \in 1..(Len(s) + 1), NEW n \in Nat
  PROVE  Beyond(Select(s, S), n) \subseteq Beyond(Select(InsertAt(s, m, x), S), n)
<1>1. InsertAt(s, m, x) \in Seq(E) /\ Rightwards(Select(s, S), Select(InsertAt(s, m, x), S))
  BY SelectInsert
<1> DEFINE a == Select(s, S)
           z == Select(InsertAt(s, m, x), S)
<1>2. a \in Seq(E) /\ z \in Seq(E)
  BY <1>1, SelectType
<1>3. \A p \in DOMAIN a : \E q \in DOMAIN z : q >= p /\ z[q] = a[p]
  BY <1>1 DEF Rightwards
<1> HIDE DEF a, z
<1>4. DOMAIN a \subseteq Nat /\ DOMAIN z \subseteq Nat
  BY <1>2
<1>5. Beyond(a, n) \subseteq Beyond(z, n)
  <2> SUFFICES ASSUME NEW p \in DOMAIN a, p > n
               PROVE  a[p] \in Beyond(z, n)
    BY DEF Beyond
  <2>1. PICK q \in DOMAIN z : q >= p /\ z[q] = a[p]
    BY <1>3
  <2>2. q > n
    BY <1>4, <2>1
  <2> QED BY <2>1, <2>2 DEF Beyond
<1>6. QED
  BY <1>5 DEF a, z

\* A bug that comes to match moves others towards the end at most.
LEMMA EnterAhead ==
  ASSUME ListInv, Enter, NEW c \in Categories, NEW n \in Nat
  PROVE  Ahead(c, n) \subseteq Ahead(c, n)'
<1>1. UNCHANGED <<listing, server>>
  BY DEF Enter, listVars
<1>2. Seen(matches[c])' = Select(matches'[c], Allowed)
  BY <1>1 DEF Seen, Allowed, Known
<1>3. Seen(matches[c]) = Select(matches[c], Allowed)
  BY SeenIs
<1>4. matches \in [Categories -> Seq(Bugs)]
  BY DEF ListInv, ListTyped
<1>5. PICK d \in ToSet(listing.categories) :
        \E b \in Bugs : \E m \in 1..(Len(matches[d]) + 1) :
          matches' = [matches EXCEPT ![d] = InsertAt(@, m, b)]
  BY DEF Enter
<1>6. PICK b \in Bugs, m \in 1..(Len(matches[d]) + 1) :
        matches' = [matches EXCEPT ![d] = InsertAt(@, m, b)]
  BY <1>5
<1>7. CASE c = d
  <2> DEFINE s == matches[c]
  <2>1. s \in Seq(Bugs) /\ m \in 1..(Len(s) + 1) /\ matches'[c] = InsertAt(s, m, b)
    BY <1>4, <1>6, <1>7
  <2> HIDE DEF s
  <2>2. Beyond(Select(s, Allowed), n) \subseteq Beyond(Select(InsertAt(s, m, b), Allowed), n)
    BY <2>1, InsertBeyond
  <2> QED BY <1>2, <1>3, <2>1, <2>2 DEF Ahead, s, Beyond
<1>8. CASE c # d
  <2>1. matches'[c] = matches[c]
    BY <1>4, <1>6, <1>8
  <2> QED BY <1>2, <1>3, <2>1 DEF Ahead, Beyond
<1>9. QED
  BY <1>7, <1>8

\* Before a step that leaves a listing steady it was so.
LEMMA SteadyBefore ==
  ASSUME ListInv, RouteOrResult, [Next]_allVars, listing # None, OneView'
  PROVE  OneView /\ UNCHANGED <<server, listing, first>> /\ ~Lose /\ ~Garble /\ ~Oversize /\ ~CapOut
         /\ (left' = {} => left = {} /\ ~Leave)
         /\ (entered' = {} => entered = {} /\ ~Enter)
<1>1. UNCHANGED <<server, listing, first>>
  <2>1. CASE PageFails \/ WindowRead \/ PageRead
    BY <2>1, PageStep DEF ListInv
  <2>2. CASE PageLeg
    BY <2>2 DEF PageLeg, Leg, Answer, Lose, Garble, Oversize, CapOut, listVars, worldVars
  <2>3. CASE ~(PageFails \/ WindowRead \/ PageRead \/ PageLeg)
    BY <2>3 DEF Next, Ask, Refuse, Show, Save, Enter, Leave, listVars, vars, worldVars, allVars
  <2> QED BY <2>1, <2>2, <2>3
<1>2. faults' = 0 /\ faults \in Nat /\ Agreed
  BY <1>1 DEF OneView, Agreed, ListInv, ListTyped
<1>3. ~Lose /\ ~Garble /\ ~Oversize /\ ~CapOut
  <2>1. ~Fault
    BY <1>2 DEF Fault
  <2> QED BY <2>1 DEF Lose, Garble, Oversize, CapOut
<1>6. faults = 0
  <2>1. CASE PageFails \/ WindowRead \/ PageRead
    BY <1>2, <2>1, PageStep DEF ListInv
  <2>2. CASE PageLeg
    BY <1>2, <1>3, <2>2 DEF PageLeg, Leg, Answer
  <2>3. CASE ~(PageFails \/ WindowRead \/ PageRead \/ PageLeg)
    BY <1>2, <2>3 DEF Next, Ask, Refuse, Show, Save, Enter, Leave, vars, allVars
  <2> QED BY <2>1, <2>2, <2>3
<1>4. /\ left' = {} => left = {} /\ ~Leave
      /\ entered' = {} => entered = {} /\ ~Enter
  <2>1. ~Enter /\ ~Leave => UNCHANGED <<entered, left>>
    <3>1. CASE PageFails \/ WindowRead \/ PageRead
      BY <3>1, PageStep DEF ListInv
    <3>2. CASE PageLeg
      BY <3>2 DEF PageLeg, worldVars
    <3>3. CASE ~(PageFails \/ WindowRead \/ PageRead \/ PageLeg)
      BY <3>3 DEF Next, Ask, Refuse, Show, Save, worldVars, allVars
    <3> QED BY <3>1, <3>2, <3>3
  <2>2. CASE Enter
    <3>1. UNCHANGED left /\ \E b \in Bugs : entered' = entered \cup {b}
      BY <2>2 DEF Enter
    <3>2. Leave => \E b : left' = left \cup {b}
      BY DEF Leave
    <3>3. entered' # {}
      BY <3>1
    <3>4. left' = {} => ~Leave
      BY <3>2
    <3> QED BY <3>1, <3>3, <3>4
  <2>3. CASE Leave
    <3>1. UNCHANGED entered /\ \E b : left' = left \cup {b}
      BY <2>3 DEF Leave
    <3>2. Enter => \E b : entered' = entered \cup {b}
      BY DEF Enter
    <3>3. left' # {}
      BY <3>1
    <3>4. entered' = {} => ~Enter
      BY <3>2
    <3> QED BY <3>1, <3>3, <3>4
  <2> QED BY <2>1, <2>2, <2>3
<1>5. QED
  BY <1>1, <1>2, <1>3, <1>4, <1>6 DEF OneView

\* What depends on the listing and the server alone stays.
LEMMA SameListing ==
  ASSUME UNCHANGED <<server, listing, first>>
  PROVE  /\ Limit' = Limit /\ PageSize' = PageSize /\ Allowed' = Allowed
         /\ Agreed' = Agreed /\ Bounded' = Bounded /\ Ample' = Ample
         /\ \A c : Due(c)' = Due(c)
  BY DEF Limit, PageSize, Allowed, Known, Agreed, Bounded, Ample, Due, Seen

LEMMA SameMatches ==
  ASSUME UNCHANGED <<server, listing, matches>>
  PROVE  \A c : /\ \A n : Ahead(c, n)' = Ahead(c, n)
                /\ More(c)' = More(c)
  BY DEF Ahead, More, Seen, Limit

LEMMA SeenTyped ==
  ASSUME ListTyped, NEW c \in Categories
  PROVE  Seen(matches[c]) \in Seq(Bugs) /\ Seen(first[c]) \in Seq(Bugs)
<1>1. matches[c] \in Seq(Bugs) /\ first[c] \in Seq(Bugs)
  BY DEF ListTyped
<1>2. Select(matches[c], Allowed) \in Seq(Bugs) /\ Select(first[c], Allowed) \in Seq(Bugs)
  BY <1>1, SelectType
<1>3. QED
  BY <1>2, SeenIs

\* A page brings what lies ahead, or the next page will.
LEMMA PageBrings ==
  ASSUME ListInv, listing # None, Bounded, NEW s \in Seq(Bugs),
         Limit > 0 => PageSize > 0, Limit = 0 => PageSize = 0
  PROVE  Beyond(s, offset) \subseteq
           ToSet(PageOf(s)) \cup
           (IF Limit = 0 \/ PageOf(s) = <<>> THEN {}
            ELSE Beyond(s, offset + Len(PageOf(s))))
<1> DEFINE z == PageEnd(s)
<1>1. /\ offset \in Nat /\ Len(s) \in Nat /\ z \in Nat /\ z <= Len(s) /\ Limit \in Nat
      /\ Limit = 0 => z = Len(s)
      /\ Limit > 0 /\ offset < Len(s) => z > offset
  <2>1. offset \in Nat /\ Len(s) \in Nat /\ Limit \in Nat /\ PageSize \in Nat
    BY ListingFacts DEF ListInv, ListTyped
  <2>2. /\ z \in Nat /\ z <= Len(s)
        /\ PageSize = 0 /\ server.clamp = 0 => z = Len(s)
        /\ PageSize > 0 /\ offset < Len(s) => z > offset
    BY PageEnds
  <2>3. Limit = 0 => server.clamp = 0
    BY <2>1 DEF Bounded
  <2> HIDE DEF z
  <2> QED BY <2>1, <2>2, <2>3
<1>2. /\ PageOf(s) \in Seq(Bugs) /\ Len(PageOf(s)) = IF offset < z THEN z - offset ELSE 0
      /\ \A p \in DOMAIN s : offset < p /\ p <= z => s[p] \in ToSet(PageOf(s))
  BY PageEntries
<1> HIDE DEF z
<1>3. SUFFICES ASSUME NEW p \in DOMAIN s, p > offset
               PROVE  \/ s[p] \in ToSet(PageOf(s))
                      \/ /\ Limit # 0 /\ PageOf(s) # <<>>
                         /\ s[p] \in Beyond(s, offset + Len(PageOf(s)))
  BY DEF Beyond
<1>4. p \in 1..Len(s)
  OBVIOUS
<1>5. CASE p <= z
  BY <1>1, <1>2, <1>3, <1>4, <1>5
<1>6. CASE p > z
  <2>1. Limit # 0 /\ offset < z
    BY <1>1, <1>3, <1>4, <1>6
  <2>2. Len(PageOf(s)) = z - offset /\ Len(PageOf(s)) # 0
    BY <1>1, <1>2, <2>1
  <2>3. PageOf(s) # <<>> /\ offset + Len(PageOf(s)) = z
    BY <1>1, <2>2
  <2> QED BY <1>6, <2>1, <2>3 DEF Beyond
<1>7. QED
  BY <1>1, <1>4, <1>5, <1>6

LEMMA NextNothingLost ==
  ASSUME ListInv, RouteOrResult, NothingLost, [Next]_allVars
  PROVE  NothingLost'
<1> SUFFICES ASSUME Steady' PROVE NothingLost'
  BY DEF NothingLost
<1>1. listing # None
  <2>1. CASE PageFails \/ WindowRead \/ PageRead
    BY <2>1, PageStep DEF ListInv, Steady
  <2>2. CASE ~(PageFails \/ WindowRead \/ PageRead)
    BY <2>2 DEF Next, Ask, Refuse, PageLeg, Show, Save, Enter, Leave, listVars, allVars, Steady
  <2> QED BY <2>1, <2>2
<1>2. /\ OneView /\ UNCHANGED <<server, listing, first>> /\ ~Lose /\ ~Garble /\ ~Oversize /\ ~CapOut
      /\ left = {} /\ ~Leave
  BY <1>1, SteadyBefore DEF Steady
<1>3. Steady /\ listing.paginate
  BY <1>1, <1>2, SameListing DEF Steady
<1>4. /\ \A c \in ToSet(listing.categories) :
           /\ Due(c) \subseteq Ahead(c, listing.offset)
           /\ c \in ToSet(todo) \/ Due(c) \subseteq ToSet(rows)
      /\ status = "running" /\ todo # <<>> => Due(Head(todo)) \subseteq ToSet(rows) \cup ToCome
  BY <1>3 DEF NothingLost
<1>5. /\ \A c : Due(c)' = Due(c)
      /\ UNCHANGED <<Limit, listing>>
  BY <1>2, SameListing
<1>6. ListTyped /\ PageAsked /\ ToSet(listing.categories) \subseteq Categories
      /\ listing.offset \in Nat /\ offset \in Nat
  <2>1. listing.categories \in Seq(Categories)
    BY <1>1, ListingFacts DEF ListInv, ListTyped
  <2>2. ToSet(listing.categories) \subseteq Categories
    BY <2>1 DEF ToSet
  <2> QED BY <1>1, <2>2, ListingFacts DEF ListInv, ListTyped
\* Steps that leave the rows and what is to come alone.
<1>7. ASSUME UNCHANGED <<matches, todo, offset, rows>>,
             status' # "running" \/ (status' = status /\ ((result' = result /\ op' = op) \/ (~PageCame /\ ~PageCame')))
      PROVE  NothingLost'
  <2>1. \A c, n : Ahead(c, n)' = Ahead(c, n)
    BY <1>2, <1>7, SameMatches
  <2>2. status' = "running" => ToCome' = ToCome
    BY <1>5, <1>7, <2>1 DEF ToCome, PageCame
  <2> QED BY <1>4, <1>5, <1>7, <2>1, <2>2 DEF NothingLost
<1>8. CASE UNCHANGED allVars
  <2>1. UNCHANGED <<matches, todo, offset, rows, status>> /\ UNCHANGED <<result, op>>
    BY <1>8 DEF allVars, vars, callVars, listVars
  <2>2. status' = status /\ result' = result /\ op' = op
    BY <2>1
  <2> QED BY <1>7, <2>1, <2>2
<1>9. CASE Ask
  <2>1. UNCHANGED <<matches, todo, offset, rows, status>> /\ op = None /\ result' = None
    BY <1>9 DEF Ask, Begin, listVars
  <2>2. ~PageCame /\ ~PageCame'
    BY <2>1 DEF PageCame
  <2> QED BY <1>7, <2>1, <2>2
<1>10. CASE Refuse \/ Show \/ Save
  <2>1. UNCHANGED <<matches, todo, offset, rows>> /\ status' # "running"
    BY <1>10 DEF Refuse, Show, Save, Stop, vars
  <2> QED BY <1>7, <2>1
<1>11. CASE PageFails
  <2>1. UNCHANGED <<matches, todo, offset, rows>> /\ status' # "running"
    BY <1>11 DEF PageFails, Back, Stop
  <2> QED BY <1>7, <2>1
<1>12. CASE WindowRead
  BY <1>3, <1>12 DEF WindowRead
<1>13. CASE PageLeg
  <2>1. Answer /\ Leg /\ UNCHANGED <<matches, op, todo, offset, rows, status>>
    BY <1>2, <1>13 DEF PageLeg, Leg, Answer, listVars
  <2>2. PICK r \in Answers(route) : Take(r)
    BY <2>1 DEF Answer
  <2>3. route # None /\ op # None /\ result = None
    BY <2>1 DEF Answer, Waiting, RouteOrResult
  <2>4. CASE ~PageCame'
    BY <1>7, <2>1, <2>3, <2>4 DEF PageCame
  <2>5. CASE PageCame'
    <3>1. result' # None /\ result'.error = None
      BY <2>5 DEF PageCame
    <3> DEFINE c == Head(todo)
    <3>2. result'.rows = PageOf(Seen(matches[c]))
      BY <1>1, <1>2, <2>2, <2>3, <3>1, PageAnswers DEF OneView
    <3>3. todo # <<>> /\ c \in Categories /\ status = "running"
      BY <1>1, <1>6, <2>3, TailRange DEF ListTyped, PageAsked
    <3>4. Limit \in Nat /\ (Limit > 0 => PageSize > 0) /\ (Limit = 0 => PageSize = 0)
      BY <1>1, <1>3, ListingFacts DEF ListInv, ListTyped, PageSize
    <3>5. Seen(matches[c]) \in Seq(Bugs)
      BY <1>6, <3>3, SeenTyped
    <3> DEFINE s == Seen(matches[c])
    <3>6. Beyond(s, offset) \subseteq
            ToSet(PageOf(s)) \cup
            (IF Limit = 0 \/ PageOf(s) = <<>> THEN {}
             ELSE Beyond(s, offset + Len(PageOf(s))))
      BY <1>1, <1>3, <3>4, <3>5, PageBrings DEF Steady
    <3>7. ToCome = Beyond(s, offset)
      BY <2>3 DEF ToCome, PageCame, Ahead
    <3>8. ToCome' = ToSet(result'.rows) \cup
            (IF Limit = 0 \/ result'.rows = <<>> THEN {}
             ELSE Ahead(c, offset + Len(result'.rows)))
      <4>1. \A n : Ahead(c, n)' = Ahead(c, n)
        BY <1>2, <2>1, SameMatches
      <4> QED BY <1>5, <2>1, <2>5, <4>1 DEF ToCome
    <3>9. ToCome \subseteq ToCome'
      BY <3>2, <3>6, <3>7, <3>8 DEF Ahead
    <3>10. Due(c) \subseteq ToSet(rows) \cup ToCome'
      BY <1>4, <3>3, <3>9
    <3>11. \A d, n : Ahead(d, n)' = Ahead(d, n)
      BY <1>2, <2>1, SameMatches
    <3> HIDE DEF c
    <3> QED BY <1>4, <1>5, <2>1, <3>10, <3>11 DEF NothingLost, c
  <2> QED BY <2>4, <2>5
<1>14. CASE PageRead
  <2>1. /\ Returned /\ result.error = None /\ PageCame /\ UNCHANGED matches /\ op' = None
        /\ status = "running" /\ todo # <<>> /\ todo \in Seq(Categories)
    BY <1>1, <1>6, <1>14 DEF PageRead, Back, Returned, Running, PageCame, PageAsked, ListTyped
  <2> DEFINE c == Head(todo)
  <2>2. ToSet(rows') = ToSet(rows) \cup ToSet(result.rows)
    BY <1>6, <1>14, ReadRows
  <2>3. Due(c) \subseteq ToSet(rows) \cup ToCome
    BY <1>4, <2>1
  <2>4. ToCome = ToSet(result.rows) \cup
            (IF Limit = 0 \/ result.rows = <<>> THEN {} ELSE Ahead(c, offset + Len(result.rows)))
    BY <2>1 DEF ToCome
  <2>5. \A d, n : Ahead(d, n)' = Ahead(d, n)
    BY <1>2, <2>1, SameMatches
  <2>6. ~PageCame'
    BY <2>1 DEF PageCame
  <2>7. CASE Limit = 0 \/ result.rows = <<>>
    <3>1. todo' = Tail(todo) /\ offset' = listing.offset
      BY <1>14, <2>7 DEF PageRead, NextCategory
    <3>2. Due(c) \subseteq ToSet(rows')
      BY <2>2, <2>3, <2>4, <2>7
    <3>3. ToSet(todo) = {c} \cup ToSet(todo')
      BY <2>1, <3>1, TailRange
    <3>4. \A d \in ToSet(listing.categories) :
            /\ Due(d) \subseteq Ahead(d, listing.offset)
            /\ d \in ToSet(todo') \/ Due(d) \subseteq ToSet(rows')
      BY <1>4, <2>2, <3>2, <3>3
    <3>5. todo' # <<>> => Head(todo') \in ToSet(listing.categories)
      <4>1. Tail(todo) \in Seq(Categories)
        BY <2>1, TailRange
      <4>2. todo' # <<>> => Head(todo') \in ToSet(todo')
        BY <3>1, <4>1, TailRange
      <4>3. ToSet(todo) \subseteq ToSet(listing.categories)
        BY <1>1, <1>6 DEF ListTyped
      <4> QED BY <3>3, <4>2, <4>3
    <3>6. ToCome' = Ahead(Head(todo'), listing.offset)
      BY <2>5, <2>6, <3>1 DEF ToCome
    <3> QED BY <1>5, <2>5, <3>4, <3>5, <3>6 DEF NothingLost
  <2>8. CASE ~(Limit = 0 \/ result.rows = <<>>)
    <3>1. UNCHANGED todo
          /\ (status' # "running" \/ offset' = offset + Len(result.rows))
      BY <1>14, <2>8 DEF PageRead, Stop
    <3>2. status' = "running" => ToCome' = Ahead(c, offset + Len(result.rows))
      BY <2>5, <2>6, <3>1 DEF ToCome
    <3>3. status' = "running" => Due(c) \subseteq ToSet(rows') \cup ToCome'
      BY <2>2, <2>3, <2>4, <2>8, <3>2
    <3>4. \A d \in ToSet(listing.categories) :
            /\ Due(d) \subseteq Ahead(d, listing.offset)
            /\ d \in ToSet(todo') \/ Due(d) \subseteq ToSet(rows')
      BY <1>4, <2>2, <3>1
    <3> HIDE DEF c
    <3> QED BY <1>5, <2>5, <3>1, <3>3, <3>4 DEF NothingLost, c
  <2> HIDE DEF c
  <2> QED BY <2>7, <2>8
<1>15. CASE Enter
  <2>1. UNCHANGED <<op, result, todo, offset, rows, status, listing, server>>
    BY <1>15 DEF Enter, callVars, listVars
  <2>2. \A c \in Categories, n \in Nat : Ahead(c, n) \subseteq Ahead(c, n)'
    BY <1>15, EnterAhead
  <2>3. ASSUME todo # <<>>, status = "running" PROVE ToCome \subseteq ToCome'
    <3> DEFINE c == Head(todo)
    <3>1. c \in Categories
      BY <1>6, <2>3, TailRange DEF ListTyped
    <3>2. PageCame => offset + Len(result.rows) \in Nat
      <4>1. PageCame => result.rows \in Seq(Bugs)
        BY <1>1, <1>6 DEF PageCame, ListTyped
      <4> QED BY <1>6, <4>1
    <3>3. CASE PageCame
      BY <1>5, <2>1, <2>2, <3>1, <3>2, <3>3 DEF ToCome, PageCame
    <3>4. CASE ~PageCame
      BY <1>6, <2>1, <2>2, <3>1, <3>4 DEF ToCome, PageCame
    <3> QED BY <3>3, <3>4
  <2>4. \A c \in ToSet(listing.categories) : Due(c) \subseteq Ahead(c, listing.offset)'
    BY <1>4, <1>6, <2>1, <2>2
  <2> QED BY <1>4, <1>5, <2>1, <2>3, <2>4 DEF NothingLost
<1>16. CASE Leave
  BY <1>2, <1>16
<1>17. QED
  BY <1>8, <1>9, <1>10, <1>11, <1>12, <1>13, <1>14, <1>15, <1>16 DEF Next

\* A window is longer than its limit exactly if there is more, but for a server
\* that cuts it short.
LEMMA WindowTells ==
  ASSUME ListInv, listing # None, Limit > 0, PageSize = Limit + 1, offset = listing.offset,
         NEW s \in Seq(Bugs)
  PROVE  /\ Len(PageOf(s)) > Limit => Len(s) > listing.offset + Limit
         /\ Ample /\ Len(s) > listing.offset + Limit => Len(PageOf(s)) > Limit
<1> DEFINE z == PageEnd(s)
<1>1. offset \in Nat /\ Len(s) \in Nat /\ Limit \in Nat /\ server.clamp \in Nat
  BY ListingFacts, DispatchAssumption DEF ListInv, ListTyped, ServerType
<1>2. /\ z \in Nat /\ z <= Len(s)
      /\ PageSize > 0 => z <= offset + PageSize
      /\ PageSize > 0 /\ offset + PageSize <= Len(s)
           /\ (server.clamp = 0 \/ server.clamp >= PageSize) => z = offset + PageSize
  BY PageEnds
<1>3. Len(PageOf(s)) = IF offset < z THEN z - offset ELSE 0
  BY PageEntries
<1> HIDE DEF z
<1>4. Len(PageOf(s)) > Limit => Len(s) > offset + Limit
  BY <1>1, <1>2, <1>3
<1>5. ASSUME Ample, Len(s) > offset + Limit
      PROVE  Len(PageOf(s)) > Limit
  <2>1. server.clamp = 0 \/ server.clamp >= PageSize
    BY <1>1, <1>5 DEF Ample
  <2>2. z = offset + PageSize
    BY <1>1, <1>2, <1>5, <2>1
  <2> QED BY <1>1, <1>3, <2>2
<1>6. QED
  BY <1>4, <1>5

LEMMA NextWindowTold ==
  ASSUME ListInv, RouteOrResult, WindowTold, [Next]_allVars
  PROVE  WindowTold'
<1> SUFFICES ASSUME Still' PROVE WindowTold'
  BY DEF WindowTold
<1>1. listing # None
  <2>1. CASE PageFails \/ WindowRead \/ PageRead
    BY <2>1, PageStep DEF ListInv, Still
  <2>2. CASE ~(PageFails \/ WindowRead \/ PageRead)
    BY <2>2 DEF Next, Ask, Refuse, PageLeg, Show, Save, Enter, Leave, listVars, allVars, Still
  <2> QED BY <2>1, <2>2
<1>2. /\ OneView /\ UNCHANGED <<server, listing, first>> /\ ~Lose /\ ~Garble /\ ~Oversize /\ ~CapOut
      /\ left = {} /\ ~Leave /\ entered = {} /\ ~Enter
  BY <1>1, SteadyBefore DEF Still
<1>3. Limit' = Limit /\ Ample' = Ample /\ listing' = listing
  BY <1>2, SameListing
<1>4. Still /\ ~listing.paginate /\ Limit > 0
  BY <1>1, <1>2, <1>3 DEF Still
<1>5. /\ offset = listing.offset
      /\ truncated => \E c \in ToSet(listing.categories) : More(c)
      /\ \A c \in ToSet(listing.categories) : Ample /\ More(c) => c \in ToSet(todo) \/ truncated
      /\ PageCame =>
           /\ Len(result.rows) > Limit => More(Head(todo))
           /\ Ample /\ More(Head(todo)) => Len(result.rows) > Limit
  BY <1>4 DEF WindowTold
<1>6. ListTyped /\ PageAsked
  BY DEF ListInv
<1>7. ASSUME matches' = matches, todo' = todo, offset' = offset, truncated' = truncated,
             (result' = result /\ op' = op) \/ ~PageCame'
      PROVE  WindowTold'
  <2>1. \A c : More(c)' = More(c)
    BY <1>2, <1>7, SameMatches
  <2> QED BY <1>3, <1>5, <1>7, <2>1 DEF WindowTold, PageCame
<1>8. CASE UNCHANGED allVars
  <2>1. UNCHANGED <<matches, todo, offset, truncated>> /\ UNCHANGED <<result, op>>
    BY <1>8 DEF allVars, vars, callVars, listVars
  <2> QED BY <1>7, <2>1
<1>9. CASE Ask
  <2>1. UNCHANGED <<matches, todo, offset, truncated>> /\ result' = None
    BY <1>9 DEF Ask, Begin, listVars
  <2>2. ~PageCame'
    BY <2>1 DEF PageCame
  <2> QED BY <1>7, <2>1, <2>2
<1>10. CASE Refuse \/ Show \/ Save
  <2>1. UNCHANGED <<matches, todo, offset, truncated>> /\ UNCHANGED <<result, op>>
    BY <1>10 DEF Refuse, Show, Save, vars, callVars
  <2> QED BY <1>7, <2>1
<1>11. CASE PageFails
  <2>1. UNCHANGED <<matches, todo, offset, truncated>> /\ result' = None
    BY <1>11 DEF PageFails, Back
  <2>2. ~PageCame'
    BY <2>1 DEF PageCame
  <2> QED BY <1>7, <2>1, <2>2
<1>12. CASE PageRead
  BY <1>4, <1>12 DEF PageRead
<1>13. CASE PageLeg
  <2>1. Answer /\ Leg /\ UNCHANGED <<matches, op, todo, offset, truncated>>
    BY <1>2, <1>13 DEF PageLeg, Leg, Answer, listVars
  <2>2. PICK r \in Answers(route) : Take(r)
    BY <2>1 DEF Answer
  <2>3. route # None /\ op # None
    BY <2>1 DEF Answer, Waiting
  <2>4. CASE ~PageCame'
    BY <1>7, <2>1, <2>4
  <2>5. CASE PageCame'
    <3>1. result' # None /\ result'.error = None
      BY <2>5 DEF PageCame
    <3> DEFINE s == Seen(matches[Head(todo)])
    <3>2. result'.rows = PageOf(s)
      BY <1>1, <1>2, <2>2, <2>3, <3>1, PageAnswers DEF OneView
    <3>3. todo # <<>> /\ Head(todo) \in Categories
      BY <1>1, <1>6, <2>3, TailRange DEF ListTyped, PageAsked
    <3>4. PageSize = Limit + 1
      <4>1. Limit \in Nat
        BY <1>1, ListingFacts DEF ListInv, ListTyped
      <4> QED BY <1>4, <4>1 DEF PageSize
    <3>5. s \in Seq(Bugs)
      BY <1>6, <3>3, SeenTyped
    <3>6. /\ Len(PageOf(s)) > Limit => More(Head(todo))
          /\ Ample /\ More(Head(todo)) => Len(PageOf(s)) > Limit
      BY <1>1, <1>4, <1>5, <3>4, <3>5, WindowTells DEF More
    <3>7. \A c : More(c)' = More(c)
      BY <1>2, <2>1, SameMatches
    <3> HIDE DEF s
    <3> QED BY <1>3, <1>5, <2>1, <3>2, <3>6, <3>7 DEF WindowTold
  <2> QED BY <2>4, <2>5
<1>14. CASE WindowRead
  <2>1. /\ Returned /\ result.error = None /\ PageCame /\ UNCHANGED matches /\ op' = None
        /\ todo # <<>> /\ todo \in Seq(Categories)
        /\ todo' = Tail(todo) /\ offset' = listing.offset
        /\ truncated' = (truncated \/ (Limit > 0 /\ Len(result.rows) > Limit))
    BY <1>1, <1>6, <1>14 DEF WindowRead, NextCategory, Back, Returned, Running, PageCame,
       PageAsked, ListTyped
  <2>2. ~PageCame'
    BY <2>1 DEF PageCame
  <2>3. \A c : More(c)' = More(c)
    BY <1>2, <2>1, SameMatches
  <2>4. Head(todo) \in ToSet(listing.categories) /\ ToSet(todo) = {Head(todo)} \cup ToSet(todo')
    <3>1. ToSet(todo) = {Head(todo)} \cup ToSet(todo')
      BY <2>1, TailRange
    <3> QED BY <1>1, <1>6, <3>1 DEF ListTyped
  <2>5. truncated' <=> truncated \/ Len(result.rows) > Limit
    BY <1>4, <2>1
  <2>6. truncated' => \E c \in ToSet(listing.categories) : More(c)
    BY <1>5, <2>1, <2>4, <2>5
  <2>7. \A c \in ToSet(listing.categories) : Ample /\ More(c) => c \in ToSet(todo') \/ truncated'
    BY <1>5, <2>1, <2>4, <2>5
  <2> QED BY <1>3, <2>1, <2>2, <2>3, <2>6, <2>7 DEF WindowTold
<1>15. QED
  BY <1>2, <1>8, <1>9, <1>10, <1>11, <1>12, <1>13, <1>14 DEF Next

LEMMA InitTold ==
  ASSUME SearchInit \/ CallInit
  PROVE  NothingLost /\ WindowTold
<1>1. CASE CallInit
  BY <1>1 DEF CallInit, NothingLost, Steady, WindowTold, Still
<1>2. CASE SearchInit
  <2>1. /\ todo = listing.categories /\ offset = listing.offset /\ first = matches
        /\ op = None /\ truncated = FALSE /\ listing \in Listings
    BY <1>2 DEF SearchInit
  <2>2. ~PageCame
    BY <2>1 DEF PageCame
  <2>3. \A c : Due(c) = Ahead(c, listing.offset)
    BY <2>1 DEF Due, Ahead
  <2>4. ToCome = Ahead(Head(todo), offset)
    BY <2>2 DEF ToCome
  <2>5. NothingLost
    BY <2>1, <2>3, <2>4 DEF NothingLost
  <2>6. WindowTold
    BY <2>1, <2>2 DEF WindowTold
  <2> QED BY <2>5, <2>6
<1>3. QED
  BY <1>1, <1>2

\* What a listing has and is still to read.
PagesInv == ListInv /\ RouteOrResult /\ NothingLost /\ WindowTold

LEMMA PagesHold == SearchSpec => []PagesInv
<1>1. SearchInit \/ CallInit => PagesInv
  BY InitListInv, InitReadsInv, InitTold DEF PagesInv, ReadsInv
<1>2. PagesInv /\ [Next]_allVars => PagesInv'
  BY NextListTyped, NextPageAsked, NextRouteOrResult, NextNothingLost, NextWindowTold
     DEF PagesInv, ListInv
<1>3. QED
  BY <1>1, <1>2, PTL DEF SearchSpec

LEMMA PagesMissNothing ==
  ASSUME PagesInv
  PROVE  NothingMissed
<1> SUFFICES ASSUME Shown, listing.paginate, OneView, Bounded, left = {},
                    NEW i \in DOMAIN listing.categories,
                    NEW j \in DOMAIN Seen(first[listing.categories[i]]), j > listing.offset
             PROVE  Seen(first[listing.categories[i]])[j] \in ToSet(rows)
  BY DEF NothingMissed
<1> DEFINE c == listing.categories[i]
<1>1. Steady /\ todo = <<>>
  BY DEF Shown, Steady, PagesInv, ListInv, ListTyped
<1>2. c \in ToSet(listing.categories) /\ c \notin ToSet(todo)
  BY <1>1 DEF ToSet
<1>3. Due(c) \subseteq ToSet(rows)
  BY <1>1, <1>2 DEF PagesInv, NothingLost
<1>4. Seen(first[c])[j] \in Due(c)
  BY DEF Due, Beyond
<1>5. QED
  BY <1>3, <1>4

\* --paginate shows every bug that matched from beginning to end and that the
\* caller may see, over either protocol, however large the pages and whatever else
\* comes to match meanwhile; unless a retry ran out of time.
THEOREM NothingIsMissed == SearchSpec => []NothingMissed
<1>1. PagesInv => NothingMissed
  BY PagesMissNothing
<1>2. QED
  BY <1>1, PagesHold, PTL

LEMMA WindowsTellTrue ==
  ASSUME PagesInv
  PROVE  TruncatedTrue
<1> SUFFICES ASSUME Shown, ~listing.paginate, Limit > 0, OneView, entered = {}, left = {}
             PROVE  LET more == \E i \in DOMAIN listing.categories :
                                  Len(Seen(matches[listing.categories[i]]))
                                    > listing.offset + Limit
                    IN  /\ truncated => more
                        /\ (server.clamp = 0 \/ server.clamp > Limit) => (more => truncated)
  BY DEF TruncatedTrue
<1>1. Still /\ todo = <<>>
  BY DEF Shown, Still, PagesInv, ListInv, ListTyped
<1>2. ToSet(listing.categories) = {listing.categories[i] : i \in DOMAIN listing.categories}
      /\ ToSet(todo) = {}
  BY <1>1 DEF ToSet
<1>3. /\ truncated => \E c \in ToSet(listing.categories) : More(c)
      /\ \A c \in ToSet(listing.categories) : Ample /\ More(c) => truncated
  BY <1>1, <1>2 DEF PagesInv, WindowTold
<1>4. QED
  BY <1>2, <1>3 DEF More, Ample

\* A listing says that there is more exactly when there is, unless the server
\* returns fewer rows than were asked for.
THEOREM TruncationIsTold == SearchSpec => []TruncatedTrue
<1>1. PagesInv => TruncatedTrue
  BY WindowsTellTrue
<1>2. QED
  BY <1>1, PagesHold, PTL

-----------------------------------------------------------------------------
(* Bugs looked up one after the other *)

\* No key has been called inaccessible whose bug the user could see, or the command
\* has failed, or is about to: the server no longer accepts the key.
Proven ==
  \/ \A n \in DOMAIN outcomes : outcomes[n].said = "inaccessible" => ~outcomes[n].mine
  \/ phase = "failed"
  \/ phase = "prove" /\ ~valid

LookupsProven ==
  read # NoRead /\ read.kind = "adjacency" /\ read.auth = "key" =>
    /\ \E S : outcomes \in Seq(S)
    /\ Proven

LEMMA AnsweredInaccessible ==
  Answered.said = "inaccessible" => ~Sees(BugOf(Key)) /\ Answered.mine = (BugOf(Key) \in visible)
  BY DEF Answered

LEMMA NextLookupsProven ==
  ASSUME LookupsProven, [ReadsNext]_readVars
  PROVE  LookupsProven'
<1>1. read' = read
  BY DEF ReadsNext, readVars, ReadRoot, Discover, FetchChunk, LayerRead, Lookup, Prove,
         ReadFails, EditRelation, EditVisibility, Revoke
<1> SUFFICES ASSUME read # NoRead, read.kind = "adjacency", read.auth = "key"
             PROVE  (\E S : outcomes' \in Seq(S)) /\ Proven'
  BY <1>1 DEF LookupsProven
<1>2. (\E S : outcomes \in Seq(S)) /\ Proven
  BY DEF LookupsProven
<1>3. CASE UNCHANGED <<outcomes, phase>> /\ (~valid => ~valid')
  BY <1>2, <1>3 DEF Proven
<1>4. CASE phase \notin {"prove", "failed"} /\ UNCHANGED outcomes
  BY <1>2, <1>4 DEF Proven
<1>5. CASE Lookup
  <2>1. PICK S : outcomes \in Seq(S)
    BY <1>2
  <2> DEFINE x == Answered
  <2>2. outcomes' = Append(outcomes, x) /\ UNCHANGED <<visible, open, valid>> /\ phase = "lookup"
    BY <1>5 DEF Lookup, siteVars
  <2>3. x.said = "inaccessible" => phase' = "prove"
    BY <1>5 DEF Lookup
  <2>4. x.said = "inaccessible" => ~valid \/ ~x.mine
    BY AnsweredInaccessible DEF Sees
  <2> HIDE DEF x
  <2>5. outcomes' \in Seq(S \cup {x})
    BY <2>1, <2>2
  <2>6. \A n \in DOMAIN outcomes : outcomes[n].said = "inaccessible" => ~outcomes[n].mine
    BY <1>2, <2>2 DEF Proven
  <2>7. CASE x.said = "inaccessible" /\ ~valid
    BY <2>2, <2>3, <2>5, <2>7 DEF Proven
  <2>8. CASE x.said = "inaccessible" => ~x.mine
    <3>1. \A n \in DOMAIN outcomes' :
            (n \in DOMAIN outcomes /\ outcomes'[n] = outcomes[n]) \/ outcomes'[n] = x
      BY <2>1, <2>2
    <3>2. QED
      BY <2>5, <2>6, <2>8, <3>1 DEF Proven
  <2>9. QED
    BY <2>4, <2>7, <2>8
<1>6. CASE Prove
  BY <1>2, <1>6 DEF Prove, Proven
<1>7. CASE ReadFails
  BY <1>2, <1>7 DEF ReadFails, Proven
<1>8. CASE ReadRoot \/ Discover \/ FetchChunk \/ LayerRead
  BY <1>4, <1>8 DEF ReadRoot, Discover, FetchChunk, LayerRead
<1>9. CASE EditRelation \/ EditVisibility \/ Revoke \/ UNCHANGED readVars
  BY <1>3, <1>9 DEF EditRelation, EditVisibility, Revoke, readVars, siteVars
<1>10. QED
  BY <1>5, <1>6, <1>7, <1>8, <1>9 DEF ReadsNext

\* With an API key, no report calls a bug inaccessible which the user could see:
\* the key is proved after every such answer, and a command whose key was revoked
\* fails instead (collect_one, prove_current_credentials).
THEOREM InaccessibleIsProven == ReadsSpec => []InaccessibleProven
<1>1. ReadsInit => LookupsProven
  <2>1. <<>> \in Seq({})
    OBVIOUS
  <2>2. QED
    BY <2>1 DEF ReadsInit, LookupsProven, Proven
<1>2. LookupsProven /\ [ReadsNext]_readVars => LookupsProven'
  BY NextLookupsProven
<1>3. LookupsProven => InaccessibleProven
  BY DEF LookupsProven, Proven, InaccessibleProven
<1>4. QED
  BY <1>1, <1>2, <1>3, PTL DEF ReadsSpec

-----------------------------------------------------------------------------
(* Walks: the edges of a layer *)

LEMMA InOrderRange ==
  ASSUME NEW S, S \subseteq Nat, IsFiniteSet(S)
  PROVE  IsList(InOrder(S)) /\ ToSet(InOrder(S)) = S
<1> DEFINE N == Cardinality(S)
           upto(x) == {y \in S : y <= x}
           rank == [x \in S |-> Cardinality(upto(x))]
<1>1. N \in Nat
  BY FS_CardinalityType
<1>2. ASSUME NEW x \in S
      PROVE  IsFiniteSet(upto(x)) /\ rank[x] \in 1..N
  <2> DEFINE U == upto(x)
  <2>1. U \in SUBSET S /\ x \in U
    BY <1>2
  <2> HIDE DEF U
  <2>2. IsFiniteSet(U) /\ Cardinality(U) <= N
    BY <2>1, FS_Subset
  <2>3. Cardinality(U) \in Nat /\ Cardinality(U) # 0
    BY <2>1, <2>2, FS_CardinalityType, FS_EmptySet
  <2>4. Cardinality(U) \in 1..N
    BY <1>1, <2>2, <2>3
  <2> QED BY <1>2, <2>2, <2>4 DEF U
<1>3. ASSUME NEW x \in S, NEW y \in S, x < y
      PROVE  rank[x] # rank[y]
  <2> DEFINE U == upto(x)
             V == upto(y)
  <2>0. \A z \in S : z \in Int /\ x \in Int /\ y \in Int
    OBVIOUS
  <2>1. U \in SUBSET V /\ y \in V /\ y \notin U
    <3>1. \A z \in S : z <= x => z <= y
      BY <1>3, <2>0
    <3>2. y <= y /\ ~ (y <= x)
      BY <1>3, <2>0
    <3> QED BY <3>1, <3>2
  <2>2. IsFiniteSet(V)
    BY <1>2
  <2>3. rank[x] = Cardinality(U) /\ rank[y] = Cardinality(V)
    OBVIOUS
  <2> HIDE DEF U, V
  <2>4. Cardinality(V) = Cardinality(U) => V = U
    BY <2>1, <2>2, FS_Subset
  <2> HIDE DEF rank
  <2> QED BY <2>1, <2>3, <2>4
<1>4. rank \in Injection(S, 1..N)
  <2>1. \A x, y \in S : rank[x] = rank[y] => x = y
    <3> HIDE DEF rank
    <3> QED BY <1>3
  <2>2. rank \in [S -> 1..N]
    BY <1>2
  <2> HIDE DEF rank
  <2> QED BY <2>1, <2>2 DEF Injection, IsInjective
<1>5. IsFiniteSet(1..N) /\ Cardinality(1..N) = N
  <2>1. /\ IsFiniteSet(1..N)
        /\ Cardinality(1..N) = IF 1 > N THEN 0 ELSE N - 1 + 1
    BY <1>1, FS_Interval
  <2> HIDE DEF N
  <2> QED BY <1>1, <2>1
<1> DEFINE f == InOrder(S)
<1>6. /\ f = [n \in 1..N |-> f[n]]
      /\ \A n \in 1..N : f[n] = CHOOSE x \in S : rank[x] = n
  <2>1. f = [n \in 1..N |-> CHOOSE x \in S : Cardinality(upto(x)) = n]
    BY DEF InOrder
  <2>2. \A n \in 1..N : (CHOOSE x \in S : Cardinality(upto(x)) = n)
                           = CHOOSE x \in S : rank[x] = n
    <3> TAKE n \in 1..N
    <3>1. \A x \in S : Cardinality(upto(x)) = n <=> rank[x] = n
      OBVIOUS
    <3> QED BY <3>1
  <2> HIDE DEF f, rank, upto
  <2> QED BY <2>1, <2>2
<1> HIDE DEF f, rank
<1>7. rank \in Surjection(S, 1..N)
  BY <1>4, <1>5, FS_Injection
<1>8. \A n \in 1..N : \E x \in S : rank[x] = n
  BY <1>7 DEF Surjection
<1>9. \A n \in 1..N : f[n] \in S /\ rank[f[n]] = n
  BY <1>6, <1>8
<1>10. \A x \in S : rank[x] \in 1..N /\ f[rank[x]] = x
  <2> TAKE x \in S
  <2>1. rank[x] \in 1..N
    BY <1>2
  <2> DEFINE z == f[rank[x]]
  <2>2. z \in S /\ rank[z] = rank[x]
    BY <1>9, <2>1
  <2>3. z \in Int /\ x \in Int
    BY <2>2
  <2> HIDE DEF z
  <2>4. ~ (z < x) /\ ~ (x < z)
    BY <1>3, <2>2
  <2>5. z = x
    BY <2>3, <2>4
  <2> QED BY <2>1, <2>5 DEF z
<1> HIDE DEF N
<1>11. IsList(f)
  BY <1>1, <1>6, ListUpTo
<1>12. ToSet(f) = S
  <2>1. DOMAIN f = 1..N
    BY <1>6
  <2> QED BY <1>9, <1>10, <2>1 DEF ToSet
<1> QED BY <1>11, <1>12 DEF f
\* The relations that a walk follows, of a bug that has them all.
Chosen == {r \in ToSet(Relations) : read.relation \in {"any", r}}

\* A bug as it is read has bugs that there are.
Readable(node) == \A r \in ToSet(Relations) : node.out[r] \subseteq Nodes

LEMMA EdgesRange ==
  ASSUME NEW node, Readable(node)
  PROVE  /\ IsList(Edges(node))
         /\ \A x : x \in ToSet(Edges(node)) <=>
              \E r \in Chosen : \E b \in node.out[r] : x = <<b, r>>
<1> DEFINE ordered(r) == InOrder(node.out[r])
           part(r) == [m \in DOMAIN ordered(r) |-> <<ordered(r)[m], r>>]
           parts == [n \in DOMAIN Relations |->
                       IF read.relation \in {"any", Relations[n]} THEN part(Relations[n]) ELSE <<>>]
<1>1. Edges(node) = FlattenSeq(parts)
  BY DEF Edges
<1>2. Len(Relations) \in Nat /\ DOMAIN Relations = 1..Len(Relations)
      /\ \A n \in DOMAIN Relations : Relations[n] \in ToSet(Relations)
  <2>1. IsList(Relations)
    BY BugReadsAssumption DEF IsList
  <2> QED BY <2>1, ListForm
<1>3. ASSUME NEW r \in ToSet(Relations)
      PROVE  /\ IsList(part(r))
             /\ \A x : x \in ToSet(part(r)) <=> \E b \in node.out[r] : x = <<b, r>>
  <2> DEFINE S == node.out[r]
             s == InOrder(S)
             t == [m \in DOMAIN s |-> <<s[m], r>>]
  <2>1. S \in SUBSET Nodes
    BY <1>3 DEF Readable
  <2> HIDE DEF S
  <2>2. S \subseteq Nat /\ IsFiniteSet(S)
    BY <2>1, BugReadsAssumption, FS_Subset
  <2>3. IsList(s) /\ ToSet(s) = S
    BY <2>2, InOrderRange
  <2> HIDE DEF s
  <2>4. IsList(t)
    BY <2>3, ListOver
  <2>5. \A x : x \in ToSet(t) <=> \E b \in ToSet(s) : x = <<b, r>>
    <3>1. DOMAIN t = DOMAIN s /\ \A n \in DOMAIN s : t[n] = <<s[n], r>>
      OBVIOUS
    <3> HIDE DEF t
    <3> QED BY <3>1 DEF ToSet
  <2> QED BY <2>3, <2>4, <2>5 DEF s, S
<1> HIDE DEF part
<1>4. DOMAIN parts = DOMAIN Relations
      /\ \A n \in DOMAIN Relations :
           parts[n] = IF read.relation \in {"any", Relations[n]} THEN part(Relations[n]) ELSE <<>>
  OBVIOUS
<1>5. IsList(parts)
  <2>1. IsList(Relations)
    BY BugReadsAssumption DEF IsList
  <2>2. DOMAIN parts = DOMAIN Relations /\ parts = [n \in DOMAIN Relations |-> parts[n]]
    OBVIOUS
  <2> HIDE DEF parts
  <2> QED BY <2>1, <2>2, ListOver
<1> HIDE DEF parts
<1>6. \A n \in DOMAIN parts : IsList(parts[n])
  BY <1>2, <1>3, <1>4, EmptyList
<1>7. IsList(FlattenSeq(parts))
      /\ \A x : x \in ToSet(FlattenSeq(parts)) <=> \E n \in DOMAIN parts : x \in ToSet(parts[n])
  BY <1>5, <1>6, FlattenList
<1>8. ASSUME NEW x
      PROVE  (\E n \in DOMAIN parts : x \in ToSet(parts[n])) <=>
               \E r \in Chosen : \E b \in node.out[r] : x = <<b, r>>
  <2>1. ASSUME NEW n \in DOMAIN parts, x \in ToSet(parts[n])
        PROVE  \E r \in Chosen : \E b \in node.out[r] : x = <<b, r>>
    <3> DEFINE r == Relations[n]
    <3>1. r \in Chosen
      BY <1>2, <1>4, <2>1, EmptyList DEF Chosen
    <3>2. x \in ToSet(part(r)) /\ r \in ToSet(Relations)
      BY <1>2, <1>4, <2>1, EmptyList
    <3> HIDE DEF r
    <3> QED BY <1>3, <3>1, <3>2
  <2>2. ASSUME NEW r \in Chosen, NEW b \in node.out[r], x = <<b, r>>
        PROVE  \E n \in DOMAIN parts : x \in ToSet(parts[n])
    <3>1. r \in ToSet(Relations) /\ read.relation \in {"any", r}
      BY DEF Chosen
    <3>2. PICK n \in DOMAIN Relations : r = Relations[n]
      BY <3>1 DEF ToSet
    <3>3. x \in ToSet(part(r))
      BY <1>3, <2>2, <3>1
    <3> QED BY <1>4, <3>1, <3>2, <3>3
  <2> QED BY <2>1, <2>2
<1> QED BY <1>1, <1>7, <1>8

\* The bugs that those of B lead to.
Neighbours(B) == UNION {UNION {graph[a][r] : r \in Followed} : a \in B}

LEMMA NodeReadable ==
  ASSUME graph \in Graph, NEW b \in Nodes
  PROVE  /\ Readable(Node(b)) /\ Node(b).id = b
         /\ \A c : (\E r \in Chosen : c \in Node(b).out[r]) <=> \E r \in Followed : c \in graph[b][r]
<1>1. /\ Node(b).id = b
      /\ \A r \in ToSet(Relations) :
           Node(b).out[r] = IF read.xmlrpc /\ r \notin CoreRelations THEN {} ELSE graph[b][r]
  BY DEF Node
<1>2. \A r \in ToSet(Relations) : graph[b][r] \subseteq Nodes
  BY DEF Graph
<1>3. Readable(Node(b))
  BY <1>1, <1>2 DEF Readable
<1>4. /\ \A r \in Chosen : r \in ToSet(Relations)
      /\ \A r : r \in Followed <=> r \in Chosen /\ (read.xmlrpc => r \in CoreRelations)
  BY DEF Chosen, Followed
<1> QED BY <1>1, <1>3, <1>4

LEMMA LayerEdgesRange ==
  ASSUME graph \in Graph, NEW B, B \subseteq Nodes, layer = {Node(b) : b \in B}
  PROVE  /\ LayerEdges \in Seq(Nodes \X ToSet(Relations))
         /\ {e[1] : e \in ToSet(LayerEdges)} = Neighbours(B)
<1> DEFINE ids == InOrder(B)
           parts == [m \in DOMAIN ids |-> Edges(Node(ids[m]))]
<1>1. IsList(ids) /\ ToSet(ids) = B
  <2>1. B \in SUBSET Nodes
    OBVIOUS
  <2>2. B \subseteq Nat /\ IsFiniteSet(B)
    BY <2>1, BugReadsAssumption, FS_Subset
  <2> QED BY <2>2, InOrderRange
<1>2. \A m \in DOMAIN ids : ids[m] \in B
  BY <1>1, ListForm
<1>3. LayerEdges = FlattenSeq(parts)
  <2>1. {n.id : n \in layer} = B
    BY NodeReadable
  <2>2. \A b \in B : (CHOOSE n \in layer : n.id = b) = Node(b)
    BY NodeReadable
  <2>3. LayerEdges = FlattenSeq([m \in DOMAIN ids |-> Edges(CHOOSE n \in layer : n.id = ids[m])])
    <3> DEFINE other == InOrder({n.id : n \in layer})
    <3>1. other = ids
      BY <2>1
    <3>2. LayerEdges = FlattenSeq([m \in DOMAIN other |-> Edges(CHOOSE n \in layer : n.id = other[m])])
      BY DEF LayerEdges
    <3> HIDE DEF other, ids
    <3> QED BY <3>1, <3>2
  <2>4. \A m \in DOMAIN ids : Edges(CHOOSE n \in layer : n.id = ids[m]) = Edges(Node(ids[m]))
    BY <1>2, <2>2
  <2> HIDE DEF ids
  <2> QED BY <2>3, <2>4
<1> HIDE DEF ids
<1>4. IsList(parts) /\ DOMAIN parts = DOMAIN ids
      /\ \A m \in DOMAIN ids : parts[m] = Edges(Node(ids[m]))
  <2>1. DOMAIN parts = DOMAIN ids /\ parts = [m \in DOMAIN ids |-> parts[m]]
        /\ \A m \in DOMAIN ids : parts[m] = Edges(Node(ids[m]))
    OBVIOUS
  <2> HIDE DEF parts
  <2> QED BY <1>1, <2>1, ListOver
<1> HIDE DEF parts
<1>5. ASSUME NEW b \in B
      PROVE  /\ IsList(Edges(Node(b)))
             /\ \A x : x \in ToSet(Edges(Node(b))) <=>
                  \E r \in Chosen : \E c \in Node(b).out[r] : x = <<c, r>>
  BY NodeReadable, EdgesRange
<1>6. /\ IsList(LayerEdges)
      /\ \A x : x \in ToSet(LayerEdges) <=> \E b \in B : x \in ToSet(Edges(Node(b)))
  <2>1. \A m \in DOMAIN parts : IsList(parts[m])
    BY <1>2, <1>4, <1>5
  <2>2. IsList(FlattenSeq(parts))
        /\ \A x : x \in ToSet(FlattenSeq(parts)) <=> \E m \in DOMAIN parts : x \in ToSet(parts[m])
    BY <1>4, <2>1, FlattenList
  <2>3. \A b \in B : \E m \in DOMAIN ids : b = ids[m]
    BY <1>1 DEF ToSet
  <2> QED BY <1>2, <1>3, <1>4, <2>2, <2>3
<1>7. \A x : x \in ToSet(LayerEdges) <=>
        \E b \in B : \E r \in Chosen : \E c \in Node(b).out[r] : x = <<c, r>>
  BY <1>5, <1>6
<1>8. ToSet(LayerEdges) \subseteq Nodes \X ToSet(Relations)
  BY <1>7, NodeReadable DEF Readable, Chosen
<1>9. LayerEdges \in Seq(Nodes \X ToSet(Relations))
  <2> DEFINE R == ToSet(LayerEdges)
  <2>1. LayerEdges \in Seq(R)
    BY <1>6 DEF IsList
  <2>2. R \subseteq Nodes \X ToSet(Relations)
    BY <1>8
  <2> HIDE DEF R
  <2> DEFINE E == Nodes \X ToSet(Relations)
  <2>3. R \subseteq E
    BY <2>2
  <2> HIDE DEF E
  <2>4. LayerEdges \in Seq(E)
    BY <2>1, <2>3
  <2> QED BY <2>4 DEF E
<1>10. {e[1] : e \in ToSet(LayerEdges)} = Neighbours(B)
  <2>1. \A c : c \in {e[1] : e \in ToSet(LayerEdges)} <=>
          \E b \in B : \E r \in Chosen : c \in Node(b).out[r]
    <3> TAKE c
    <3>1. ASSUME NEW e \in ToSet(LayerEdges), c = e[1]
          PROVE  \E b \in B : \E r \in Chosen : c \in Node(b).out[r]
      BY <1>7, <3>1
    <3>2. ASSUME NEW b \in B, NEW r \in Chosen, c \in Node(b).out[r]
          PROVE  \E e \in ToSet(LayerEdges) : c = e[1]
      <4>1. <<c, r>> \in ToSet(LayerEdges) /\ <<c, r>>[1] = c
        BY <1>7, <3>2
      <4> QED BY <4>1
    <3> QED BY <3>1, <3>2
  <2>2. \A c : c \in Neighbours(B) <=> \E b \in B : \E r \in Followed : c \in graph[b][r]
    BY DEF Neighbours
  <2>3. \A c : (\E b \in B : \E r \in Chosen : c \in Node(b).out[r]) <=>
          \E b \in B : \E r \in Followed : c \in graph[b][r]
    BY NodeReadable
  <2> QED BY <2>1, <2>2, <2>3
<1> QED BY <1>9, <1>10

-----------------------------------------------------------------------------
(* Walks: following edges *)

\* What is known of the bugs met on the way along edges.
Meetings == [visited : SUBSET Nodes, frontier : Seq(Nodes \X ToSet(Relations)), capped : BOOLEAN]

LEMMA MeetType ==
  ASSUME NEW met \in Meetings, NEW e \in Nodes \X ToSet(Relations)
  PROVE  Meet(met, e) \in Meetings
<1> DEFINE R == ToSet(Relations)
<1> HIDE DEF R
<1>1. /\ met.visited \in SUBSET Nodes /\ met.frontier \in Seq(Nodes \X R)
      /\ e \in Nodes \X R /\ e[1] \in Nodes
  BY DEF Meetings, R
<1>2. [met EXCEPT !.capped = TRUE] \in Meetings
  BY DEF Meetings
<1>3. [met EXCEPT !.visited = @ \cup {e[1]}, !.frontier = Append(@, e)] \in Meetings
  <2>1. met.visited \cup {e[1]} \in SUBSET Nodes /\ Append(met.frontier, e) \in Seq(Nodes \X R)
    BY <1>1
  <2> QED BY <2>1 DEF Meetings, R
<1> QED BY <1>2, <1>3 DEF Meet

MeetsFrom(f, edges) ==
  f = [n \in 0..Len(edges) |->
         IF n = 0 THEN [visited |-> visited, frontier |-> <<>>, capped |-> FALSE]
         ELSE Meet(f[n - 1], edges[n])]

\* The same, as steps.
MeetsOn(f, edges) ==
  /\ f[0] = [visited |-> visited, frontier |-> <<>>, capped |-> FALSE]
  /\ \A n \in Nat : n < Len(edges) => f[n + 1] = Meet(f[n], edges[n + 1])

LEMMA MetMeets ==
  ASSUME LayerEdges \in Seq(Nodes \X ToSet(Relations)), visited \subseteq Nodes
  PROVE  \E f : MeetsOn(f, LayerEdges) /\ Met = f[Len(LayerEdges)]
<1> DEFINE E == Nodes \X ToSet(Relations)
           edges == LayerEdges
           start == [visited |-> visited, frontier |-> <<>>, capped |-> FALSE]
           N == Len(edges)
           D == [x \in Meetings \X (1..N) |-> Meet(x[1], edges[x[2]])]
<1>0. edges \in Seq(E)
  OBVIOUS
<1>1. N \in Nat /\ \A n \in 1..N : edges[n] \in E
  <2> HIDE DEF edges, E
  <2> QED BY <1>0
<1>2. start \in Meetings
  BY DEF Meetings
<1>3. Met = (CHOOSE f : MeetsFrom(f, edges))[N]
  BY DEF Met, MeetsFrom
<1> HIDE DEF edges
<1>4. D \in [Meetings \X (1..N) -> Meetings]
  <2>1. \A x \in Meetings \X (1..N) : Meet(x[1], edges[x[2]]) \in Meetings
    BY <1>1, MeetType
  <2> QED BY <2>1
<1>5. \A x \in Meetings, n \in 1..N : D[<<x, n>>] = Meet(x, edges[n])
  OBVIOUS
<1> HIDE DEF D, start
<1>6. PICK f : Iterates(f, Meetings, start, N, D)
  <2> HIDE DEF N
  <2> QED BY <1>1, <1>2, <1>4, IterationExists
<1>7. ASSUME NEW n \in 0..N
      PROVE  f[n] = IF n = 0 THEN start ELSE Meet(f[n - 1], edges[n])
  <2>1. CASE n = 0
    BY <1>6, <2>1 DEF Iterates
  <2>2. CASE n # 0
    <3>1. n \in 1..N /\ n - 1 \in 0..N
      BY <1>1, <2>2
    <3>2. f[n - 1] \in Meetings /\ f[n] = D[<<f[n - 1], n>>]
      BY <1>6, <3>1 DEF Iterates
    <3> QED BY <1>5, <2>2, <3>1, <3>2
  <2> QED BY <2>1, <2>2
<1>8. f = [n \in 0..N |-> f[n]]
  BY <1>6 DEF Iterates
<1>9. MeetsFrom(f, edges)
  BY <1>7, <1>8 DEF MeetsFrom, start
<1>10. PICK g : MeetsFrom(g, edges) /\ Met = g[N]
  BY <1>3, <1>9
<1>11. g[0] = start
  BY <1>1, <1>10 DEF MeetsFrom, start
<1>12. ASSUME NEW n \in Nat, n < N PROVE g[n + 1] = Meet(g[n], edges[n + 1])
  <2>1. n + 1 \in 0..N /\ n + 1 # 0 /\ (n + 1) - 1 = n
    BY <1>1, <1>12
  <2>2. \A m \in 0..N : g[m] = IF m = 0 THEN start ELSE Meet(g[m - 1], edges[m])
    BY <1>10 DEF MeetsFrom, start
  <2> QED BY <2>1, <2>2
<1>13. MeetsOn(g, edges)
  BY <1>11, <1>12 DEF MeetsOn, start
<1> QED BY <1>10, <1>13 DEF edges

Targets(edges) == {e[1] : e \in ToSet(edges)}

\* Having followed edges to T from the bugs met before, in base.
MetAll(met, base, T) ==
  /\ met.visited \subseteq base \cup T /\ IsFiniteSet(met.visited)
  /\ Cardinality(met.visited) <= MaxRelated + 1
  /\ IsList(met.frontier) /\ base \subseteq met.visited
  /\ Targets(met.frontier) = met.visited \ base
  /\ ~met.capped => T \subseteq met.visited
  /\ met.capped => Cardinality(met.visited) = MaxRelated + 1 /\ ~(T \subseteq met.visited)

LEMMA MeetMetAll ==
  ASSUME NEW met, NEW base, NEW T, MetAll(met, base, T), met \in Meetings,
         NEW e \in Nodes \X ToSet(Relations)
  PROVE  MetAll(Meet(met, e), base, T \cup {e[1]})
<1> DEFINE new == Meet(met, e)
           V == met.visited
           b == e[1]
<1>1. /\ V \subseteq base \cup T /\ IsFiniteSet(V) /\ Cardinality(V) <= MaxRelated + 1
      /\ Targets(met.frontier) = V \ base /\ base \subseteq V
      /\ met.frontier \in Seq(Nodes \X ToSet(Relations)) /\ IsList(met.frontier)
      /\ ~met.capped => T \subseteq V
      /\ met.capped => Cardinality(V) = MaxRelated + 1 /\ ~(T \subseteq V)
  BY DEF MetAll, Meetings
<1>2. Cardinality(V) \in Nat /\ MaxRelated \in Nat
  BY <1>1, FS_CardinalityType, BugReadsAssumption
<1>3. CASE met.capped \/ b \in V
  <2>1. new = met
    BY <1>3 DEF Meet
  <2> HIDE DEF new
  <2> QED BY <1>1, <1>3, <2>1 DEF MetAll, new
<1>4. CASE ~met.capped /\ b \notin V /\ Cardinality(V) > MaxRelated
  <2>1. new = [met EXCEPT !.capped = TRUE]
    BY <1>4 DEF Meet
  <2>2. new.visited = V /\ new.frontier = met.frontier /\ new.capped = TRUE
    BY <2>1 DEF Meetings
  <2> HIDE DEF new
  <2>3. Cardinality(V) = MaxRelated + 1
    BY <1>1, <1>2, <1>4
  <2>4. MetAll(new, base, T \cup {b})
    BY <1>1, <1>4, <2>2, <2>3 DEF MetAll
  <2> QED BY <2>4 DEF new
<1>5. CASE ~met.capped /\ b \notin V /\ ~(Cardinality(V) > MaxRelated)
  <2>1. new = [met EXCEPT !.visited = @ \cup {e[1]}, !.frontier = Append(@, e)]
    BY <1>5 DEF Meet
  <2>2. /\ new.visited = V \cup {b} /\ new.frontier = Append(met.frontier, e)
        /\ new.capped = met.capped
    BY <2>1 DEF Meetings
  <2> HIDE DEF new
  <2>3. /\ Append(met.frontier, e) \in Seq(Nodes \X ToSet(Relations))
        /\ ToSet(Append(met.frontier, e)) = ToSet(met.frontier) \cup {e}
    BY <1>1, AppendRange
  <2>4. IsList(new.frontier) /\ Targets(new.frontier) = (V \ base) \cup {b}
    BY <1>1, <2>2, <2>3, ListOf DEF Targets
  <2>5. IsFiniteSet(V \cup {b}) /\ Cardinality(V \cup {b}) = Cardinality(V) + 1
    BY <1>1, <1>5, FS_AddElement
  <2>6. Cardinality(V \cup {b}) <= MaxRelated + 1
    BY <1>2, <1>5, <2>5
  <2>7. (V \ base) \cup {b} = (V \cup {b}) \ base
    BY <1>1, <1>5
  <2> HIDE DEF V, b
  <2>8. MetAll(new, base, T \cup {b})
    BY <1>1, <1>5, <2>2, <2>4, <2>5, <2>6, <2>7 DEF MetAll
  <2> QED BY <2>8 DEF new, b
<1> QED BY <1>3, <1>4, <1>5

LEMMA MetsAll ==
  ASSUME LayerEdges \in Seq(Nodes \X ToSet(Relations)), visited \subseteq Nodes,
         Cardinality(visited) <= MaxRelated + 1
  PROVE  Met \in Meetings /\ MetAll(Met, visited, Targets(LayerEdges))
<1> DEFINE E == Nodes \X ToSet(Relations)
           edges == LayerEdges
           upto(n) == {edges[m][1] : m \in 1..n}
<1>1. PICK f : MeetsOn(f, LayerEdges) /\ Met = f[Len(LayerEdges)]
  BY MetMeets
<1>2. edges \in Seq(E)
  OBVIOUS
<1> HIDE DEF edges, E
<1>3. /\ Len(edges) \in Nat /\ DOMAIN edges = 1..Len(edges)
      /\ \A n \in 1..Len(edges) : edges[n] \in E
  BY <1>2
<1>4. Targets(edges) = upto(Len(edges))
  BY <1>3 DEF Targets, ToSet
<1> HIDE DEF upto
<1> DEFINE T == {n \in Nat : n <= Len(edges) => f[n] \in Meetings /\ MetAll(f[n], visited, upto(n))}
<1>5. 0 \in T
  <2>1. f[0] = [visited |-> visited, frontier |-> <<>>, capped |-> FALSE]
    BY <1>1 DEF MeetsOn
  <2>2. upto(0) = {}
    BY DEF upto
  <2>3. IsFiniteSet(visited)
    BY BugReadsAssumption, FS_Subset
  <2>4. IsList(<<>>) /\ Targets(<<>>) = {}
    BY EmptyList DEF Targets
  <2>5. f[0] \in Meetings
    BY <2>1 DEF Meetings
  <2>6. MetAll(f[0], visited, {})
    BY <2>1, <2>3, <2>4 DEF MetAll
  <2> QED BY <2>2, <2>5, <2>6
<1>6. ASSUME NEW n \in Nat, n \in T PROVE n + 1 \in T
  <2> SUFFICES ASSUME n + 1 <= Len(edges)
               PROVE  f[n + 1] \in Meetings /\ MetAll(f[n + 1], visited, upto(n + 1))
    OBVIOUS
  <2>1. f[n] \in Meetings /\ MetAll(f[n], visited, upto(n)) /\ n < Len(edges) /\ n + 1 \in 1..Len(edges)
    BY <1>3, <1>6
  <2>2. f[n + 1] = Meet(f[n], edges[n + 1])
    BY <1>1, <2>1 DEF MeetsOn, edges
  <2>3. edges[n + 1] \in Nodes \X ToSet(Relations)
    BY <1>3, <2>1 DEF E
  <2>4. upto(n + 1) = upto(n) \cup {edges[n + 1][1]}
    <3>1. 1..(n + 1) = 1..n \cup {n + 1}
      OBVIOUS
    <3> QED BY <3>1 DEF upto
  <2> DEFINE e == edges[n + 1]
             U == upto(n)
             m == f[n]
  <2>5. m \in Meetings /\ MetAll(m, visited, U) /\ e \in Nodes \X ToSet(Relations)
    BY <2>1, <2>3
  <2> HIDE DEF e, U, m
  <2>6. Meet(m, e) \in Meetings /\ MetAll(Meet(m, e), visited, U \cup {e[1]})
    BY <2>5, MeetType, MeetMetAll
  <2> QED BY <2>2, <2>4, <2>6 DEF e, U, m
<1>7. Len(edges) \in T
  <2> HIDE DEF T
  <2> QED BY <1>3, <1>5, <1>6, Induct
<1>8. f[Len(edges)] \in Meetings /\ MetAll(f[Len(edges)], visited, upto(Len(edges)))
  BY <1>3, <1>7
<1> QED BY <1>1, <1>4, <1>8 DEF edges

-----------------------------------------------------------------------------
(* Walks: what lies within a distance of the root *)

\* Whom the server takes the user for sees these bugs.
InSight == IF valid THEN visible ELSE open

\* A walk at a known site, from a bug there is.
Grounded ==
  /\ read \in Reads /\ graph \in Graph /\ RootBug \in Nodes
  /\ visible \subseteq Nodes /\ open \subseteq Nodes

Balls(f) ==
  f = [n \in 0..read.depth |->
         IF n = 0 THEN {RootBug}
         ELSE f[n - 1] \cup
              UNION { UNION { graph[a][r] : r \in Followed } : a \in { b \in f[n - 1] : Sees(b) } }]

LEMMA NeighboursThere ==
  ASSUME graph \in Graph, NEW B, B \subseteq Nodes
  PROVE  Neighbours(B) \subseteq Nodes
<1>1. \A r \in Followed : r \in ToSet(Relations)
  BY DEF Followed
<1>2. \A a \in B, r \in Followed : graph[a][r] \subseteq Nodes
  BY <1>1 DEF Graph
<1> QED BY <1>2 DEF Neighbours

LEMMA DepthNat ==
  ASSUME read \in Reads
  PROVE  read.depth \in Nat
  BY BugReadsAssumption DEF ReadType

\* A ball is the one before with what those of its bugs lead to that are in sight.
LEMMA BallSteps ==
  ASSUME Grounded
  PROVE  /\ Ball[0] = {RootBug}
         /\ \A n \in 0..read.depth : Ball[n] \subseteq Nodes
         /\ \A n \in Nat : n < read.depth => Ball[n + 1] = Ball[n] \cup Neighbours(Ball[n] \cap InSight)
<1> DEFINE N == read.depth
           X == SUBSET Nodes
           D == [x \in X \X (1..N) |-> x[1] \cup Neighbours(x[1] \cap InSight)]
<1>1. N \in Nat
  BY DepthNat DEF Grounded
<1>2. \A B \in X : B \cup Neighbours(B \cap InSight) \in X
  BY NeighboursThere DEF Grounded
<1>3. {RootBug} \in X
  BY DEF Grounded
<1>4. Ball = CHOOSE f : Balls(f)
  BY DEF Ball, Balls
<1>5. \A B : UNION { UNION { graph[a][r] : r \in Followed } : a \in { b \in B : Sees(b) } }
               = Neighbours(B \cap InSight)
  BY DEF Neighbours, Sees, InSight
<1>6. \A f : Balls(f) <=>
        f = [n \in 0..N |-> IF n = 0 THEN {RootBug} ELSE f[n - 1] \cup Neighbours(f[n - 1] \cap InSight)]
  BY <1>5 DEF Balls
<1>7. D \in [X \X (1..N) -> X] /\ \A B \in X, n \in 1..N : D[<<B, n>>] = B \cup Neighbours(B \cap InSight)
  BY <1>2
<1> HIDE DEF D
<1>8. PICK f : Iterates(f, X, {RootBug}, N, D)
  <2> HIDE DEF N, X
  <2> QED BY <1>1, <1>3, <1>7, IterationExists
<1>9. ASSUME NEW n \in 0..N
      PROVE  f[n] = IF n = 0 THEN {RootBug} ELSE f[n - 1] \cup Neighbours(f[n - 1] \cap InSight)
  <2>1. CASE n = 0
    BY <1>8, <2>1 DEF Iterates
  <2>2. CASE n # 0
    <3>1. n \in 1..N /\ n - 1 \in 0..N
      BY <1>1, <2>2
    <3>2. f[n - 1] \in X /\ f[n] = D[<<f[n - 1], n>>]
      BY <1>8, <3>1 DEF Iterates
    <3> QED BY <1>7, <2>2, <3>1, <3>2
  <2> QED BY <2>1, <2>2
<1>10. f = [n \in 0..N |-> f[n]]
  BY <1>8 DEF Iterates
<1>11. Balls(f)
  BY <1>6, <1>9, <1>10
<1>12. Balls(Ball)
  BY <1>4, <1>11
<1> DEFINE g == Ball
<1>13. g = [n \in 0..N |-> IF n = 0 THEN {RootBug} ELSE g[n - 1] \cup Neighbours(g[n - 1] \cap InSight)]
  BY <1>6, <1>12
<1> HIDE DEF g, N, X
<1>14. g[0] = {RootBug}
  BY <1>1, <1>13
<1>15. ASSUME NEW n \in Nat, n < N PROVE g[n + 1] = g[n] \cup Neighbours(g[n] \cap InSight)
  <2>1. n + 1 \in 0..N /\ n + 1 # 0 /\ (n + 1) - 1 = n
    BY <1>1, <1>15
  <2> QED BY <1>13, <2>1
<1>16. \A n \in 0..N : g[n] \in X
  <2> DEFINE T == {n \in Nat : n <= N => g[n] \in X}
  <2>1. 0 \in T
    BY <1>3, <1>14
  <2>2. ASSUME NEW n \in Nat, n \in T PROVE n + 1 \in T
    <3> SUFFICES ASSUME n + 1 <= N PROVE g[n + 1] \in X
      OBVIOUS
    <3>1. n < N /\ g[n] \in X
      BY <1>1, <2>2
    <3>2. g[n + 1] = g[n] \cup Neighbours(g[n] \cap InSight)
      BY <1>15, <3>1
    <3>3. g[n] \cup Neighbours(g[n] \cap InSight) \in X
      BY <1>2, <3>1
    <3> QED BY <3>2, <3>3
  <2>3. \A n \in Nat : n \in T
    <3> HIDE DEF T
    <3> QED BY <2>1, <2>2, Induct
  <2> QED BY <1>1, <2>3
<1> QED BY <1>14, <1>15, <1>16 DEF g, N, X

LEMMA BallGrows ==
  ASSUME Grounded, NEW j \in Nat, NEW k \in Nat, j <= k, k <= read.depth
  PROVE  Ball[j] \subseteq Ball[k]
<1>0. read.depth \in Nat
  BY DepthNat DEF Grounded
<1> DEFINE T == {n \in Nat : j + n <= read.depth => Ball[j] \subseteq Ball[j + n]}
<1>1. 0 \in T
  OBVIOUS
<1>2. ASSUME NEW n \in Nat, n \in T PROVE n + 1 \in T
  <2> SUFFICES ASSUME j + (n + 1) <= read.depth PROVE Ball[j] \subseteq Ball[j + (n + 1)]
    OBVIOUS
  <2>1. j + n \in Nat /\ j + n < read.depth /\ j + (n + 1) = (j + n) + 1
    BY <1>0
  <2>2. Ball[j] \subseteq Ball[j + n]
    BY <1>2, <2>1, <1>0
  <2>3. Ball[j + n] \subseteq Ball[(j + n) + 1]
    BY <2>1, BallSteps
  <2> QED BY <2>1, <2>2, <2>3
<1>3. \A n \in Nat : n \in T
  <2> HIDE DEF T
  <2> QED BY <1>1, <1>2, Induct
<1>4. k - j \in Nat /\ j + (k - j) = k
  OBVIOUS
<1>5. k - j \in T
  BY <1>3, <1>4
<1> QED BY <1>4, <1>5

\* The bugs at a distance of d from the root.
Shell(d) == IF d = 0 THEN {RootBug} ELSE Ball[d] \ Ball[d - 1]

LEMMA ShellsApart ==
  ASSUME Grounded, NEW d \in 0..read.depth, NEW e \in 0..read.depth,
         NEW b \in Shell(d), b \in Shell(e)
  PROVE  d = e
<1>0. read.depth \in Nat
  BY DepthNat DEF Grounded
<1>1. ASSUME NEW j \in 0..read.depth, NEW k \in 0..read.depth, j < k, b \in Shell(j)
      PROVE  b \notin Shell(k)
  <2>1. b \in Ball[j]
    BY <1>1, BallSteps DEF Shell
  <2>2. k - 1 \in Nat /\ j \in Nat /\ j <= k - 1 /\ k - 1 <= read.depth /\ k # 0
    BY <1>0, <1>1
  <2>3. b \in Ball[k - 1]
    BY <2>1, <2>2, BallGrows
  <2> QED BY <2>2, <2>3 DEF Shell
<1>2. ~(d < e) /\ ~(e < d)
  BY <1>1
<1> QED BY <1>0, <1>2

LEMMA ShellOf ==
  ASSUME Grounded, NEW k \in 0..read.depth, NEW b \in Ball[k]
  PROVE  \E d \in 0..k : b \in Shell(d)
<1>0. read.depth \in Nat
  BY DepthNat DEF Grounded
<1> DEFINE T == {n \in 0..k : b \in Ball[n]}
<1>1. T \subseteq Nat /\ T # {}
  BY <1>0
<1>2. PICK d \in T : \A n \in T : d <= n
  BY <1>1, LeastNat
<1>3. CASE d = 0
  <2>1. b \in Shell(0) /\ 0 \in 0..k
    BY <1>0, <1>2, <1>3, BallSteps DEF Shell
  <2> QED BY <2>1
<1>4. CASE d # 0
  <2>1. d - 1 \in 0..k /\ ~(d <= d - 1) /\ d \in 0..k
    BY <1>0, <1>2, <1>4
  <2>2. b \notin Ball[d - 1]
    BY <1>2, <2>1
  <2>3. b \in Shell(d)
    BY <1>2, <1>4, <2>2 DEF Shell
  <2> QED BY <2>1, <2>3
<1> QED BY <1>3, <1>4

\* A layer further is what those at the edge lead to.
LEMMA NextBall ==
  ASSUME Grounded, NEW d \in Nat, d < read.depth
  PROVE  Ball[d + 1] = Ball[d] \cup Neighbours(Shell(d) \cap InSight)
<1>0. read.depth \in Nat
  BY DepthNat DEF Grounded
<1>1. Ball[d + 1] = Ball[d] \cup Neighbours(Ball[d] \cap InSight)
  BY BallSteps
<1>2. CASE d = 0
  <2>1. Shell(d) = Ball[d]
    BY <1>2, BallSteps DEF Shell
  <2> QED BY <1>1, <2>1
<1>3. CASE d # 0
  <2>1. d - 1 \in Nat /\ d - 1 < read.depth /\ (d - 1) + 1 = d
    BY <1>0, <1>3
  <2>2. Ball[d] = Ball[d - 1] \cup Neighbours(Ball[d - 1] \cap InSight)
    BY <2>1, BallSteps
  <2>3. Ball[d] = Ball[d - 1] \cup Shell(d)
    BY <1>3, <2>2 DEF Shell
  <2>4. \A A, B : Neighbours((A \cup B) \cap InSight)
                    = Neighbours(A \cap InSight) \cup Neighbours(B \cap InSight)
    BY DEF Neighbours
  <2>5. Neighbours(Ball[d] \cap InSight)
          = Neighbours(Ball[d - 1] \cap InSight) \cup Neighbours(Shell(d) \cap InSight)
    BY <2>3, <2>4
  <2> QED BY <1>1, <2>2, <2>5
<1> QED BY <1>2, <1>3

\* A layer that adds nothing is the last.
LEMMA BallEnds ==
  ASSUME Grounded, NEW d \in Nat, d < read.depth, Ball[d + 1] = Ball[d]
  PROVE  \A e \in (d + 1)..read.depth : Shell(e) = {}
<1>0. read.depth \in Nat
  BY DepthNat DEF Grounded
<1> DEFINE T == {n \in Nat : d + n <= read.depth => Ball[d + n] = Ball[d]}
<1>1. 0 \in T
  OBVIOUS
<1>2. ASSUME NEW n \in Nat, n \in T PROVE n + 1 \in T
  <2> SUFFICES ASSUME d + (n + 1) <= read.depth PROVE Ball[d + (n + 1)] = Ball[d]
    OBVIOUS
  <2>1. d + n \in Nat /\ d + n < read.depth /\ d + n <= read.depth /\ d + (n + 1) = (d + n) + 1
    BY <1>0
  <2>2. Ball[d + n] = Ball[d]
    BY <1>2, <2>1
  <2>3. Ball[(d + n) + 1] = Ball[d + n] \cup Neighbours(Ball[d + n] \cap InSight)
    BY <2>1, BallSteps
  <2>4. Ball[d + 1] = Ball[d] \cup Neighbours(Ball[d] \cap InSight)
    BY BallSteps
  <2> QED BY <2>1, <2>2, <2>3, <2>4
<1>3. \A n \in Nat : n \in T
  <2> HIDE DEF T
  <2> QED BY <1>1, <1>2, Induct
<1>4. ASSUME NEW e \in (d + 1)..read.depth PROVE Shell(e) = {}
  <2>1. e - d \in Nat /\ d + (e - d) = e /\ (e - 1) - d \in Nat /\ d + ((e - 1) - d) = e - 1
        /\ e <= read.depth /\ e - 1 <= read.depth /\ e # 0
    BY <1>0
  <2>2. Ball[e] = Ball[d]
    <3>1. e - d \in T
      BY <1>3, <2>1
    <3> QED BY <2>1, <3>1
  <2>3. Ball[e - 1] = Ball[d]
    <3>1. (e - 1) - d \in T
      BY <1>3, <2>1
    <3> QED BY <2>1, <3>1
  <2> QED BY <2>1, <2>2, <2>3 DEF Shell
<1> QED BY <1>4

\* The bugs in sight up to a distance of d, each with its own.
Within(d) == {p \in Nodes \X (1..d) : p[1] \in InSight /\ p[1] \in Shell(p[2])}

LEMMA WithinNext ==
  ASSUME Grounded, NEW d \in Nat, d < read.depth
  PROVE  Within(d + 1) = Within(d) \cup {<<b, d + 1>> : b \in Shell(d + 1) \cap InSight}
<1>0. read.depth \in Nat /\ d + 1 \in 0..read.depth
  BY DepthNat DEF Grounded
<1>1. 1..(d + 1) = 1..d \cup {d + 1} /\ d + 1 # 0
  OBVIOUS
<1>2. Shell(d + 1) \subseteq Nodes
  BY <1>0, <1>1, BallSteps DEF Shell
<1> QED BY <1>1, <1>2 DEF Within

LEMMA WithinAll ==
  ASSUME Grounded, NEW d \in 0..read.depth, \A e \in (d + 1)..read.depth : Shell(e) = {}
  PROVE  Within(read.depth) = Within(d)
<1>0. read.depth \in Nat
  BY DepthNat DEF Grounded
<1>1. \A e \in 1..read.depth : e \in 1..d \/ e \in (d + 1)..read.depth
  BY <1>0
<1>2. 1..d \subseteq 1..read.depth
  BY <1>0
<1> QED BY <1>1, <1>2 DEF Within

LEMMA WithinExact ==
  ASSUME Grounded
  PROVE  Within(read.depth) =
           { <<b, CHOOSE d \in 1..read.depth : b \in Ball[d] /\ b \notin Ball[d - 1]>> :
               b \in { c \in Ball[read.depth] \ {RootBug} : Sees(c) } }
<1> DEFINE far(b) == CHOOSE d \in 1..read.depth : b \in Ball[d] /\ b \notin Ball[d - 1]
           S == { c \in Ball[read.depth] \ {RootBug} : Sees(c) }
<1>0. read.depth \in Nat /\ read.depth \in 0..read.depth
  BY DepthNat DEF Grounded
<1>1. \A d \in 1..read.depth : Shell(d) = Ball[d] \ Ball[d - 1]
  BY <1>0 DEF Shell
<1>2. ASSUME NEW b, NEW d \in 1..read.depth, b \in Shell(d)
      PROVE  far(b) = d
  <2>1. \A e \in 1..read.depth : b \in Ball[e] /\ b \notin Ball[e - 1] => e = d
    <3> TAKE e \in 1..read.depth
    <3> HAVE b \in Ball[e] /\ b \notin Ball[e - 1]
    <3>1. b \in Shell(e) /\ e \in 0..read.depth /\ d \in 0..read.depth
      BY <1>0, <1>1
    <3> QED BY <1>2, <3>1, ShellsApart
  <2>2. b \in Ball[d] /\ b \notin Ball[d - 1]
    BY <1>1, <1>2
  <2> QED BY <2>1, <2>2
<1>3. ASSUME NEW p \in Within(read.depth) PROVE p \in {<<b, far(b)>> : b \in S}
  <2>1. PICK b \in Nodes, d \in 1..read.depth : p = <<b, d>> /\ b \in InSight /\ b \in Shell(d)
    BY DEF Within
  <2>2. far(b) = d
    BY <1>2, <2>1
  <2>3. b \in Ball[read.depth]
    <3>1. b \in Ball[d] /\ d \in Nat /\ d <= read.depth
      BY <1>0, <1>1, <2>1
    <3> QED BY <1>0, <3>1, BallGrows
  <2>4. b # RootBug
    <3>1. RootBug \in Shell(0) /\ 0 \in 0..read.depth /\ d \in 0..read.depth /\ d # 0
      BY <1>0 DEF Shell
    <3> QED BY <2>1, <3>1, ShellsApart
  <2>5. b \in S
    BY <2>1, <2>3, <2>4 DEF Sees, InSight
  <2> HIDE DEF far, S
  <2> QED BY <2>1, <2>2, <2>5
<1>4. ASSUME NEW b \in S PROVE <<b, far(b)>> \in Within(read.depth)
  <2>1. b \in Ball[read.depth] /\ b # RootBug /\ b \in InSight
    BY DEF Sees, InSight
  <2>2. PICK d \in 0..read.depth : b \in Shell(d)
    BY <1>0, <2>1, ShellOf
  <2>3. d \in 1..read.depth
    BY <1>0, <2>1, <2>2 DEF Shell
  <2>4. far(b) = d /\ b \in Nodes
    BY <1>0, <1>2, <2>1, <2>2, <2>3, BallSteps
  <2> HIDE DEF far, S
  <2> QED BY <2>1, <2>2, <2>3, <2>4 DEF Within
<1> HIDE DEF far, S
<1>5. Within(read.depth) = {<<b, far(b)>> : b \in S}
  BY <1>3, <1>4
<1> QED BY <1>5 DEF far, S

\* Ball and Node depend on the command and the site alone.
BallAt(rd, gr, seen, all, va) ==
  CHOOSE f : f = [n \in 0..rd.depth |->
    IF n = 0 THEN {rd.names[1]}
    ELSE f[n - 1] \cup
         UNION { UNION { gr[a][r] : r \in { r \in ToSet(Relations) :
                                             /\ rd.relation \in {"any", r}
                                             /\ rd.xmlrpc => r \in CoreRelations } } :
                 a \in { b \in f[n - 1] : b \in (IF va THEN seen ELSE all) } }]

LEMMA BallSteady ==
  ASSUME UNCHANGED read, UNCHANGED siteVars
  PROVE  Ball' = Ball
<1>1. Ball = BallAt(read, graph, visible, open, valid)
  BY DEF Ball, BallAt, RootBug, Followed, Sees
<1>2. Ball' = BallAt(read', graph', visible', open', valid')
  BY DEF Ball, BallAt, RootBug, Followed, Sees
<1>3. /\ read' = read /\ graph' = graph /\ visible' = visible /\ open' = open /\ valid' = valid
  BY DEF siteVars
<1> QED BY <1>1, <1>2, <1>3

NodeAt(rd, gr, b) ==
  [id |-> b,
   out |-> [r \in ToSet(Relations) |->
              IF rd.xmlrpc /\ r \notin CoreRelations THEN {} ELSE gr[b][r]]]

\* The edge of a walk: the bugs in sight at a distance of d, as they are read.
Rim(d) == {Node(b) : b \in Shell(d) \cap InSight}

LEMMA SiteSteady ==
  ASSUME UNCHANGED read, UNCHANGED siteVars
  PROVE  /\ Ball' = Ball /\ InSight' = InSight /\ RootBug' = RootBug
         /\ \A d : Shell(d)' = Shell(d)
         /\ \A d : Within(d)' = Within(d)
         /\ \A d : Rim(d)' = Rim(d)
         /\ \A b : Node(b)' = Node(b)
<1>1. /\ read' = read /\ graph' = graph /\ visible' = visible /\ open' = open /\ valid' = valid
  BY DEF siteVars
<1>2. Ball' = Ball
  BY BallSteady
<1>3. InSight' = InSight /\ RootBug' = RootBug
  BY <1>1 DEF InSight, RootBug
<1>4. \A d : Shell(d)' = Shell(d)
  BY <1>2, <1>3 DEF Shell
<1>5. \A d : Within(d)' = Within(d)
  BY <1>3, <1>4 DEF Within
<1>6. ASSUME NEW b PROVE Node(b)' = Node(b)
  <2>1. Node(b) = NodeAt(read, graph, b) /\ Node(b)' = NodeAt(read', graph', b)
    BY DEF Node, NodeAt
  <2> QED BY <1>1, <2>1
<1>7. \A d : Rim(d)' = Rim(d)
  BY <1>3, <1>4, <1>6 DEF Rim
<1> QED BY <1>2, <1>3, <1>4, <1>5, <1>6, <1>7

-----------------------------------------------------------------------------
(* Walks: the layers *)

\* The result, as pairs.
Listed == {<<links[n].id, links[n].depth>> : n \in DOMAIN links}

SiteKnown == read \in Reads /\ graph \in Graph /\ visible \subseteq Nodes /\ open \subseteq Nodes

\* The walk has met just the bugs within a distance of d.
Around(d) ==
  /\ RootBug \in Nodes /\ visited = Ball[d] /\ Cardinality(visited) <= MaxRelated + 1
  /\ IsList(links)

\* The layer at d is read, and listed.
AtEdge(d) == d \in 0..read.depth /\ Around(d) /\ layer = Rim(d) /\ Listed = Within(d)

\* The layer at d is met, and is read: what is not to be read yet is there, if in sight.
AtLayer(d) ==
  /\ d \in 1..read.depth /\ Around(d) /\ Listed = Within(d - 1)
  /\ IsList(frontier) /\ Targets(frontier) = Shell(d)
  /\ IsList(pending) /\ ToSet(pending) \subseteq Shell(d)
  /\ layer \subseteq Rim(d)
  /\ \A b \in (Shell(d) \cap InSight) \ ToSet(pending) : Node(b) \in layer

AtEnd == RootBug \in Nodes /\ Listed = Within(read.depth)

\* There are more bugs than a walk may meet.
Curtailed ==
  /\ Cardinality(visited) = MaxRelated + 1
  /\ Cardinality(Ball[read.depth]) > MaxRelated + 1
  /\ RootBug \in Nodes

Walking ==
  /\ phase \in {"root", "discover", "fetch", "done", "failed"}
  /\ phase = "root" => ~capped /\ depth = 0 /\ links = <<>>
  /\ capped => Curtailed
  /\ ~capped =>
       /\ phase = "discover" => AtEdge(depth)
       /\ phase = "fetch" => AtLayer(depth)
       /\ phase = "done" => AtEnd

LEMMA ReadRootWalks ==
  ASSUME SiteKnown, Walking, ReadRoot
  PROVE  Walking'
<1>0. /\ read' = read /\ RootBug' = RootBug /\ Ball' = Ball /\ InSight' = InSight
      /\ \A d : Shell(d)' = Shell(d) /\ Within(d)' = Within(d) /\ Rim(d)' = Rim(d)
  BY SiteSteady DEF ReadRoot
<1>1. /\ UNCHANGED read /\ UNCHANGED siteVars /\ capped' = capped /\ depth' = depth /\ links' = links
      /\ phase = "root" /\ phase' = "discover" /\ Sees(RootBug)
      /\ visited' = {RootBug} /\ layer' = {Node(RootBug)}
  BY DEF ReadRoot
<1>2. ~capped /\ depth = 0 /\ links = <<>>
  BY <1>0, <1>1 DEF Walking
<1>3. RootBug \in InSight /\ RootBug \in Nodes
  BY <1>0, <1>1 DEF SiteKnown, Sees, InSight
<1>4. Ball[0] = {RootBug} /\ read.depth \in Nat
  BY <1>3, BallSteps, DepthNat DEF SiteKnown, Grounded
<1>5. Cardinality({RootBug}) <= MaxRelated + 1
  <2>1. Cardinality({RootBug}) = 1
    BY FS_Singleton
  <2> QED BY <2>1, BugReadsAssumption
<1>6. Shell(0) \cap InSight = {RootBug}
  BY <1>3 DEF Shell
<1>7. layer' = Rim(0)
  BY <1>0, <1>1, <1>6 DEF Rim
<1>8. Within(0) = {} /\ Listed' = {}
  BY <1>0, <1>1, <1>2 DEF Within, Listed
<1>9. IsList(links)
  BY <1>2, EmptyList
<1>10. Around(0)'
  BY <1>0, <1>1, <1>3, <1>4, <1>5, <1>9 DEF Around
<1>11. AtEdge(0)'
  BY <1>0, <1>1, <1>4, <1>7, <1>8, <1>10 DEF AtEdge
<1>12. AtEdge(depth)'
  BY <1>0, <1>1, <1>2, <1>11
<1> QED BY <1>0, <1>1, <1>2, <1>12 DEF Walking

\* More bugs are met than the cap allows only where there are more of them.
LEMMA CapTold ==
  ASSUME Grounded, NEW V, NEW d \in 0..read.depth, V \subseteq Ball[d],
         NEW T, T \subseteq Ball[d], ~(T \subseteq V), Cardinality(V) = MaxRelated + 1
  PROVE  Cardinality(Ball[read.depth]) > MaxRelated + 1
<1> DEFINE B == Ball[read.depth]
<1>0. read.depth \in Nat /\ d \in Nat /\ d <= read.depth
  BY DepthNat DEF Grounded
<1>1. Ball[d] \subseteq B /\ B \in SUBSET Nodes
  BY <1>0, BallGrows, BallSteps
<1> HIDE DEF B
<1>2. V \in SUBSET B /\ V # B
  BY <1>1
<1>3. IsFiniteSet(B)
  BY <1>1, BugReadsAssumption, FS_Subset
<1>4. IsFiniteSet(V) /\ Cardinality(V) <= Cardinality(B) /\ Cardinality(B) # Cardinality(V)
  BY <1>2, <1>3, FS_Subset
<1>5. Cardinality(V) \in Nat /\ Cardinality(B) \in Nat
  BY <1>3, <1>4, FS_CardinalityType
<1> QED BY <1>4, <1>5 DEF B

\* What following the edges of the layer at depth comes to.
LEMMA MetNext ==
  ASSUME SiteKnown, AtEdge(depth), depth # read.depth
  PROVE  /\ Grounded /\ depth \in Nat /\ depth < read.depth
         /\ MetAll(Met, Ball[depth], Neighbours(Shell(depth) \cap InSight))
         /\ Ball[depth + 1] = Ball[depth] \cup Neighbours(Shell(depth) \cap InSight)
<1> DEFINE B == Shell(depth) \cap InSight
<1>1. Grounded /\ read.depth \in Nat
  BY DepthNat DEF Grounded, SiteKnown, AtEdge, Around
<1>2. depth \in Nat /\ depth < read.depth
  BY <1>1 DEF AtEdge
<1>3. Ball[depth + 1] = Ball[depth] \cup Neighbours(B)
  BY <1>1, <1>2, NextBall
<1>4. B \subseteq Nodes /\ Ball[depth] \subseteq Nodes
  BY <1>1, <1>2, BallSteps DEF Shell, Grounded
<1>5. layer = {Node(b) : b \in B}
  BY DEF AtEdge, Rim
<1> HIDE DEF B
<1>6. LayerEdges \in Seq(Nodes \X ToSet(Relations)) /\ Targets(LayerEdges) = Neighbours(B)
  BY <1>4, <1>5, LayerEdgesRange DEF SiteKnown, Targets
<1>7. visited = Ball[depth] /\ Cardinality(visited) <= MaxRelated + 1
  BY DEF AtEdge, Around
<1>8. MetAll(Met, visited, Neighbours(B))
  BY <1>4, <1>6, <1>7, MetsAll
<1> QED BY <1>1, <1>2, <1>3, <1>7, <1>8 DEF B

LEMMA DiscoverWalks ==
  ASSUME SiteKnown, Walking, Discover
  PROVE  Walking'
<1>0. /\ read' = read /\ RootBug' = RootBug /\ Ball' = Ball /\ InSight' = InSight
      /\ \A d : Shell(d)' = Shell(d) /\ Within(d)' = Within(d) /\ Rim(d)' = Rim(d)
  BY SiteSteady DEF Discover
<1> DEFINE met == IF Over THEN [visited |-> visited, frontier |-> <<>>, capped |-> capped] ELSE Met
<1>1. /\ UNCHANGED read /\ UNCHANGED siteVars /\ links' = links /\ phase = "discover"
      /\ visited' = met.visited /\ frontier' = met.frontier /\ capped' = met.capped
      /\ pending' = [n \in DOMAIN met.frontier |-> met.frontier[n][1]]
      /\ IF met.frontier = <<>>
           THEN phase' = "done" /\ depth' = depth
           ELSE phase' = "fetch" /\ depth' = depth + 1
      /\ layer' = {}
  BY DEF Discover
<1>2. Listed' = Listed
  BY <1>0, <1>1 DEF Listed
<1>3. CASE Over
  <2>1. met.visited = visited /\ met.frontier = <<>> /\ met.capped = capped
    BY <1>3
  <2>2. visited' = visited /\ capped' = capped /\ phase' = "done"
    BY <1>0, <1>1, <2>1
  <2>3. CASE capped
    <3>1. Curtailed'
      BY <1>0, <1>1, <2>2, <2>3 DEF Walking, Curtailed
    <3> QED BY <2>2, <2>3, <3>1 DEF Walking
  <2>4. CASE ~capped
    <3>1. AtEdge(depth) /\ depth = read.depth
      BY <1>0, <1>1, <1>3, <2>4 DEF Walking, Over
    <3>2. AtEnd'
      BY <1>0, <1>1, <1>2, <3>1 DEF AtEdge, Around, AtEnd
    <3> QED BY <2>2, <2>4, <3>2 DEF Walking
  <2> QED BY <2>3, <2>4
<1>4. CASE ~Over
  <2> DEFINE m == Met
             T == Neighbours(Shell(depth) \cap InSight)
             V == Ball[depth]
  <2>1. met = m
    BY <1>4
  <2>2. ~capped /\ AtEdge(depth) /\ depth # read.depth
    BY <1>0, <1>1, <1>4 DEF Walking, Over
  <2>3. /\ Grounded /\ depth \in Nat /\ depth < read.depth /\ MetAll(m, V, T)
        /\ Ball[depth + 1] = V \cup T
    BY <2>2, MetNext
  <2> HIDE DEF m, met, T
  <2>4. /\ visited' = m.visited /\ frontier' = m.frontier /\ capped' = m.capped
        /\ pending' = [n \in DOMAIN m.frontier |-> m.frontier[n][1]]
        /\ m.frontier = <<>> => phase' = "done" /\ depth' = depth
        /\ m.frontier # <<>> => phase' = "fetch" /\ depth' = depth + 1
    BY <1>0, <1>1, <2>1
  <2>5. /\ m.visited \subseteq V \cup T /\ V \subseteq m.visited
        /\ Cardinality(m.visited) <= MaxRelated + 1
        /\ IsList(m.frontier) /\ Targets(m.frontier) = m.visited \ V
        /\ ~m.capped => T \subseteq m.visited
        /\ m.capped => Cardinality(m.visited) = MaxRelated + 1 /\ ~(T \subseteq m.visited)
    BY <2>3 DEF MetAll
  <2>6. read.depth \in Nat /\ depth + 1 \in 0..read.depth /\ depth + 1 \in 1..read.depth
        /\ (depth + 1) - 1 = depth /\ depth + 1 # 0
    BY <2>3, DepthNat DEF SiteKnown
  <2>7. RootBug \in Nodes /\ IsList(links) /\ Listed = Within(depth)
    BY <2>2 DEF AtEdge, Around
  <2>8. CASE m.capped
    <3>1. Cardinality(Ball[read.depth]) > MaxRelated + 1
      <4>1. m.visited \subseteq Ball[depth + 1] /\ T \subseteq Ball[depth + 1]
        BY <2>3, <2>5
      <4>2. ~(T \subseteq m.visited) /\ Cardinality(m.visited) = MaxRelated + 1
        BY <2>5, <2>8
      <4> QED BY <2>3, <2>6, <4>1, <4>2, CapTold
    <3>2. Curtailed'
      BY <1>0, <1>1, <2>4, <2>5, <2>7, <2>8, <3>1 DEF Curtailed
    <3> QED BY <2>4, <2>8, <3>2 DEF Walking
  <2>9. CASE ~m.capped
    <3>1. m.visited = Ball[depth + 1]
      BY <2>3, <2>5, <2>9
    <3>2. CASE m.frontier = <<>>
      <4>1. Targets(m.frontier) = {}
        BY <3>2, EmptyList DEF Targets
      <4>2. Ball[depth + 1] = Ball[depth]
        BY <2>5, <3>1, <4>1
      <4>3. \A e \in (depth + 1)..read.depth : Shell(e) = {}
        BY <2>3, <4>2, BallEnds
      <4>4. Within(read.depth) = Within(depth)
        BY <2>3, <2>6, <4>3, WithinAll
      <4>5. AtEnd'
        BY <1>0, <1>1, <1>2, <2>7, <4>4 DEF AtEnd
      <4> QED BY <2>4, <2>9, <3>2, <4>5 DEF Walking
    <3>3. CASE m.frontier # <<>>
      <4>1. Shell(depth + 1) = Targets(m.frontier)
        BY <2>5, <2>6, <3>1 DEF Shell
      <4>2. IsList(pending') /\ ToSet(pending') = Targets(m.frontier)
        <5> DEFINE f == m.frontier
                   p == [n \in DOMAIN f |-> f[n][1]]
        <5>1. IsList(f)
          BY <2>5
        <5> HIDE DEF f
        <5>2. DOMAIN p = DOMAIN f /\ p = [n \in DOMAIN f |-> p[n]] /\ \A n \in DOMAIN f : p[n] = f[n][1]
          OBVIOUS
        <5> HIDE DEF p
        <5>3. IsList(p)
          BY <5>1, <5>2, ListOver
        <5>4. ToSet(p) = Targets(f)
          BY <5>2 DEF ToSet, Targets
        <5> QED BY <2>4, <5>3, <5>4 DEF f, p
      <4>3. PICK k : k = depth + 1
        OBVIOUS
      <4>4. Around(k)'
        BY <1>0, <1>1, <2>4, <2>5, <2>7, <3>1, <4>3 DEF Around
      <4>5. AtLayer(k)'
        <5>1. k \in 1..read.depth /\ k - 1 = depth
          BY <2>6, <4>3
        <5>2. Targets(frontier)' = Shell(k) /\ IsList(frontier)'
          BY <2>4, <2>5, <4>1, <4>3 DEF Targets
        <5>3. IsList(pending)' /\ ToSet(pending)' = Shell(k)
          BY <4>1, <4>2, <4>3
        <5> QED BY <1>0, <1>1, <1>2, <2>7, <4>4, <5>1, <5>2, <5>3 DEF AtLayer
      <4>6. AtLayer(depth)'
        BY <2>4, <3>3, <4>3, <4>5
      <4> QED BY <2>4, <2>9, <3>3, <4>6 DEF Walking
    <3> QED BY <3>2, <3>3
  <2> QED BY <2>8, <2>9
<1> QED BY <1>3, <1>4

\* A chunk and what is left over are what was to be read.
LEMMA ChunkSplits ==
  ASSUME IsList(pending), pending # <<>>, NEW rest,
         rest = SubSeq(pending, Len(Chunk) + 1, Len(pending))
  PROVE  /\ ToSet(Chunk) \subseteq ToSet(pending)
         /\ IsList(rest) /\ ToSet(rest) \subseteq ToSet(pending)
         /\ ToSet(pending) \subseteq ToSet(Chunk) \cup ToSet(rest)
<1> DEFINE E == ToSet(pending)
           L == Len(pending)
           n == IF read.xmlrpc THEN 1 ELSE ChunkSize
           k == IF n < L THEN n ELSE L
<1>1. pending \in Seq(E)
  BY DEF IsList
<1> HIDE DEF E
<1>2. L \in Nat \ {0} /\ DOMAIN pending = 1..L
  BY <1>1
<1>3. k \in 1..L
  BY <1>2, BugReadsAssumption
<1>4. Chunk = SubSeq(pending, 1, k)
  BY DEF Chunk
<1> HIDE DEF n, k
<1>5. /\ Chunk \in Seq(E) /\ Len(Chunk) = k /\ DOMAIN Chunk = 1..k
      /\ \A m \in 1..k : Chunk[m] = pending[m]
  BY <1>1, <1>2, <1>3, <1>4
<1>6. /\ rest \in Seq(E) /\ DOMAIN rest = 1..(L - k)
      /\ \A m \in 1..(L - k) : rest[m] = pending[m + k]
  BY <1>1, <1>2, <1>3, <1>5
<1>7. \A m \in 1..L : m \notin 1..k => m - k \in 1..(L - k) /\ m = (m - k) + k
  BY <1>2, <1>3
<1>8. (\A m \in 1..k : m \in 1..L) /\ \A m \in 1..(L - k) : m + k \in 1..L
  BY <1>2, <1>3
<1> HIDE DEF L
<1>9. /\ ToSet(pending) = {pending[m] : m \in 1..L}
      /\ ToSet(Chunk) = {pending[m] : m \in 1..k}
      /\ ToSet(rest) = {pending[m + k] : m \in 1..(L - k)}
  BY <1>2, <1>5, <1>6 DEF ToSet
<1>10. ASSUME NEW b \in ToSet(pending), b \notin ToSet(Chunk) PROVE b \in ToSet(rest)
  <2>1. PICK m \in 1..L : b = pending[m]
    BY <1>9
  <2>2. m - k \in 1..(L - k) /\ m = (m - k) + k
    BY <1>7, <1>9, <1>10, <2>1
  <2> QED BY <1>9, <2>1, <2>2
<1>11. IsList(rest)
  BY <1>6, ListOf
<1>12. ToSet(Chunk) \subseteq ToSet(pending) /\ ToSet(rest) \subseteq ToSet(pending)
  BY <1>8, <1>9
<1> QED BY <1>10, <1>11, <1>12

LEMMA FetchWalks ==
  ASSUME SiteKnown, Walking, FetchChunk
  PROVE  Walking'
<1>0. /\ read' = read /\ RootBug' = RootBug /\ Ball' = Ball /\ InSight' = InSight
      /\ \A d : Shell(d)' = Shell(d) /\ Within(d)' = Within(d) /\ Rim(d)' = Rim(d)
  BY SiteSteady DEF FetchChunk
<1>1. /\ UNCHANGED read /\ UNCHANGED siteVars /\ links' = links /\ phase = "fetch" /\ phase' = phase
      /\ visited' = visited /\ frontier' = frontier /\ capped' = capped /\ depth' = depth
      /\ pending # <<>>
      /\ layer' = layer \cup { Node(b) : b \in { c \in ToSet(Chunk) : Sees(c) } }
      /\ pending' = SubSeq(pending, Len(Chunk) + 1, Len(pending))
  BY DEF FetchChunk
<1>2. CASE capped
  <2>1. Curtailed'
    BY <1>0, <1>1, <1>2 DEF Walking, Curtailed
  <2> QED BY <1>0, <1>1, <1>2, <2>1 DEF Walking
<1>3. CASE ~capped
  <2>1. AtLayer(depth)
    BY <1>0, <1>1, <1>3 DEF Walking
  <2>2. PICK k : k = depth
    OBVIOUS
  <2>3. /\ IsList(pending) /\ ToSet(pending) \subseteq Shell(k) /\ layer \subseteq Rim(k)
        /\ \A b \in (Shell(k) \cap InSight) \ ToSet(pending) : Node(b) \in layer
    BY <2>1, <2>2 DEF AtLayer
  <2>4. /\ ToSet(Chunk) \subseteq ToSet(pending)
        /\ IsList(pending)' /\ ToSet(pending)' \subseteq ToSet(pending)
        /\ ToSet(pending) \subseteq ToSet(Chunk) \cup ToSet(pending)'
    BY <1>0, <1>1, <2>3, ChunkSplits
  <2>5. layer' \subseteq Rim(k)
    BY <1>0, <1>1, <2>3, <2>4 DEF Rim, Sees, InSight
  <2>6. ASSUME NEW b \in (Shell(k) \cap InSight) \ ToSet(pending)'
        PROVE  Node(b)' \in layer'
    <3>0. Node(b)' = Node(b)
      BY <1>1, SiteSteady
    <3>1. ASSUME b \in ToSet(pending) PROVE Node(b) \in layer'
      <4>1. b \in ToSet(Chunk) /\ Sees(b)
        BY <2>4, <2>6, <3>1 DEF Sees, InSight
      <4> QED BY <1>0, <1>1, <4>1
    <3>2. ASSUME b \notin ToSet(pending) PROVE Node(b) \in layer'
      BY <1>0, <1>1, <2>3, <2>6, <3>2
    <3>3. Node(b) \in layer'
      BY <3>1, <3>2
    <3> QED BY <3>0, <3>3
  <2>7. Around(k)' /\ k \in 1..read.depth
    BY <1>0, <1>1, <2>1, <2>2 DEF AtLayer, Around
  <2>8. Listed' = Within(k - 1) /\ IsList(frontier)' /\ Targets(frontier)' = Shell(k)
    BY <1>0, <1>1, <2>1, <2>2 DEF AtLayer, Listed, Targets
  <2>9. AtLayer(k)'
    BY <1>0, <1>1, <2>3, <2>4, <2>5, <2>6, <2>7, <2>8 DEF AtLayer
  <2>10. AtLayer(depth)'
    BY <1>0, <1>1, <2>2, <2>9
  <2> QED BY <1>0, <1>1, <1>3, <2>10 DEF Walking
<1> QED BY <1>2, <1>3

LEMMA LayerReadWalks ==
  ASSUME SiteKnown, Walking, LayerRead
  PROVE  Walking'
<1>0. /\ read' = read /\ RootBug' = RootBug /\ Ball' = Ball /\ InSight' = InSight
      /\ \A d : Shell(d)' = Shell(d) /\ Within(d)' = Within(d) /\ Rim(d)' = Rim(d)
  BY SiteSteady DEF LayerRead
<1> DEFINE there == Select(frontier, {e \in ToSet(frontier) : \E n \in layer : n.id = e[1]})
           found == [n \in DOMAIN there |-> [id |-> there[n][1], depth |-> depth]]
<1>1. /\ UNCHANGED read /\ UNCHANGED siteVars /\ links' = links \o found /\ phase = "fetch"
      /\ phase' = "discover" /\ pending = <<>>
      /\ layer' = layer /\ visited' = visited /\ capped' = capped /\ depth' = depth
  BY DEF LayerRead
<1> HIDE DEF there, found
<1>2. CASE capped
  <2>1. Curtailed'
    BY <1>0, <1>1, <1>2 DEF Walking, Curtailed
  <2> QED BY <1>0, <1>1, <1>2, <2>1 DEF Walking
<1>3. CASE ~capped
  <2>1. AtLayer(depth)
    BY <1>0, <1>1, <1>3 DEF Walking
  <2>2. PICK k : k = depth
    OBVIOUS
  <2>3. /\ k \in 1..read.depth /\ Around(k) /\ Listed = Within(k - 1)
        /\ IsList(frontier) /\ Targets(frontier) = Shell(k)
        /\ layer \subseteq Rim(k) /\ \A b \in Shell(k) \cap InSight : Node(b) \in layer
    BY <1>0, <1>1, <2>1, <2>2, EmptyList DEF AtLayer
  <2>4. Grounded /\ read.depth \in Nat /\ k - 1 \in Nat /\ k - 1 < read.depth /\ (k - 1) + 1 = k
        /\ k \in 0..read.depth
    BY <2>3, DepthNat DEF SiteKnown, Around, Grounded
  <2>5. layer = Rim(k)
    BY <2>3 DEF Rim
  <2>6. {n.id : n \in layer} = Shell(k) \cap InSight
    <3>1. \A b : Node(b).id = b
      BY DEF Node
    <3> QED BY <2>5, <3>1 DEF Rim
  <2>7. IsList(there) /\ {there[n][1] : n \in DOMAIN there} = Shell(k) \cap InSight
    <3> DEFINE S == {e \in ToSet(frontier) : \E n \in layer : n.id = e[1]}
    <3>1. IsList(there) /\ ToSet(there) = ToSet(frontier) \cap S
      BY <2>3, SelectList DEF there
    <3>2. ToSet(there) = {e \in ToSet(frontier) : e[1] \in Shell(k) \cap InSight}
      BY <2>6, <3>1
    <3>3. {there[n][1] : n \in DOMAIN there} = {e[1] : e \in ToSet(there)}
      BY DEF ToSet
    <3>4. {e[1] : e \in ToSet(frontier)} = Shell(k)
      BY <2>3 DEF Targets
    <3> HIDE DEF there
    <3>5. {e[1] : e \in ToSet(there)} = Shell(k) \cap InSight
      BY <3>2, <3>4
    <3> QED BY <3>1, <3>3, <3>5
  <2>8. IsList(found) /\ {<<found[n].id, found[n].depth>> : n \in DOMAIN found}
                            = {<<b, k>> : b \in Shell(k) \cap InSight}
    <3>1. DOMAIN found = DOMAIN there /\ found = [n \in DOMAIN there |-> found[n]]
          /\ \A n \in DOMAIN there : found[n].id = there[n][1] /\ found[n].depth = k
      BY <2>2 DEF found
    <3>2. IsList(found)
      BY <2>7, <3>1, ListOver
    <3> QED BY <2>7, <3>1, <3>2
  <2>9. IsList(links) /\ IsList(links') /\ Listed' = Listed \cup {<<b, k>> : b \in Shell(k) \cap InSight}
    <3>1. IsList(links)
      BY <2>3 DEF Around
    <3>2. IsList(links \o found) /\ ToSet(links \o found) = ToSet(links) \cup ToSet(found)
      BY <2>8, <3>1, ConcatList
    <3>3. \A s : {<<s[n].id, s[n].depth>> : n \in DOMAIN s} = {<<x.id, x.depth>> : x \in ToSet(s)}
      BY DEF ToSet
    <3>4. Listed' = {<<x.id, x.depth>> : x \in ToSet(links')} /\ Listed = {<<x.id, x.depth>> : x \in ToSet(links)}
      BY <3>3 DEF Listed
    <3>5. {<<x.id, x.depth>> : x \in ToSet(found)} = {<<b, k>> : b \in Shell(k) \cap InSight}
      BY <2>8, <3>3
    <3> QED BY <1>0, <1>1, <3>1, <3>2, <3>4, <3>5
  <2>10. Listed' = Within(k)
    BY <2>3, <2>4, <2>9, WithinNext
  <2>11. Around(k)'
    BY <1>0, <1>1, <2>3, <2>9 DEF Around
  <2>12. AtEdge(k)'
    BY <1>0, <1>1, <2>4, <2>5, <2>10, <2>11 DEF AtEdge
  <2>13. AtEdge(depth)'
    BY <1>0, <1>1, <2>2, <2>12
  <2> QED BY <1>0, <1>1, <1>3, <2>13 DEF Walking
<1> QED BY <1>2, <1>3

\* While others change nothing, a walk goes on as it should.
WalkHolds ==
  /\ edits \in Nat
  /\ edits = 0 /\ read # NoRead /\ read.kind = "links" => SiteKnown /\ Walking

LEMMA FailureWalks ==
  ASSUME Walking, ReadFails
  PROVE  Walking'
<1>1. /\ read' = read /\ UNCHANGED siteVars /\ phase' = "failed" /\ capped' = capped /\ visited' = visited
      /\ RootBug' = RootBug /\ Ball' = Ball
  BY SiteSteady DEF ReadFails, walkVars
<1>2. capped => Curtailed'
  BY <1>1 DEF Walking, Curtailed
<1> QED BY <1>1, <1>2 DEF Walking

LEMMA StutterWalks ==
  ASSUME Walking, UNCHANGED readVars
  PROVE  Walking'
<1>1. /\ read' = read /\ UNCHANGED siteVars /\ phase' = phase /\ layer' = layer /\ visited' = visited
      /\ frontier' = frontier /\ pending' = pending /\ depth' = depth /\ capped' = capped /\ links' = links
  BY DEF readVars, walkVars
<1>2. /\ RootBug' = RootBug /\ Ball' = Ball /\ InSight' = InSight
      /\ \A d : Shell(d)' = Shell(d) /\ Within(d)' = Within(d) /\ Rim(d)' = Rim(d)
  BY <1>1, SiteSteady
<1>3. ASSUME NEW b PROVE Node(b)' = Node(b)
  BY <1>1, SiteSteady
<1>4. Listed' = Listed /\ Targets(frontier)' = Targets(frontier) /\ IsList(links)' = IsList(links)
  BY <1>1 DEF Listed, Targets
<1>5. PICK k : k = depth
  OBVIOUS
<1>6. Around(k) => Around(k)'
  BY <1>1, <1>2, <1>4 DEF Around
<1>7. AtEdge(k) => AtEdge(k)'
  BY <1>1, <1>2, <1>4, <1>6 DEF AtEdge
<1>8. AtLayer(k) => AtLayer(k)'
  BY <1>1, <1>2, <1>3, <1>4, <1>6 DEF AtLayer
<1>9. AtEnd => AtEnd'
  BY <1>1, <1>2, <1>4 DEF AtEnd
<1>10. Curtailed => Curtailed'
  BY <1>1, <1>2 DEF Curtailed
<1>11. (AtEdge(depth) => AtEdge(depth)') /\ (AtLayer(depth) => AtLayer(depth)')
  BY <1>1, <1>5, <1>7, <1>8
<1> QED BY <1>1, <1>9, <1>10, <1>11 DEF Walking

LEMMA NextWalks ==
  ASSUME WalkHolds, [ReadsNext]_readVars
  PROVE  WalkHolds'
<1>1. read' = read
  BY DEF ReadsNext, readVars, ReadRoot, Discover, FetchChunk, LayerRead, Lookup, Prove,
         ReadFails, EditRelation, EditVisibility, Revoke
<1>2. CASE EditRelation \/ EditVisibility \/ Revoke
  <2>1. edits' = edits + 1 /\ edits \in Nat
    BY <1>2 DEF EditRelation, EditVisibility, Revoke, Edit, WalkHolds
  <2>2. edits' \in Nat /\ edits' # 0
    BY <2>1
  <2> QED BY <2>2 DEF WalkHolds
<1>3. CASE ~(EditRelation \/ EditVisibility \/ Revoke)
  <2>1. UNCHANGED siteVars
    BY <1>3 DEF ReadsNext, readVars, ReadRoot, Discover, FetchChunk, LayerRead, Lookup, Prove, ReadFails
  <2>2. edits' = edits /\ edits \in Nat
    BY <2>1 DEF siteVars, WalkHolds
  <2> SUFFICES ASSUME edits = 0, read # NoRead, read.kind = "links"
               PROVE  SiteKnown' /\ Walking'
    BY <1>1, <2>2 DEF WalkHolds
  <2>3. SiteKnown /\ Walking
    BY DEF WalkHolds
  <2>4. SiteKnown'
    BY <1>1, <2>1, <2>3 DEF SiteKnown, siteVars
  <2>5. ~Lookup /\ ~Prove
    BY <2>3 DEF Walking, Lookup, Prove
  <2>6. CASE UNCHANGED readVars
    BY <2>3, <2>4, <2>6, StutterWalks
  <2>7. CASE ReadFails
    BY <2>3, <2>4, <2>7, FailureWalks
  <2>8. CASE ReadRoot
    BY <2>3, <2>4, <2>8, ReadRootWalks
  <2>9. CASE Discover
    BY <2>3, <2>4, <2>9, DiscoverWalks
  <2>10. CASE FetchChunk
    BY <2>3, <2>4, <2>10, FetchWalks
  <2>11. CASE LayerRead
    BY <2>3, <2>4, <2>11, LayerReadWalks
  <2> QED BY <1>3, <2>5, <2>6, <2>7, <2>8, <2>9, <2>10, <2>11 DEF ReadsNext
<1> QED BY <1>2, <1>3

\* A walk that nothing was changed under lists every bug that the user sees within
\* the depth asked for, at its least distance from the root, and no other; it stops
\* short, and says so, only where there are more related bugs than the cap (handle).
THEOREM WalksExact == ReadsSpec => []LinksExact
<1>1. ReadsInit => WalkHolds
  <2> SUFFICES ASSUME ReadsInit PROVE WalkHolds
    OBVIOUS
  <2>1. edits \in Nat /\ read \in Reads /\ graph \in Graphs /\ visible \in SUBSET Nodes /\ open \in SUBSET visible
    BY DEF ReadsInit
  <2>2. SiteKnown
    BY <2>1, BugReadsAssumption DEF SiteKnown
  <2>3. ~capped /\ depth = 0 /\ links = <<>>
    BY DEF ReadsInit, WalkIdle
  <2>4. read.kind = "links" => phase = "root"
    BY DEF ReadsInit
  <2>5. read.kind = "links" => Walking
    BY <2>3, <2>4 DEF Walking
  <2> QED BY <2>1, <2>2, <2>5 DEF WalkHolds
<1>2. WalkHolds /\ [ReadsNext]_readVars => WalkHolds'
  BY NextWalks
<1>3. WalkHolds => LinksExact
  <2> SUFFICES ASSUME WalkHolds, Walked, edits = 0 PROVE LinksExact
    BY DEF LinksExact
  <2>1. SiteKnown /\ Walking /\ phase = "done"
    BY DEF WalkHolds, Walked
  <2>2. CASE capped
    <3>1. Curtailed
      BY <2>1, <2>2 DEF Walking
    <3> QED BY <2>2, <3>1 DEF Curtailed, LinksExact
  <2>3. CASE ~capped
    <3>1. AtEnd
      BY <2>1, <2>3 DEF Walking
    <3>2. Grounded
      BY <2>1, <3>1 DEF SiteKnown, AtEnd, Grounded
    <3>3. Listed = Within(read.depth)
      BY <3>1 DEF AtEnd
    <3>4. Listed = { <<b, CHOOSE d \in 1..read.depth : b \in Ball[d] /\ b \notin Ball[d - 1]>> :
                       b \in { c \in Ball[read.depth] \ {RootBug} : Sees(c) } }
      BY <3>2, <3>3, WithinExact
    <3> QED BY <2>3, <3>4 DEF Listed, LinksExact
  <2> QED BY <2>2, <2>3
<1>4. QED
  BY <1>1, <1>2, <1>3, PTL DEF ReadsSpec

-----------------------------------------------------------------------------
(* Saved queries, and the commands at work on them *)

QueryFieldNames == {"set", "raw", "source", "server"}

Shaped(q) == DOMAIN q = QueryFieldNames

WorkFields == {"stage", "cmd", "query", "server", "todo", "sent"}

\* A process at work has a command that the command line accepted.
WorkShaped(w) ==
  /\ "stage" \in DOMAIN w
  /\ w.stage # "idle" =>
       /\ DOMAIN w = WorkFields
       /\ w.cmd \in Commands /\ Accepted(w.cmd)
       /\ Shaped(w.query)

QueriesShaped == DOMAIN queries = QueryNames /\ \A n \in QueryNames : Shaped(queries[n])
RunnersShaped == DOMAIN runner = Runners /\ \A r \in Runners : WorkShaped(runner[r])

LEMMA EmptyShaped == Shaped(EmptyQuery) /\ Shaped(NoQuery)
  BY DEF EmptyQuery, NoQuery, Shaped, QueryFieldNames

LEMMA UrlShaped ==
  /\ \A url : Shaped(ParsedUrl(url))
  /\ \A c : Shaped(QueryFromUrl(c))
<1>1. \A url : Shaped(ParsedUrl(url))
  BY DEF ParsedUrl, Shaped, QueryFieldNames
<1>2. QED
  BY <1>1 DEF QueryFromUrl, Shaped

LEMMA StoredShaped == \A q \in Stored : Shaped(q)
  BY SavedQueriesAssumption DEF Shaped, QueryFieldNames

\* A command begins with a query of the file, of its URL or of its flags.
LEMMA BeginShape ==
  ASSUME QueriesShaped, NEW r, NEW c \in Commands, Accepted(c), BeginWrite(r, c) \/ BeginSearch(r, c)
  PROVE  \E q, stage, s : Shaped(q) /\ stage \in {"failed", "store", "connect"}
                          /\ Begins(r, c, stage, q, s)
<1>1. c.name \in QueryNames
  BY SavedQueriesAssumption
<1>2. Shaped(queries[c.name]) /\ Shaped([EmptyQuery EXCEPT !.set = c.given])
  BY <1>1, EmptyShaped DEF QueriesShaped, Shaped
<1>3. CASE BeginWrite(r, c)
  BY <1>2, <1>3, EmptyShaped, UrlShaped DEF BeginWrite, RefusedAt
<1>4. CASE BeginSearch(r, c)
  BY <1>2, <1>4, EmptyShaped, UrlShaped DEF BeginSearch, RefusedAt
<1>5. QED
  BY <1>3, <1>4

\* One process takes a step, and what it may do to its own work.
Moves(w, v) ==
  /\ w.stage # "idle"
  /\ DOMAIN v = DOMAIN w
  /\ v.cmd = w.cmd /\ v.query = w.query /\ v.stage # "idle"

LEMMA ToMoves ==
  ASSUME NEW w, NEW s, s # "idle", WorkShaped(w), w.stage # "idle"
  PROVE  Moves(w, [w EXCEPT !.stage = s]) /\ [w EXCEPT !.stage = s].stage = s
         /\ [w EXCEPT !.stage = s].sent = w.sent /\ [w EXCEPT !.stage = s].todo = w.todo
  BY DEF Moves, WorkShaped, WorkFields

\* What a run has still to ask and has asked: its one search, at most once.
Asking(x, search) == DOMAIN x = {"search", "requests"} /\ x.search = search
AskedOf(s, w) == w.sent = <<>> \/ \E x : w.sent = <<x>> /\ Asking(x, s[1])
RunAsked(w) ==
  w.stage # "idle" /\ w.cmd.kind = "run" =>
    /\ w.stage \in {"connect", "ask"} => w.todo = Searches(w.cmd, w.query) /\ w.sent = <<>>
    /\ w.stage = "fallback" => w.todo = Searches(w.cmd, w.query) /\ w.sent # <<>>
    /\ AskedOf(Searches(w.cmd, w.query), w)

LEMMA OneSearch ==
  ASSUME NEW c, NEW q, c.kind = "run"
  PROVE  \E s : Searches(c, q) = <<s>>
<1>1. CASE ~c.count
  BY <1>1 DEF Searches
<1>2. CASE c.count
  <2> DEFINE s == RunSearch(c, q)
  <2>1. [n \in DOMAIN <<s>> |-> CountSearch(<<s>>[n])] = <<CountSearch(s)>>
    OBVIOUS
  <2>2. QED
    BY <1>2, <2>1 DEF Searches
<1>3. QED
  BY <1>1, <1>2

\* A step of a process: it begins a command, or goes on with the one it is at.
Began(v) ==
  \E c \in Commands, stage \in {"failed", "store", "connect"} : \E q, s :
    Accepted(c) /\ Shaped(q) /\ v = AtWork(c, stage, q, s)
GoesOn(w, v) == Moves(w, v) /\ (RunAsked(w) => RunAsked(v))

LEMMA WritesGoOn ==
  ASSUME NEW r, WorkShaped(runner[r]), NEW s \in {"done", "failed"}, To(r, s),
         runner[r].stage = "store" => runner[r].cmd.kind # "run",
         runner[r].stage \in {"store", "save"}
  PROVE  \E v : runner' = [runner EXCEPT ![r] = v] /\ GoesOn(runner[r], v)
<1> DEFINE w == runner[r]
           v == [w EXCEPT !.stage = s]
<1>1. Moves(w, v) /\ v.stage = s /\ v.sent = w.sent
  BY ToMoves
<1>2. RunAsked(w) => RunAsked(v)
  BY <1>1 DEF Moves, RunAsked, AskedOf
<1>3. runner' = [runner EXCEPT ![r] = v]
  BY DEF To
<1>4. QED
  BY <1>1, <1>2, <1>3 DEF GoesOn

LEMMA ConnectGoesOn ==
  ASSUME NEW r, WorkShaped(runner[r]), Connect(r)
  PROVE  \E v : runner' = [runner EXCEPT ![r] = v] /\ GoesOn(runner[r], v)
<1> DEFINE w == runner[r]
           name == IF w.server = Nothing THEN DefaultServer ELSE w.server
           s == IF /\ name \in DOMAIN hosts
                   /\ "savedsearch" \in DOMAIN w.cmd.given => name \in Extended
                   /\ ~Nameless(w.cmd)
                THEN "ask" ELSE "failed"
           v == [w EXCEPT !.server = name, !.stage = s]
<1>1. runner' = [runner EXCEPT ![r].server = name, ![r].stage = s] /\ s \in {"ask", "failed"}
  BY DEF Connect
<1> HIDE DEF name, s
<1>2. runner' = [runner EXCEPT ![r] = v]
  BY <1>1
<1>3. w.stage = "connect"
  BY DEF Connect
<1>4. DOMAIN w = WorkFields
  BY <1>3 DEF WorkShaped
<1>5. DOMAIN v = DOMAIN w /\ v.cmd = w.cmd /\ v.query = w.query /\ v.stage = s
      /\ v.todo = w.todo /\ v.sent = w.sent
  BY <1>4 DEF WorkFields
<1> HIDE DEF v, w
<1>6. Moves(w, v)
  BY <1>1, <1>3, <1>5 DEF Moves
<1>7. RunAsked(w) => RunAsked(v)
  BY <1>1, <1>3, <1>5 DEF RunAsked, AskedOf
<1>8. QED
  BY <1>2, <1>6, <1>7 DEF GoesOn, w

\* A search of a process is put to a server, as the first of its requests or not.
LEMMA SearchGoesOn ==
  ASSUME NEW w, NEW v, WorkShaped(w), w.stage \in {"ask", "fallback"},
         NEW s \in {"ask", "fallback", "failed", "save", "done"},
         DOMAIN v = DOMAIN w, v.cmd = w.cmd, v.query = w.query, v.stage = s,
         w.cmd.kind = "run" /\ RunAsked(w) =>
           /\ s # "ask"
           /\ s = "fallback" => v.todo = w.todo /\ v.sent # <<>>
           /\ AskedOf(Searches(w.cmd, w.query), v)
  PROVE  GoesOn(w, v)
<1>1. Moves(w, v)
  BY DEF Moves
<1>2. RunAsked(w) => RunAsked(v)
  BY DEF RunAsked
<1>3. QED
  BY <1>1, <1>2 DEF GoesOn
LEMMA AskGoesOn ==
  ASSUME NEW r, WorkShaped(runner[r]), AskServer(r)
  PROVE  \E v : runner' = [runner EXCEPT ![r] = v] /\ GoesOn(runner[r], v)
<1> DEFINE w == runner[r]
           x == [search |-> Head(w.todo), requests |-> <<PutTo(Head(w.todo), Via(r))>>]
           sent == Append(w.sent, x)
<1>1. w.stage = "ask" /\ DOMAIN w = WorkFields
  BY DEF AskServer, WorkShaped
<1>2. \/ runner' = [runner EXCEPT ![r].stage = "failed"]
      \/ runner' = [runner EXCEPT ![r].sent = sent, ![r].stage = "failed"]
      \/ runner' = [runner EXCEPT ![r].sent = sent, ![r].todo = Tail(@), ![r].stage = After(w)]
      \/ runner' = [runner EXCEPT ![r].sent = sent, ![r].stage = "fallback"]
  BY DEF AskServer, To
<1>3. After(w) \in {"ask", "save", "done"}
  BY DEF After
<1>4. w.cmd.kind = "run" /\ RunAsked(w) =>
        /\ After(w) # "ask" /\ sent = <<x>> /\ sent # <<>>
        /\ Asking(x, Searches(w.cmd, w.query)[1])
  <2> SUFFICES ASSUME w.cmd.kind = "run", RunAsked(w)
               PROVE  /\ After(w) # "ask" /\ sent = <<x>> /\ sent # <<>>
                      /\ Asking(x, Searches(w.cmd, w.query)[1])
    OBVIOUS
  <2>1. PICK s : Searches(w.cmd, w.query) = <<s>>
    BY OneSearch
  <2>2. w.todo = <<s>> /\ w.sent = <<>>
    BY <1>1, <2>1 DEF RunAsked
  <2>3. Head(w.todo) = s /\ After(w) # "ask"
    BY <2>2 DEF After
  <2>4. Asking(x, s)
    BY <2>3 DEF Asking
  <2> HIDE DEF x
  <2>5. sent = <<x>> /\ sent # <<>>
    BY <2>2
  <2>6. QED
    BY <2>1, <2>3, <2>4, <2>5
<1> HIDE DEF x, sent
<1>5. CASE runner' = [runner EXCEPT ![r].stage = "failed"]
  <2> DEFINE v == [w EXCEPT !.stage = "failed"]
  <2>1. DOMAIN v = DOMAIN w /\ v.cmd = w.cmd /\ v.query = w.query /\ v.stage = "failed"
        /\ v.sent = w.sent
    BY <1>1 DEF WorkFields
  <2>2. GoesOn(w, v)
    BY <1>1, <2>1, SearchGoesOn DEF RunAsked, AskedOf
  <2>3. QED
    BY <1>5, <2>2
<1>6. CASE runner' = [runner EXCEPT ![r].sent = sent, ![r].stage = "failed"]
  <2> DEFINE v == [w EXCEPT !.sent = sent, !.stage = "failed"]
  <2>1. DOMAIN v = DOMAIN w /\ v.cmd = w.cmd /\ v.query = w.query /\ v.stage = "failed"
        /\ v.sent = sent
    BY <1>1 DEF WorkFields
  <2>2. GoesOn(w, v)
    BY <1>1, <1>4, <2>1, SearchGoesOn DEF AskedOf
  <2>3. QED
    BY <1>6, <2>2
<1>7. CASE runner' = [runner EXCEPT ![r].sent = sent, ![r].todo = Tail(@), ![r].stage = After(w)]
  <2> DEFINE v == [w EXCEPT !.sent = sent, !.todo = Tail(@), !.stage = After(w)]
  <2>1. DOMAIN v = DOMAIN w /\ v.cmd = w.cmd /\ v.query = w.query /\ v.stage = After(w)
        /\ v.sent = sent
    BY <1>1 DEF WorkFields
  <2>2. GoesOn(w, v)
    BY <1>1, <1>3, <1>4, <2>1, SearchGoesOn DEF AskedOf
  <2>3. QED
    BY <1>7, <2>2
<1>8. CASE runner' = [runner EXCEPT ![r].sent = sent, ![r].stage = "fallback"]
  <2> DEFINE v == [w EXCEPT !.sent = sent, !.stage = "fallback"]
  <2>1. DOMAIN v = DOMAIN w /\ v.cmd = w.cmd /\ v.query = w.query /\ v.stage = "fallback"
        /\ v.sent = sent /\ v.todo = w.todo
    BY <1>1 DEF WorkFields
  <2>2. GoesOn(w, v)
    BY <1>1, <1>4, <2>1, SearchGoesOn DEF AskedOf
  <2>3. QED
    BY <1>8, <2>2
<1>9. QED
  BY <1>2, <1>5, <1>6, <1>7, <1>8

LEMMA FallBackGoesOn ==
  ASSUME NEW r, WorkShaped(runner[r]), FallBack(r)
  PROVE  \E v : runner' = [runner EXCEPT ![r] = v] /\ GoesOn(runner[r], v)
<1> DEFINE w == runner[r]
           put == PutTo(Head(w.todo), "xmlrpc")
           sent == [w.sent EXCEPT ![Len(w.sent)].requests = Append(@, put)]
<1>1. w.stage = "fallback" /\ DOMAIN w = WorkFields
  BY DEF FallBack, WorkShaped
<1>2. \/ runner' = [runner EXCEPT ![r].sent = sent, ![r].stage = "failed"]
      \/ runner' = [runner EXCEPT ![r].sent = sent, ![r].todo = Tail(@), ![r].stage = After(w)]
  BY DEF FallBack
<1>3. After(w) \in {"ask", "save", "done"}
  BY DEF After
<1>4. w.cmd.kind = "run" /\ RunAsked(w) =>
        After(w) # "ask" /\ \E x : sent = <<x>> /\ Asking(x, Searches(w.cmd, w.query)[1])
  <2> SUFFICES ASSUME w.cmd.kind = "run", RunAsked(w)
               PROVE  After(w) # "ask" /\ \E x :
                        sent = <<x>> /\ Asking(x, Searches(w.cmd, w.query)[1])
    OBVIOUS
  <2>1. PICK s : Searches(w.cmd, w.query) = <<s>>
    BY OneSearch
  <2>2. w.todo = <<s>>
    BY <1>1, <2>1 DEF RunAsked
  <2>3. After(w) # "ask"
    BY <2>2 DEF After
  <2>4. PICK x : w.sent = <<x>> /\ Asking(x, s)
    BY <1>1, <2>1 DEF RunAsked, AskedOf
  <2> DEFINE y == [x EXCEPT !.requests = Append(@, put)]
  <2>5. Asking(y, s)
    BY <2>4 DEF Asking
  <2>6. sent = <<y>>
    BY <2>4
  <2> HIDE DEF y, sent
  <2>7. QED
    BY <2>1, <2>3, <2>5, <2>6
<1> HIDE DEF sent
<1>5. CASE runner' = [runner EXCEPT ![r].sent = sent, ![r].stage = "failed"]
  <2> DEFINE v == [w EXCEPT !.sent = sent, !.stage = "failed"]
  <2>1. DOMAIN v = DOMAIN w /\ v.cmd = w.cmd /\ v.query = w.query /\ v.stage = "failed"
        /\ v.sent = sent
    BY <1>1 DEF WorkFields
  <2>2. GoesOn(w, v)
    BY <1>1, <1>4, <2>1, SearchGoesOn DEF AskedOf
  <2>3. QED
    BY <1>5, <2>2
<1>6. CASE runner' = [runner EXCEPT ![r].sent = sent, ![r].todo = Tail(@), ![r].stage = After(w)]
  <2> DEFINE v == [w EXCEPT !.sent = sent, !.todo = Tail(@), !.stage = After(w)]
  <2>1. DOMAIN v = DOMAIN w /\ v.cmd = w.cmd /\ v.query = w.query /\ v.stage = After(w)
        /\ v.sent = sent
    BY <1>1 DEF WorkFields
  <2>2. GoesOn(w, v)
    BY <1>1, <1>3, <1>4, <2>1, SearchGoesOn DEF AskedOf
  <2>3. QED
    BY <1>6, <2>2
<1>7. QED
  BY <1>2, <1>5, <1>6
\* A step of the commands is a step of one process, or of none.
LEMMA OneProcessSteps ==
  ASSUME QueriesShaped, RunnersShaped, QueriesNext
  PROVE  \/ UNCHANGED runner
         \/ \E r \in Runners : \E v :
              runner' = [runner EXCEPT ![r] = v] /\ (Began(v) \/ GoesOn(runner[r], v))
<1>1. CASE \E name \in DOMAIN Hosts : RemoveServer(name)
  BY <1>1 DEF RemoveServer
<1>2. ASSUME NEW r \in Runners,
             \/ BeginCommand(r) \/ SaveQuery(r) \/ DeleteQuery(r) \/ UpdateQuery(r)
             \/ Connect(r) \/ AskServer(r) \/ FallBack(r) \/ SaveAs(r)
      PROVE  \E v : runner' = [runner EXCEPT ![r] = v] /\ (Began(v) \/ GoesOn(runner[r], v))
  <2>1. WorkShaped(runner[r])
    BY DEF RunnersShaped
  <2>2. CASE BeginCommand(r)
    <3>1. PICK c \in Commands : Accepted(c) /\ (BeginWrite(r, c) \/ BeginSearch(r, c))
      BY <2>2 DEF BeginCommand
    <3>2. PICK q, stage, s : /\ Shaped(q) /\ stage \in {"failed", "store", "connect"}
                             /\ Begins(r, c, stage, q, s)
      BY <3>1, BeginShape
    <3>3. Began(AtWork(c, stage, q, s))
      BY <3>1, <3>2 DEF Began
    <3>4. QED
      BY <3>2, <3>3 DEF Begins
  <2>3. CASE SaveQuery(r) \/ DeleteQuery(r) \/ UpdateQuery(r)
    <3>1. runner[r].stage = "store" /\ runner[r].cmd.kind # "run"
      BY <2>3 DEF SaveQuery, DeleteQuery, UpdateQuery
    <3>2. To(r, "done") \/ To(r, "failed")
      BY <2>3 DEF SaveQuery, DeleteQuery, UpdateQuery, Put, Rejected
    <3>3. QED
      BY <2>1, <3>1, <3>2, WritesGoOn
  <2>4. CASE SaveAs(r)
    <3>1. runner[r].stage = "save" /\ To(r, "done")
      BY <2>4 DEF SaveAs, Put
    <3>2. QED
      BY <2>1, <3>1, WritesGoOn
  <2>5. QED
    BY <1>2, <2>1, <2>2, <2>3, <2>4, ConnectGoesOn, AskGoesOn, FallBackGoesOn
<1>3. QED
  BY <1>1, <1>2 DEF QueriesNext

LEMMA BeganShaped ==
  ASSUME NEW v, Began(v)
  PROVE  WorkShaped(v) /\ RunAsked(v)
<1>1. PICK c \in Commands, stage \in {"failed", "store", "connect"} :
        \E q, s : Accepted(c) /\ Shaped(q) /\ v = AtWork(c, stage, q, s)
  BY DEF Began
<1> PICK q, s : Accepted(c) /\ Shaped(q) /\ v = AtWork(c, stage, q, s)
  BY <1>1
<1>2. /\ DOMAIN v = WorkFields /\ v.cmd = c /\ v.query = q /\ v.stage = stage
      /\ v.sent = <<>> /\ (stage = "connect" => v.todo = Searches(c, q))
  BY DEF AtWork, WorkFields
<1>3. "stage" \in DOMAIN v
  BY <1>2 DEF WorkFields
<1>4. QED
  BY <1>1, <1>2, <1>3 DEF WorkShaped, RunAsked, AskedOf

LEMMA GoesOnShaped ==
  ASSUME NEW w, NEW v, WorkShaped(w), GoesOn(w, v)
  PROVE  WorkShaped(v) /\ (RunAsked(w) => RunAsked(v))
  BY DEF GoesOn, Moves, WorkShaped

\* Every write of the file leaves queries there.
LEMMA QueriesStayShaped ==
  ASSUME QueriesShaped, RunnersShaped, [QueriesNext]_queryVars
  PROVE  QueriesShaped'
<1>1. ASSUME NEW name, NEW q, Shaped(q), queries' = [queries EXCEPT ![name] = q]
      PROVE  QueriesShaped'
  BY <1>1 DEF QueriesShaped
<1>2. ASSUME UNCHANGED queries
      PROVE  QueriesShaped'
  BY <1>2 DEF QueriesShaped
<1>3. ASSUME NEW r \in Runners, SaveQuery(r) \/ DeleteQuery(r) \/ UpdateQuery(r) \/ SaveAs(r)
      PROVE  QueriesShaped'
  <2>1. runner[r].stage # "idle"
    BY <1>3 DEF SaveQuery, DeleteQuery, UpdateQuery, SaveAs
  <2>2. Shaped(runner[r].query) /\ runner[r].cmd.name \in QueryNames
    BY <2>1, SavedQueriesAssumption DEF RunnersShaped, WorkShaped
  <2>3. \A c : Shaped(Updated(queries[runner[r].cmd.name], c))
    BY <2>2 DEF QueriesShaped, Shaped, Updated
  <2>4. CASE SaveQuery(r) \/ SaveAs(r)
    <3>1. \E name : queries' = [queries EXCEPT ![name] = runner[r].query]
      BY <2>4 DEF SaveQuery, SaveAs, Put
    <3>2. QED
      BY <1>1, <2>2, <3>1
  <2>5. CASE DeleteQuery(r)
    BY <1>1, <1>2, <2>5, EmptyShaped DEF DeleteQuery, Put, Rejected
  <2>6. CASE UpdateQuery(r)
    <3> DEFINE c == runner[r].cmd
               q == IF c.url # <<>> THEN runner[r].query ELSE Updated(queries[c.name], c)
    <3>1. Shaped(q)
      BY <2>2, <2>3
    <3> HIDE DEF q
    <3>2. UNCHANGED queries \/ queries' = [queries EXCEPT ![c.name] = q]
      BY <2>6 DEF UpdateQuery, Put, Rejected, q
    <3>3. QED
      BY <1>1, <1>2, <3>1, <3>2
  <2>7. QED
    BY <1>3, <2>4, <2>5, <2>6
<1>4. ASSUME NEW r \in Runners, BeginCommand(r) \/ Connect(r) \/ AskServer(r) \/ FallBack(r)
      PROVE  UNCHANGED queries
  BY <1>4 DEF BeginCommand, Connect, AskServer, FallBack
<1>5. QED
  BY <1>2, <1>3, <1>4 DEF QueriesNext, RemoveServer, queryVars

RunsAsked == \A r \in Runners : RunAsked(runner[r])

QueriesInv == QueriesShaped /\ RunnersShaped /\ RunsAsked

LEMMA RunnersStay ==
  ASSUME QueriesInv, [QueriesNext]_queryVars
  PROVE  RunnersShaped' /\ RunsAsked'
<1>1. CASE UNCHANGED runner
  BY <1>1 DEF QueriesInv, RunnersShaped, RunsAsked
<1>2. ASSUME NEW r \in Runners, NEW v, runner' = [runner EXCEPT ![r] = v],
             Began(v) \/ GoesOn(runner[r], v)
      PROVE  RunnersShaped' /\ RunsAsked'
  <2>1. WorkShaped(v) /\ RunAsked(v)
    BY <1>2, BeganShaped, GoesOnShaped DEF QueriesInv, RunnersShaped, RunsAsked
  <2>2. DOMAIN runner' = Runners
        /\ \A p \in Runners : runner'[p] = IF p = r THEN v ELSE runner[p]
    BY <1>2 DEF QueriesInv, RunnersShaped
  <2>3. QED
    BY <2>1, <2>2 DEF QueriesInv, RunnersShaped, RunsAsked
<1>3. QED
  BY <1>1, <1>2, OneProcessSteps DEF QueriesInv, queryVars

LEMMA QueriesHold == QueriesSpec => []QueriesInv
<1>1. QueriesInit => QueriesInv
  <2> SUFFICES ASSUME QueriesInit
               PROVE  QueriesInv
    OBVIOUS
  <2>1. QueriesShaped
    BY StoredShaped, EmptyShaped DEF QueriesInit, QueriesShaped
  <2>2. DOMAIN runner = Runners /\ \A r \in Runners : runner[r] = [stage |-> "idle"]
    BY DEF QueriesInit
  <2>3. QED
    BY <2>1, <2>2 DEF QueriesInv, RunnersShaped, RunsAsked, WorkShaped, RunAsked
<1>2. QueriesInv /\ [QueriesNext]_queryVars => QueriesInv'
  BY RunnersStay, QueriesStayShaped DEF QueriesInv
<1>3. QED
  BY <1>1, <1>2, PTL DEF QueriesSpec

\* The names of the other parts of a request.
OtherNames ==
  {"chart", "order", "id", "ids", "include_fields", "exclude_fields", "limit", "offset", "sharer_id",
   "cc", "alias", "summary", "quicksearch", "savedsearch", "creation_time", "last_change_time"}

Distinct(s) == \A m, n \in DOMAIN s : s[m] = s[n] => m = n

LEMMA FieldNames ==
  /\ IsList(FieldMappings) /\ FilterField = ToSet(FieldMappings) /\ DOMAIN FieldMappings = 1..16
  /\ Len(FieldMappings) = 16 /\ Distinct(FieldMappings)
  /\ \A f \in FilterField : f \notin OtherNames
<1>1. FieldMappings = [n \in 1..16 |-> FieldMappings[n]]
  BY DEF FieldMappings
<1>2. DOMAIN FieldMappings = 1..16
  BY DEF FieldMappings
<1>3. \A n \in 1..16 : FieldMappings[n] \notin OtherNames
  BY DEF FieldMappings, OtherNames
<1>4. IsList(FieldMappings) /\ Len(FieldMappings) = 16
  BY <1>1, <1>2, ListUpTo
<1>5. Distinct(FieldMappings)
  BY DEF FieldMappings, Distinct
<1> QED BY <1>2, <1>3, <1>4, <1>5 DEF FilterField, ToSet

\* What an update leaves of a saved query: all that its flags do not name.
Unnamed(q, c) == [q EXCEPT !.set = Drop(@, DOMAIN c.given \cup c.clear)]

LEMMA UpdatedUnnamed ==
  ASSUME NEW q, NEW c, Shaped(q)
  PROVE  Unnamed(Updated(q, c), c) = Unnamed(q, c)
<1> DEFINE vectors == {f \in FilterField : ValuesOf(c.given, f) # <<>>}
           scalars == DOMAIN c.given \cap (UrlOverrides \cup {"quicksearch", "order"})
           kept == DOMAIN q.set \ (vectors \cup scalars)
           merged == [k \in vectors \cup scalars \cup kept |->
                        IF k \in kept THEN q.set[k] ELSE c.given[k]]
           new == Drop(merged, c.clear)
           named == DOMAIN c.given \cup c.clear
<1>1. vectors \cup scalars \subseteq named
  BY DEF ValuesOf
<1>2. Updated(q, c) = [q EXCEPT !.set = new]
  BY DEF Updated
<1> HIDE DEF vectors, scalars
<1>3. Drop(new, named) = Drop(q.set, named)
  BY <1>1 DEF Drop
<1>4. Updated(q, c).set = new
  BY <1>2 DEF Shaped, QueryFieldNames
<1> HIDE DEF new
<1> QED BY <1>2, <1>3, <1>4 DEF Unnamed, Shaped, QueryFieldNames

\* Only the step of the update itself both ends it and writes the file.
LEMMA UpdateStep ==
  ASSUME QueriesInv, QueriesNext, NEW r \in Runners,
         runner[r].stage = "store", runner[r].cmd.kind = "update",
         queries' # queries, runner'[r].stage = "done"
  PROVE  UpdateQuery(r)
<1>1. DOMAIN runner = Runners
  BY DEF QueriesInv, RunnersShaped
<1>2. ASSUME NEW p \in Runners, p # r,
             SaveQuery(p) \/ DeleteQuery(p) \/ UpdateQuery(p) \/ SaveAs(p)
      PROVE  FALSE
  <2>1. To(p, "done") \/ To(p, "failed")
    BY <1>2 DEF SaveQuery, DeleteQuery, UpdateQuery, SaveAs, Put, Rejected
  <2>2. runner'[r] = runner[r]
    BY <1>1, <1>2, <2>1 DEF To
  <2>3. QED
    BY <2>2
<1>3. ~SaveQuery(r) /\ ~DeleteQuery(r) /\ ~SaveAs(r)
  BY DEF SaveQuery, DeleteQuery, SaveAs
<1>4. ASSUME NEW p \in Runners, BeginCommand(p) \/ Connect(p) \/ AskServer(p) \/ FallBack(p)
      PROVE  FALSE
  BY <1>4 DEF BeginCommand, Connect, AskServer, FallBack
<1>5. \A name : ~RemoveServer(name)
  BY DEF RemoveServer
<1>6. QED
  BY <1>2, <1>3, <1>4, <1>5 DEF QueriesNext

LEMMA UpdateWrites ==
  ASSUME QueriesInv, NEW r \in Runners, UpdateQuery(r), runner[r].cmd.url = <<>>,
         queries' # queries
  PROVE  LET c == runner[r].cmd IN
         /\ \A n \in QueryNames \ {c.name} : queries'[n] = queries[n]
         /\ Unnamed(queries'[c.name], c) = Unnamed(queries[c.name], c)
         /\ HasFilters(queries'[c.name])
<1> DEFINE c == runner[r].cmd
           q == Updated(queries[c.name], c)
<1>1. queries' = [queries EXCEPT ![c.name] = q] /\ HasFilters(q)
  BY DEF UpdateQuery, Put, Rejected
<1>2. c \in Commands
  BY DEF UpdateQuery, QueriesInv, RunnersShaped, WorkShaped
<1>3. c.name \in QueryNames
  BY <1>2, SavedQueriesAssumption
<1>4. DOMAIN queries = QueryNames /\ Shaped(queries[c.name])
  BY <1>3 DEF QueriesInv, QueriesShaped
<1>5. Unnamed(q, c) = Unnamed(queries[c.name], c)
  BY <1>4, UpdatedUnnamed
<1> HIDE DEF q, c
<1>6. queries'[c.name] = q /\ \A n \in QueryNames \ {c.name} : queries'[n] = queries[n]
  BY <1>1, <1>3, <1>4
<1>7. QED
  BY <1>1, <1>5, <1>6 DEF c

\* An update writes what its flags name to the query it names as that is in the
\* file at the time, whatever other commands have written since it was begun.
THEOREM UpdatesAreNarrow == QueriesSpec => UpdatesOnlyNamed
<1> DEFINE Narrow ==
      \A r \in Runners :
         runner[r].stage = "store" /\ runner[r].cmd.kind = "update" /\ runner[r].cmd.url = <<>>
           /\ queries' # queries =>
         LET c == runner[r].cmd
             unnamed(q) == [q EXCEPT !.set = Drop(@, DOMAIN c.given \cup c.clear)]
         IN  runner'[r].stage = "done" =>
               /\ \A n \in QueryNames \ {c.name} : queries'[n] = queries[n]
               /\ unnamed(queries'[c.name]) = unnamed(queries[c.name])
               /\ HasFilters(queries'[c.name])
<1>1. ASSUME QueriesInv, QueriesNext
      PROVE  Narrow
  BY <1>1, UpdateStep, UpdateWrites DEF Unnamed
<1>2. QueriesInv /\ [QueriesNext]_queryVars => [Narrow]_queryVars
  BY <1>1
<1>3. QED
  BY <1>2, QueriesHold, PTL DEF QueriesSpec, UpdatesOnlyNamed

\* The limit and the offset that a window takes from elsewhere.
Limits(raw, offs, set) ==
  LET inRaw(key) == Select(raw, {r \in ToSet(raw) : r.key = key})
      numeric == {k \in {"limit", "offset"} :
                    inRaw(k) # <<>> /\ inRaw(k)[1].value[1] \notin {NaN, ""}}
  IN  Layered([k \in IF offs = <<>> THEN {} ELSE {"offset"} |-> offs],
           Layered(Drop(set, {"offset"}), [k \in numeric |-> Just(inRaw(k)[1].value[1])]))

LEMMA WindowSets ==
  ASSUME NEW raw, NEW offs
  PROVE  \E given, found :
           /\ DOMAIN given \subseteq {"limit", "offset"} /\ DOMAIN found \subseteq {"limit", "offset"}
           /\ \A set : Limits(raw, offs, set) = Layered(given, Layered(Drop(set, {"offset"}), found))
<1> DEFINE inRaw(key) == Select(raw, {r \in ToSet(raw) : r.key = key})
           numeric == {k \in {"limit", "offset"} :
                         inRaw(k) # <<>> /\ inRaw(k)[1].value[1] \notin {NaN, ""}}
           given == [k \in IF offs = <<>> THEN {} ELSE {"offset"} |-> offs]
           found == [k \in numeric |-> Just(inRaw(k)[1].value[1])]
<1>1. \A set : Limits(raw, offs, set) = Layered(given, Layered(Drop(set, {"offset"}), found))
  BY DEF Limits
<1>2. DOMAIN given \subseteq {"limit", "offset"}
  OBVIOUS
<1> HIDE DEF inRaw
<1>3. DOMAIN found \subseteq {"limit", "offset"}
  OBVIOUS
<1> HIDE DEF given, found
<1> QED BY <1>1, <1>2, <1>3

LEMMA WindowForm ==
  ASSUME NEW q, NEW offs, NEW set
  PROVE  LET s == [set |-> set, raw |-> q.raw, types |-> <<>>, ids |-> <<>>]
             raw == Select(q.raw, {r \in ToSet(q.raw) : r.key \notin {"limit", "offset"}})
         IN  PageWindow(s, offs) =
               [set |-> Limits(q.raw, offs, set), raw |-> raw, types |-> <<>>, ids |-> <<>>]
<1> DEFINE s == [set |-> set, raw |-> q.raw, types |-> <<>>, ids |-> <<>>]
<1>1. /\ DOMAIN s = {"set", "raw", "types", "ids"} /\ s.set = set /\ s.raw = q.raw
      /\ s.types = <<>> /\ s.ids = <<>> /\ s = [k \in DOMAIN s |-> s[k]]
  OBVIOUS
<1> HIDE DEF s
<1> DEFINE raw == Select(s.raw, {r \in ToSet(s.raw) : r.key \notin {"limit", "offset"}})
           new == Limits(s.raw, offs, s.set)
<1>2. PageWindow(s, offs) = [s EXCEPT !.raw = raw, !.set = new]
  BY DEF PageWindow, Limits
<1> HIDE DEF raw, new
<1>3. [s EXCEPT !.raw = raw, !.set = new] = [set |-> new, raw |-> raw, types |-> <<>>, ids |-> <<>>]
  <2> DEFINE x == [s EXCEPT !.raw = raw, !.set = new]
             y == [set |-> new, raw |-> raw, types |-> <<>>, ids |-> <<>>]
  <2>1. /\ DOMAIN x = {"set", "raw", "types", "ids"} /\ x = [k \in DOMAIN x |-> x[k]]
        /\ x["set"] = new /\ x["raw"] = raw /\ x["types"] = <<>> /\ x["ids"] = <<>>
    BY <1>1
  <2>2. /\ DOMAIN y = {"set", "raw", "types", "ids"} /\ y = [k \in DOMAIN y |-> y[k]]
        /\ y["set"] = new /\ y["raw"] = raw /\ y["types"] = <<>> /\ y["ids"] = <<>>
    OBVIOUS
  <2> HIDE DEF x, y
  <2>3. \A k \in DOMAIN x : x[k] = y[k]
    BY <2>1, <2>2
  <2>4. x = y
    BY <2>1, <2>2, <2>3
  <2> QED BY <2>4 DEF x, y
<1>4. new = Limits(q.raw, offs, set)
      /\ raw = Select(q.raw, {r \in ToSet(q.raw) : r.key \notin {"limit", "offset"}})
  BY <1>1 DEF raw, new
<1> QED BY <1>2, <1>3, <1>4 DEF s

LEMMA RunForm ==
  ASSUME NEW c, NEW q
  PROVE  LET set == Limits(q.raw, c.offset, ApplyOverrides(q.set, c.given))
             raw == Select(q.raw, {r \in ToSet(q.raw) : r.key \notin {"limit", "offset"}})
             order == IF "order" \in DOMAIN c.given THEN Keep(c.given, {"order"})
                      ELSE IF "order" \in DOMAIN set \/ \E n \in DOMAIN raw : raw[n].key = "order"
                      THEN <<>> ELSE StableOrder
         IN  RunSearch(c, q) = [set |-> Layered(order, set), raw |-> raw, types |-> <<>>, ids |-> <<>>]
<1> DEFINE given == ApplyOverrides(q.set, c.given)
           s == [SearchOf(q) EXCEPT !.set = ApplyOverrides(@, c.given)]
           b == [set |-> given, raw |-> q.raw, types |-> <<>>, ids |-> <<>>]
           set == Limits(q.raw, c.offset, given)
           raw == Select(q.raw, {r \in ToSet(q.raw) : r.key \notin {"limit", "offset"}})
           t == [set |-> set, raw |-> raw, types |-> <<>>, ids |-> <<>>]
           w == PageWindow(s, c.offset)
           By(v) == IF "order" \in DOMAIN c.given THEN Keep(c.given, {"order"})
                    ELSE IF "order" \in DOMAIN v.set \/ HasRawOrder(v) THEN <<>> ELSE StableOrder
<1>1. s = b
  <2> DEFINE x == SearchOf(q)
  <2>1. x = [set |-> q.set, raw |-> q.raw, types |-> <<>>, ids |-> <<>>]
    BY DEF SearchOf
  <2>2. x.set = q.set
    BY <2>1
  <2>3. ApplyOverrides(x.set, c.given) = given
    BY <2>2
  <2> HIDE DEF x, given
  <2>4. [x EXCEPT !.set = given] = [set |-> given, raw |-> q.raw, types |-> <<>>, ids |-> <<>>]
    BY <2>1
  <2> QED BY <2>3, <2>4 DEF x
<1>2. PageWindow(b, c.offset) = t
  BY WindowForm
<1>3. RunSearch(c, q) = [w EXCEPT !.set = Layered(By(w), w.set)]
  BY DEF RunSearch
<1> HIDE DEF s, b, set, raw
<1>4. w = t
  BY <1>1, <1>2
<1>5. t.set = set /\ t.raw = raw
  OBVIOUS
<1>6. By(t) = IF "order" \in DOMAIN c.given THEN Keep(c.given, {"order"})
              ELSE IF "order" \in DOMAIN set \/ \E n \in DOMAIN raw : raw[n].key = "order"
              THEN <<>> ELSE StableOrder
  BY <1>5 DEF HasRawOrder
<1> HIDE DEF By, w
<1>7. RunSearch(c, q) = [t EXCEPT !.set = Layered(By(t), set)]
  BY <1>3, <1>4, <1>5
<1> DEFINE new == Layered(By(t), set)
<1> HIDE DEF new
<1>8. [t EXCEPT !.set = new] = [set |-> new, raw |-> raw, types |-> <<>>, ids |-> <<>>]
  OBVIOUS
<1> QED BY <1>6, <1>7, <1>8 DEF new, set, raw, given

\* A run overrides what an update of it would change, but for the order.
LEMMA OverridesUpdate ==
  ASSUME NEW c, c.kind = "run", Accepted(c), NEW q, Shaped(q)
  PROVE  LET set == ApplyOverrides(q.set, c.given)
             new == Updated(q, c).set
         IN  IF "order" \in DOMAIN c.given
               THEN /\ DOMAIN new = DOMAIN set \cup {"order"}
                    /\ \A k \in DOMAIN new : new[k] = IF k = "order" THEN c.given[k] ELSE set[k]
               ELSE new = set
<1> DEFINE given == c.given
           vectors == {f \in FilterField : ValuesOf(given, f) # <<>>}
           scalars == DOMAIN given \cap (UrlOverrides \cup {"quicksearch", "order"})
           kept == DOMAIN q.set \ (vectors \cup scalars)
           merged == [k \in vectors \cup scalars \cup kept |->
                        IF k \in kept THEN q.set[k] ELSE given[k]]
           lists == {f \in OverrideFilters : ValuesOf(given, f) # <<>>}
           single == DOMAIN given \cap UrlOverrides
           set == ApplyOverrides(q.set, given)
           new == Updated(q, c).set
<1>1. DOMAIN given \subseteq Overridable /\ c.clear = {}
  BY DEF Accepted, Flags
<1>2. new = Drop(merged, c.clear)
  BY DEF Updated, Shaped, QueryFieldNames
<1>3. /\ DOMAIN new = vectors \cup scalars \cup kept
      /\ \A k \in DOMAIN new : new[k] = IF k \in kept THEN q.set[k] ELSE given[k]
      /\ new = [k \in DOMAIN new |-> new[k]]
  BY <1>1, <1>2 DEF Drop
<1>4. /\ DOMAIN set = lists \cup single \cup DOMAIN q.set
      /\ \A k \in DOMAIN set : set[k] = IF k \in lists \cup single THEN given[k] ELSE q.set[k]
      /\ set = [k \in DOMAIN set |-> set[k]]
  BY DEF ApplyOverrides
<1>5. vectors = lists
  <2>1. \A f \in FilterField : f \notin UrlOverrides \cup {"order"}
    BY FieldNames DEF OtherNames, UrlOverrides, DateFields
  <2>2. OverrideFilters \subseteq FilterField
    <3>1. OverrideFilters = {FieldMappings[9], FieldMappings[10], FieldMappings[11], FieldMappings[12],
                             FieldMappings[13], FieldMappings[14], FieldMappings[15], FieldMappings[16]}
      BY DEF OverrideFilters, FieldMappings
    <3> QED BY <3>1, FieldNames DEF ToSet
  <2>3. \A f \in FilterField : f \notin OverrideFilters => ValuesOf(given, f) = <<>>
    BY <1>1, <2>1 DEF Overridable, ValuesOf
  <2> QED BY <2>2, <2>3
<1>6. "quicksearch" \notin DOMAIN given /\ "order" \notin lists \cup UrlOverrides
  BY <1>1 DEF Overridable, OverrideFilters, UrlOverrides, DateFields
<1> HIDE DEF given, vectors, lists, set, new
<1>7. scalars = single \cup (DOMAIN given \cap {"order"})
  BY <1>6
<1> HIDE DEF scalars, single
<1>8. CASE "order" \in DOMAIN given
  <2>1. scalars = single \cup {"order"}
    BY <1>7, <1>8
  <2>2. DOMAIN new = DOMAIN set \cup {"order"}
    BY <1>3, <1>4, <1>5, <2>1
  <2>3. \A k \in DOMAIN new : new[k] = IF k = "order" THEN given[k] ELSE set[k]
    BY <1>3, <1>4, <1>5, <2>1, <2>2
  <2> QED BY <1>8, <2>2, <2>3 DEF set, new, given
<1>9. CASE "order" \notin DOMAIN given
  <2>1. scalars = single
    BY <1>7, <1>9
  <2>2. DOMAIN new = DOMAIN set
    BY <1>3, <1>4, <1>5, <2>1
  <2>3. \A k \in DOMAIN new : new[k] = set[k]
    BY <1>3, <1>4, <1>5, <2>1, <2>2
  <2>4. new = set
    BY <1>3, <1>4, <2>2, <2>3
  <2> QED BY <1>9, <2>4 DEF set, new, given
<1> QED BY <1>8, <1>9

\* The flags of a run, and the query without them once it is updated with them.
LEMMA RunIsUpdate ==
  ASSUME NEW c \in Commands, c.kind = "run", Accepted(c), NEW q, Shaped(q)
  PROVE  Searches(c, q) = Searches([c EXCEPT !.given = <<>>], Updated(q, c))
<1> DEFINE plain == [c EXCEPT !.given = <<>>]
           u == Updated(q, c)
           set == ApplyOverrides(q.set, c.given)
           P(x) == Limits(q.raw, c.offset, x)
           raw == Select(q.raw, {r \in ToSet(q.raw) : r.key \notin {"limit", "offset"}})
           rawOrder == \E n \in DOMAIN raw : raw[n].key = "order"
           Run(x) == [set |-> x, raw |-> raw, types |-> <<>>, ids |-> <<>>]
           By(given, x) == IF "order" \in DOMAIN given THEN Keep(given, {"order"})
                           ELSE IF "order" \in DOMAIN x \/ rawOrder THEN <<>> ELSE StableOrder
<1>1. {"kind", "name", "given", "count", "offset"} \subseteq DOMAIN c
  BY SavedQueriesAssumption
<1>2. /\ plain.kind = "run" /\ plain.count = c.count /\ plain.offset = c.offset
      /\ plain.given = <<>> /\ DOMAIN <<>> = {}
  BY <1>1
<1>3. u.raw = q.raw
  BY DEF Updated, Shaped, QueryFieldNames
<1> HIDE DEF plain, u
<1>4. RunSearch(c, q) = Run(Layered(By(c.given, P(set)), P(set)))
  BY RunForm
<1>5. ApplyOverrides(u.set, <<>>) = [k \in DOMAIN u.set |-> u.set[k]]
  BY <1>2 DEF ApplyOverrides, ValuesOf
<1> DEFINE new == [k \in DOMAIN u.set |-> u.set[k]]
<1>6. RunSearch(plain, u) = Run(Layered(By(<<>>, P(new)), P(new)))
  <2>1. ApplyOverrides(u.set, plain.given) = new
    BY <1>2, <1>5
  <2>2. RunSearch(plain, u) =
          LET x == Limits(u.raw, plain.offset, ApplyOverrides(u.set, plain.given))
              r == Select(u.raw, {y \in ToSet(u.raw) : y.key \notin {"limit", "offset"}})
              order == IF "order" \in DOMAIN plain.given THEN Keep(plain.given, {"order"})
                       ELSE IF "order" \in DOMAIN x \/ \E n \in DOMAIN r : r[n].key = "order"
                       THEN <<>> ELSE StableOrder
          IN  [set |-> Layered(order, x), raw |-> r, types |-> <<>>, ids |-> <<>>]
    BY RunForm
  <2> HIDE DEF new
  <2> QED BY <1>2, <1>3, <2>1, <2>2
<1>7. IF "order" \in DOMAIN c.given
        THEN /\ DOMAIN new = DOMAIN set \cup {"order"}
             /\ \A k \in DOMAIN new : new[k] = IF k = "order" THEN c.given[k] ELSE set[k]
        ELSE new = set
  <2>1. set = [k \in DOMAIN set |-> set[k]]
    BY DEF ApplyOverrides
  <2> HIDE DEF set
  <2> QED BY <2>1, OverridesUpdate DEF u, set
<1>8. PICK given, found :
        /\ DOMAIN given \subseteq {"limit", "offset"} /\ DOMAIN found \subseteq {"limit", "offset"}
        /\ \A x : P(x) = Layered(given, Layered(Drop(x, {"offset"}), found))
  BY WindowSets
<1> HIDE DEF new, set, raw, rawOrder, P, Run
<1>9. Layered(By(c.given, P(set)), P(set)) = Layered(By(<<>>, P(new)), P(new))
  <2>1. CASE "order" \notin DOMAIN c.given
    <3>1. new = set /\ By(c.given, P(set)) = By(<<>>, P(set))
      BY <1>2, <1>7, <2>1
    <3> HIDE DEF By
    <3> QED BY <3>1
  <2>2. CASE "order" \in DOMAIN c.given
    <3> DEFINE sort == Keep(c.given, {"order"})
               A == DOMAIN given
               B == DOMAIN found
    <3>1. /\ DOMAIN new = DOMAIN set \cup {"order"}
          /\ \A k \in DOMAIN new : new[k] = IF k = "order" THEN c.given[k] ELSE set[k]
      BY <1>7, <2>2
    <3>2. DOMAIN sort = {"order"} /\ sort["order"] = c.given["order"]
      BY <2>2 DEF Keep
    <3>3. ASSUME NEW x
          PROVE  /\ DOMAIN P(x) = A \cup B \cup (DOMAIN x \ {"offset"})
                 /\ \A k \in DOMAIN P(x) :
                      P(x)[k] = IF k \in A THEN given[k]
                                ELSE IF k \in DOMAIN x \ {"offset"} THEN x[k] ELSE found[k]
                 /\ P(x) = [k \in DOMAIN P(x) |-> P(x)[k]]
      BY <1>8 DEF Layered, Drop
    <3> DEFINE p == P(set)
               n == P(new)
    <3>4. /\ "order" \notin A /\ "order" \notin B /\ "order" # "offset"
          /\ DOMAIN n = DOMAIN p \cup {"order"}
          /\ \A k \in DOMAIN n : n[k] = IF k = "order" THEN c.given[k] ELSE p[k]
      <4>1. "order" \notin A /\ "order" \notin B /\ "order" # "offset"
        BY <1>8
      <4> DEFINE D == DOMAIN set
                 E == DOMAIN new
      <4>2. /\ DOMAIN p = A \cup B \cup (D \ {"offset"})
            /\ \A k \in DOMAIN p : p[k] = IF k \in A THEN given[k]
                                          ELSE IF k \in D \ {"offset"} THEN set[k] ELSE found[k]
        BY <3>3
      <4>3. /\ DOMAIN n = A \cup B \cup (E \ {"offset"})
            /\ \A k \in DOMAIN n : n[k] = IF k \in A THEN given[k]
                                          ELSE IF k \in E \ {"offset"} THEN new[k] ELSE found[k]
        BY <3>3
      <4>4. /\ E = D \cup {"order"}
            /\ \A k \in E : new[k] = IF k = "order" THEN c.given[k] ELSE set[k]
        BY <3>1
      <4> HIDE DEF p, n, A, B, D, E
      <4>5. DOMAIN n = DOMAIN p \cup {"order"}
        BY <4>1, <4>2, <4>3, <4>4
      <4>6. \A k \in DOMAIN n : n[k] = IF k = "order" THEN c.given[k] ELSE p[k]
        BY <4>1, <4>2, <4>3, <4>4, <4>5
      <4> QED BY <4>1, <4>5, <4>6
    <3>5. n = [k \in DOMAIN n |-> n[k]]
      BY <3>3
    <3>6. By(c.given, p) = sort /\ By(<<>>, n) = <<>>
      BY <1>2, <2>2, <3>4
    <3> HIDE DEF p, n, By, sort
    <3>7. Layered(<<>>, n) = n
      BY <1>2, <3>5 DEF Layered
    <3>8. Layered(sort, p) = n
      <4> DEFINE l == Layered(sort, p)
      <4>1. /\ DOMAIN l = {"order"} \cup DOMAIN p /\ l = [k \in DOMAIN l |-> l[k]]
            /\ \A k \in DOMAIN l : l[k] = IF k = "order" THEN c.given["order"] ELSE p[k]
        BY <3>2 DEF Layered
      <4> HIDE DEF l
      <4>2. DOMAIN l = DOMAIN n /\ \A k \in DOMAIN l : l[k] = n[k]
        BY <3>4, <4>1
      <4>3. l = n
        BY <3>5, <4>1, <4>2
      <4> QED BY <4>3 DEF l
    <3> QED BY <3>6, <3>7, <3>8 DEF p, n
  <2> QED BY <2>1, <2>2
<1>10. RunSearch(c, q) = RunSearch(plain, u)
  BY <1>4, <1>6, <1>9
<1> QED BY <1>2, <1>10 DEF Searches, plain, u

\* A run with flags asks what a run without any would ask, once the query had been
\* updated with them: the two merges name the fields they replace apart, and a run
\* puts its own --sort over what it has, while an update saves it (apply_overrides
\* and handle of run.rs, apply_query_updates).
THEOREM RunsAskAsUpdated == QueriesSpec => []RunAsUpdated
<1>1. ASSUME QueriesInv, NEW r \in Runners, SentBy(r) # <<>>, runner[r].cmd.kind = "run"
      PROVE  runner[r].sent[1].search =
               Searches([runner[r].cmd EXCEPT !.given = <<>>],
                        Updated(runner[r].query, runner[r].cmd))[1]
  <2> DEFINE w == runner[r]
  <2>1. w.stage # "idle" /\ w.sent # <<>>
    BY <1>1 DEF SentBy
  <2>2. w.cmd \in Commands /\ Accepted(w.cmd) /\ Shaped(w.query) /\ RunAsked(w)
    BY <1>1, <2>1 DEF QueriesInv, RunnersShaped, WorkShaped, RunsAsked
  <2>3. PICK x : w.sent = <<x>> /\ Asking(x, Searches(w.cmd, w.query)[1])
    BY <1>1, <2>1, <2>2 DEF RunAsked, AskedOf
  <2>4. w.sent[1].search = Searches(w.cmd, w.query)[1]
    BY <2>3 DEF Asking
  <2>5. QED
    BY <1>1, <2>2, <2>4, RunIsUpdate
<1>2. QueriesInv => RunAsUpdated
  BY <1>1 DEF RunAsUpdated
<1>3. QED
  BY <1>2, QueriesHold, PTL
-----------------------------------------------------------------------------
(* The slots of the boolean chart *)

Chartless(r) == \A x \in ToSet(r) : x.key # "chart"

LEMMA ChartsBeside ==
  ASSUME NEW s, NEW t, IsList(s), IsList(t), SlotsDistinct(s), Chartless(t)
  PROVE  SlotsDistinct(s \o t) /\ SlotsDistinct(t \o s)
<1>1. /\ Len(s) \in Nat /\ DOMAIN s = 1..Len(s) /\ Len(t) \in Nat /\ DOMAIN t = 1..Len(t)
      /\ \A n \in 1..Len(t) : t[n].key # "chart"
  BY ListForm DEF Chartless
<1>2. \A m, n \in 1..Len(s) :
        s[m].key = "chart" /\ s[n].key = "chart" /\ s[m].slot = s[n].slot => m = n
  BY <1>1 DEF SlotsDistinct
<1>3. SlotsDistinct(s \o t)
  <2> DEFINE u == s \o t
  <2>1. /\ IsList(u) /\ Len(u) = Len(s) + Len(t)
        /\ \A n \in 1..Len(s) : u[n] = s[n]
        /\ \A n \in 1..Len(t) : u[Len(s) + n] = t[n]
        /\ \A n \in 1..(Len(s) + Len(t)) : n \notin 1..Len(s) => n - Len(s) \in 1..Len(t)
    BY ConcatList
  <2> HIDE DEF u
  <2>2. DOMAIN u = 1..(Len(s) + Len(t))
    BY <2>1, ListForm
  <2>3. \A n \in DOMAIN u : u[n].key = "chart" => n \in 1..Len(s) /\ u[n] = s[n]
    <3> TAKE n \in DOMAIN u
    <3>1. n \notin 1..Len(s) => n - Len(s) \in 1..Len(t) /\ Len(s) + (n - Len(s)) = n
      BY <1>1, <2>1, <2>2
    <3> QED BY <1>1, <2>1, <3>1
  <2>4. SlotsDistinct(u)
    BY <1>2, <2>3 DEF SlotsDistinct
  <2> QED BY <2>4 DEF u
<1>4. SlotsDistinct(t \o s)
  <2> DEFINE u == t \o s
  <2>1. /\ IsList(u) /\ Len(u) = Len(t) + Len(s)
        /\ \A n \in 1..Len(t) : u[n] = t[n]
        /\ \A n \in 1..Len(s) : u[Len(t) + n] = s[n]
        /\ \A n \in 1..(Len(t) + Len(s)) : n \notin 1..Len(t) => n - Len(t) \in 1..Len(s)
    BY ConcatList
  <2> HIDE DEF u
  <2>2. DOMAIN u = 1..(Len(t) + Len(s))
    BY <2>1, ListForm
  <2>3. \A n \in DOMAIN u : u[n].key = "chart" => n - Len(t) \in 1..Len(s) /\ u[n] = s[n - Len(t)]
    <3> TAKE n \in DOMAIN u
    <3>1. n \notin 1..Len(t) => n - Len(t) \in 1..Len(s) /\ Len(t) + (n - Len(t)) = n
      BY <1>1, <2>1, <2>2
    <3> QED BY <1>1, <2>1, <3>1
  <2>4. \A m, n \in DOMAIN u : m - Len(t) = n - Len(t) => m = n
    BY <1>1, <2>2
  <2>5. SlotsDistinct(u)
    BY <1>2, <2>3, <2>4 DEF SlotsDistinct
  <2> QED BY <2>5 DEF u
<1> QED BY <1>3, <1>4

LEMMA NoSlots ==
  ASSUME NEW s, Chartless(s)
  PROVE  SlotsDistinct(s)
<1>1. \A n \in DOMAIN s : s[n].key # "chart"
  BY DEF Chartless, ToSet
<1> QED BY <1>1 DEF SlotsDistinct

LEMMA ChartlessConcat ==
  ASSUME NEW s, NEW t, IsList(s), IsList(t), Chartless(s), Chartless(t)
  PROVE  IsList(s \o t) /\ Chartless(s \o t)
<1>1. IsList(s \o t) /\ ToSet(s \o t) = ToSet(s) \cup ToSet(t)
  BY ConcatList
<1> QED BY <1>1 DEF Chartless

\* Terms put into the slots from 1 on have each their own.
LEMMA OwnSlots ==
  ASSUME NEW t, IsList(t), NEW k \in Nat
  PROVE  /\ IsList(Slots(k, t)) /\ Len(Slots(k, t)) = Len(t)
         /\ \A n \in 1..Len(t) : Slots(k, t)[n] = Chart(k + n - 1, t[n])
         /\ SlotsDistinct(Slots(k, t))
<1> DEFINE c == Slots(k, t)
<1>1. Len(t) \in Nat /\ DOMAIN t = 1..Len(t)
  BY ListForm
<1>2. DOMAIN c = DOMAIN t /\ \A n \in DOMAIN t : c[n] = Chart(k + n - 1, t[n])
  BY DEF Slots
<1>3. c = [n \in DOMAIN t |-> c[n]]
  BY DEF Slots
<1> HIDE DEF c
<1>4. IsList(c) /\ Len(c) = Len(t)
  BY <1>2, <1>3, ListOver
<1>5. \A n \in DOMAIN t : c[n].slot = k + n - 1
  BY <1>2 DEF Chart
<1>6. \A m, n \in 1..Len(t) : k + m - 1 = k + n - 1 => m = n
  BY <1>1
<1>7. SlotsDistinct(c)
  BY <1>1, <1>2, <1>5, <1>6 DEF SlotsDistinct
<1> QED BY <1>1, <1>2, <1>4, <1>7 DEF c

\* The negated terms go on where the others end, as if all were put at once.
LEMMA SlotsGoOn ==
  ASSUME NEW t, NEW u, IsList(t), IsList(u)
  PROVE  Slots(1, t) \o Slots(1 + Len(Slots(1, t)), u) = Slots(1, t \o u)
<1> DEFINE a == Slots(1, t)
           b == Slots(1 + Len(a), u)
           c == Slots(1, t \o u)
<1>1. Len(t) \in Nat /\ Len(u) \in Nat
  BY ListForm
<1>2. /\ IsList(t \o u) /\ Len(t \o u) = Len(t) + Len(u)
      /\ \A n \in 1..Len(t) : (t \o u)[n] = t[n]
      /\ \A n \in 1..Len(u) : (t \o u)[Len(t) + n] = u[n]
      /\ \A n \in 1..(Len(t) + Len(u)) : n \notin 1..Len(t) => n - Len(t) \in 1..Len(u)
  BY ConcatList
<1>3. IsList(a) /\ Len(a) = Len(t) /\ \A n \in 1..Len(t) : a[n] = Chart(n, t[n])
  <2>1. IsList(a) /\ Len(a) = Len(t) /\ \A n \in 1..Len(t) : a[n] = Chart(1 + n - 1, t[n])
    BY OwnSlots
  <2>2. \A n \in 1..Len(t) : 1 + n - 1 = n
    BY <1>1
  <2> HIDE DEF a
  <2> QED BY <2>1, <2>2
<1>4. IsList(b) /\ Len(b) = Len(u) /\ \A n \in 1..Len(u) : b[n] = Chart(Len(t) + n, u[n])
  <2> HIDE DEF a
  <2>1. 1 + Len(a) \in Nat
    BY <1>1, <1>3
  <2>2. IsList(b) /\ Len(b) = Len(u) /\ \A n \in 1..Len(u) : b[n] = Chart((1 + Len(a)) + n - 1, u[n])
    BY <2>1, OwnSlots
  <2>3. \A n \in 1..Len(u) : (1 + Len(a)) + n - 1 = Len(t) + n
    BY <1>1, <1>3
  <2> HIDE DEF b
  <2> QED BY <2>2, <2>3
<1>5. /\ IsList(c) /\ Len(c) = Len(t) + Len(u)
      /\ \A n \in 1..(Len(t) + Len(u)) : c[n] = Chart(n, (t \o u)[n])
  <2> DEFINE v == t \o u
  <2> HIDE DEF v
  <2>1. /\ IsList(Slots(1, v)) /\ Len(Slots(1, v)) = Len(v)
        /\ \A n \in 1..Len(v) : Slots(1, v)[n] = Chart(1 + n - 1, v[n])
    BY <1>2, OwnSlots DEF v
  <2>2. \A n \in 1..Len(v) : 1 + n - 1 = n
    BY <1>1, <1>2 DEF v
  <2>3. Len(v) = Len(t) + Len(u)
    BY <1>2 DEF v
  <2> QED BY <2>1, <2>2, <2>3 DEF v
<1> HIDE DEF a, b, c
<1>6. /\ IsList(a \o b) /\ Len(a \o b) = Len(t) + Len(u)
      /\ \A n \in 1..Len(t) : (a \o b)[n] = a[n]
      /\ \A n \in 1..Len(u) : (a \o b)[Len(t) + n] = b[n]
  <2>1. /\ IsList(a \o b) /\ Len(a \o b) = Len(a) + Len(b)
        /\ \A n \in 1..Len(a) : (a \o b)[n] = a[n]
        /\ \A n \in 1..Len(b) : (a \o b)[Len(a) + n] = b[n]
    <3>1. IsList(a) /\ IsList(b)
      BY <1>3, <1>4
    <3> QED BY <3>1, ConcatList
  <2>2. Len(a) = Len(t) /\ Len(b) = Len(u)
    BY <1>3, <1>4
  <2> QED BY <2>1, <2>2
<1> DEFINE d == a \o b
           v == t \o u
<1> HIDE DEF d, v
<1>7. /\ IsList(d) /\ Len(d) = Len(t) + Len(u)
      /\ \A n \in 1..Len(t) : d[n] = Chart(n, t[n]) /\ v[n] = t[n]
      /\ \A n \in 1..Len(u) : d[Len(t) + n] = Chart(Len(t) + n, u[n]) /\ v[Len(t) + n] = u[n]
      /\ \A n \in 1..(Len(t) + Len(u)) : c[n] = Chart(n, v[n])
  <2> USE DEF d, v
  <2>1. /\ IsList(d) /\ Len(d) = Len(t) + Len(u)
        /\ \A n \in 1..Len(t) : d[n] = a[n] /\ v[n] = t[n]
        /\ \A n \in 1..Len(u) : d[Len(t) + n] = b[n] /\ v[Len(t) + n] = u[n]
        /\ \A n \in 1..(Len(t) + Len(u)) : c[n] = Chart(n, v[n])
    BY <1>2, <1>5, <1>6
  <2> HIDE DEF d, v
  <2> QED BY <1>3, <1>4, <2>1
<1>8. \A n \in 1..(Len(t) + Len(u)) : d[n] = c[n]
  <2> TAKE n \in 1..(Len(t) + Len(u))
  <2>1. CASE n \in 1..Len(t)
    BY <1>7, <2>1
  <2>2. CASE n \notin 1..Len(t)
    <3>1. n - Len(t) \in 1..Len(u) /\ Len(t) + (n - Len(t)) = n
      BY <1>1, <1>2, <2>2
    <3> QED BY <1>7, <3>1
  <2> QED BY <2>1, <2>2
<1>9. d = c
  <2>1. d \in Seq(ToSet(d)) /\ c \in Seq(ToSet(c))
    BY <1>5, <1>7 DEF IsList
  <2> DEFINE D == ToSet(d)
             C == ToSet(c)
  <2> HIDE DEF D, C
  <2>2. d \in Seq(D) /\ c \in Seq(C)
    BY <2>1 DEF D, C
  <2>3. d = [n \in 1..Len(d) |-> d[n]] /\ c = [n \in 1..Len(c) |-> c[n]]
    BY <2>2
  <2> QED BY <1>5, <1>7, <1>8, <2>3
<1> QED BY <1>9 DEF a, b, c, d

\* A parameter beside others.
OwnSlot(x, s) == x.key = "chart" => \A y \in ToSet(s) : y.key = "chart" => y.slot # x.slot

LEMMA AppendSlots ==
  ASSUME NEW E, NEW s \in Seq(E), NEW x \in E
  PROVE  SlotsDistinct(Append(s, x)) <=> SlotsDistinct(s) /\ OwnSlot(x, s)
<1> DEFINE t == Append(s, x)
<1>1. /\ Len(s) \in Nat /\ DOMAIN s = 1..Len(s) /\ DOMAIN t = 1..(Len(s) + 1)
      /\ t[Len(s) + 1] = x /\ \A n \in 1..Len(s) : t[n] = s[n] /\ n # Len(s) + 1
      /\ \A n \in 1..(Len(s) + 1) : n \in 1..Len(s) \/ n = Len(s) + 1
      /\ \A n \in 1..Len(s) : n \in 1..(Len(s) + 1)
      /\ Len(s) + 1 \in 1..(Len(s) + 1)
  OBVIOUS
<1> HIDE DEF t
<1>2. OwnSlot(x, s) <=>
        (x.key = "chart" => \A n \in 1..Len(s) : s[n].key = "chart" => s[n].slot # x.slot)
  BY <1>1 DEF OwnSlot, ToSet
<1> DEFINE k == Len(s) + 1
           I == 1..Len(s)
           J == 1..(Len(s) + 1)
<1>3. /\ DOMAIN s = I /\ DOMAIN t = J /\ k \in J /\ t[k] = x
      /\ (\A n \in I : t[n] = s[n] /\ n # k /\ n \in J) /\ \A n \in J : n \in I \/ n = k
      /\ (OwnSlot(x, s) <=>
            (x.key = "chart" => \A n \in I : s[n].key = "chart" => s[n].slot # x.slot))
  BY <1>1, <1>2
<1> HIDE DEF k, I, J
<1>4. SlotsDistinct(t) => SlotsDistinct(s) /\ OwnSlot(x, s)
  BY <1>3 DEF SlotsDistinct
<1>5. SlotsDistinct(s) /\ OwnSlot(x, s) => SlotsDistinct(t)
  BY <1>3 DEF SlotsDistinct
<1> QED BY <1>4, <1>5 DEF t

LEMMA SelectSlots ==
  ASSUME NEW s, IsList(s), SlotsDistinct(s), NEW S
  PROVE  SlotsDistinct(Select(s, S))
<1> DEFINE E == ToSet(s)
<1>1. s \in Seq(E)
  BY DEF IsList
<1> HIDE DEF E
<1> DEFINE T == {u \in Seq(E) : SlotsDistinct(u) => SlotsDistinct(Select(u, S))}
<1>2. <<>> \in T
  BY SelectEmpty DEF SlotsDistinct
<1>3. ASSUME NEW u \in Seq(E), NEW x \in E, u \in T PROVE Append(u, x) \in T
  <2> SUFFICES ASSUME SlotsDistinct(Append(u, x))
               PROVE  SlotsDistinct(Select(Append(u, x), S))
    OBVIOUS
  <2>1. SlotsDistinct(u) /\ OwnSlot(x, u)
    BY AppendSlots
  <2>2. SlotsDistinct(Select(u, S))
    BY <1>3, <2>1
  <2>3. Select(u, S) \in Seq(E) /\ ToSet(Select(u, S)) = ToSet(u) \cap S
    BY SelectType, SelectRange
  <2>4. OwnSlot(x, Select(u, S))
    BY <2>1, <2>3 DEF OwnSlot
  <2>5. SlotsDistinct(Append(Select(u, S), x))
    BY <2>2, <2>3, <2>4, AppendSlots
  <2>6. Select(Append(u, x), S) = IF x \in S THEN Append(Select(u, S), x) ELSE Select(u, S)
    BY SelectAppend
  <2> QED BY <2>2, <2>5, <2>6
<1>4. Seq(E) \subseteq T
  <2> HIDE DEF T
  <2> QED BY <1>2, <1>3, SeqInduct
<1> QED BY <1>1, <1>4
-----------------------------------------------------------------------------
(* Parts of which none replaces another *)

Single(r) == \A m, n \in DOMAIN r : r[m].key = r[n].key /\ r[m].slot = r[n].slot => m = n

LEMMA SingleSlots ==
  ASSUME NEW r, Single(r)
  PROVE  SlotsDistinct(r)
  BY DEF Single, SlotsDistinct

LEMMA SingleOne ==
  /\ Single(<<>>) /\ \A x : Single(<<x>>)
  BY DEF Single

LEMMA SingleConcat ==
  ASSUME NEW s, NEW t, IsList(s), IsList(t), Single(s), Single(t),
         \A x \in ToSet(s), y \in ToSet(t) : ~(x.key = y.key /\ x.slot = y.slot)
  PROVE  Single(s \o t)
<1>1. /\ Len(s) \in Nat /\ DOMAIN s = 1..Len(s) /\ Len(t) \in Nat /\ DOMAIN t = 1..Len(t)
      /\ (\A n \in DOMAIN s : s[n] \in ToSet(s)) /\ \A n \in DOMAIN t : t[n] \in ToSet(t)
  BY ListForm
<1> DEFINE u == s \o t
<1>2. /\ IsList(u) /\ Len(u) = Len(s) + Len(t)
      /\ \A n \in 1..Len(s) : u[n] = s[n]
      /\ \A n \in 1..Len(t) : u[Len(s) + n] = t[n]
      /\ \A n \in 1..(Len(s) + Len(t)) : n \notin 1..Len(s) => n - Len(s) \in 1..Len(t)
  BY ConcatList
<1> HIDE DEF u
<1>3. DOMAIN u = 1..(Len(s) + Len(t))
  BY <1>2, ListForm
<1> DEFINE I == 1..Len(s)
           K == 1..Len(t)
           at(n) == n - Len(s)
<1>4. /\ \A n \in DOMAIN u : (n \in I /\ u[n] = s[n]) \/ (at(n) \in K /\ u[n] = t[at(n)])
      /\ \A m, n \in DOMAIN u : at(m) = at(n) => m = n
      /\ I = DOMAIN s /\ K = DOMAIN t
  <2>1. ASSUME NEW n \in DOMAIN u
        PROVE  (n \in I /\ u[n] = s[n]) \/ (at(n) \in K /\ u[n] = t[at(n)])
    <3>1. n \notin 1..Len(s) => n - Len(s) \in 1..Len(t) /\ Len(s) + (n - Len(s)) = n
      BY <1>1, <1>2, <1>3
    <3> QED BY <1>2, <3>1
  <2>2. \A m, n \in DOMAIN u : at(m) = at(n) => m = n
    BY <1>1, <1>3
  <2> QED BY <1>1, <2>1, <2>2
<1> HIDE DEF I, K, at
<1>5. Single(u)
  <2> SUFFICES ASSUME NEW m \in DOMAIN u, NEW n \in DOMAIN u, u[m].key = u[n].key, u[m].slot = u[n].slot
               PROVE  m = n
    BY DEF Single
  <2>1. CASE m \in I /\ u[m] = s[m] /\ n \in I /\ u[n] = s[n]
    BY <1>4, <2>1 DEF Single
  <2>2. CASE at(m) \in K /\ u[m] = t[at(m)] /\ at(n) \in K /\ u[n] = t[at(n)]
    <3>1. at(m) = at(n)
      BY <1>4, <2>2 DEF Single
    <3> QED BY <1>4, <3>1
  <2>3. CASE m \in I /\ u[m] = s[m] /\ at(n) \in K /\ u[n] = t[at(n)]
    BY <1>1, <1>4, <2>3
  <2>4. CASE n \in I /\ u[n] = s[n] /\ at(m) \in K /\ u[m] = t[at(m)]
    BY <1>1, <1>4, <2>4
  <2> QED BY <1>4, <2>1, <2>2, <2>3, <2>4
<1> QED BY <1>5 DEF u

-----------------------------------------------------------------------------
(* The parts of a request *)

LEMMA OptionNames ==
  /\ IsList(OptionFields) /\ IsList(TextOptions) /\ IsList(NumberOptions) /\ IsList(<<"exclude_fields">>)
  /\ Distinct(TextOptions) /\ Distinct(NumberOptions) /\ Distinct(<<"exclude_fields">>)
  /\ ToSet(OptionFields) = {"cc", "alias", "summary", "quicksearch", "savedsearch", "include_fields",
       "exclude_fields", "creation_time", "last_change_time", "order", "limit", "offset", "sharer_id"}
  /\ ToSet(TextOptions) = {"cc", "alias", "summary", "quicksearch", "savedsearch", "creation_time",
       "last_change_time"}
  /\ ToSet(NumberOptions) = {"limit", "offset", "sharer_id"}
  /\ ToSet(<<"exclude_fields">>) = {"exclude_fields"}
<1>1. OptionFields = [n \in 1..13 |-> OptionFields[n]] /\ DOMAIN OptionFields = 1..13
  BY DEF OptionFields
<1>2. TextOptions = [n \in 1..7 |-> TextOptions[n]] /\ DOMAIN TextOptions = 1..7
  BY DEF TextOptions
<1>3. NumberOptions = [n \in 1..3 |-> NumberOptions[n]] /\ DOMAIN NumberOptions = 1..3
  BY DEF NumberOptions
<1>4. IsList(OptionFields) /\ IsList(TextOptions) /\ IsList(NumberOptions)
  BY <1>1, <1>2, <1>3, ListUpTo
<1>5. Distinct(TextOptions) /\ Distinct(NumberOptions)
  BY DEF Distinct, TextOptions, NumberOptions
<1>6. Distinct(<<"exclude_fields">>)
  BY DEF Distinct
<1>7. ToSet(OptionFields) = {"cc", "alias", "summary", "quicksearch", "savedsearch", "include_fields",
        "exclude_fields", "creation_time", "last_change_time", "order", "limit", "offset", "sharer_id"}
  <2>1. ToSet(OptionFields) = {OptionFields[n] : n \in 1..13}
    BY <1>1 DEF ToSet
  <2>2. \A n \in 1..13 : n = 1 \/ n = 2 \/ n = 3 \/ n = 4 \/ n = 5 \/ n = 6 \/ n = 7 \/ n = 8 \/ n = 9
                         \/ n = 10 \/ n = 11 \/ n = 12 \/ n = 13
    OBVIOUS
  <2> QED BY <2>1, <2>2 DEF OptionFields
<1>8. ToSet(TextOptions) = {"cc", "alias", "summary", "quicksearch", "savedsearch", "creation_time",
        "last_change_time"}
  <2>1. ToSet(TextOptions) = {TextOptions[n] : n \in 1..7}
    BY <1>2 DEF ToSet
  <2>2. \A n \in 1..7 : n = 1 \/ n = 2 \/ n = 3 \/ n = 4 \/ n = 5 \/ n = 6 \/ n = 7
    OBVIOUS
  <2> QED BY <2>1, <2>2 DEF TextOptions
<1>9. ToSet(NumberOptions) = {"limit", "offset", "sharer_id"}
  <2>1. ToSet(NumberOptions) = {NumberOptions[n] : n \in 1..3}
    BY <1>3 DEF ToSet
  <2>2. \A n \in 1..3 : n = 1 \/ n = 2 \/ n = 3
    OBVIOUS
  <2> QED BY <2>1, <2>2 DEF NumberOptions
<1> QED BY <1>4, <1>5, <1>6, <1>7, <1>8, <1>9, OneList

\* What is kept of names that are each there once are names each there once.
LEMMA SelectDistinct ==
  ASSUME NEW s, IsList(s), Distinct(s), NEW S
  PROVE  Distinct(Select(s, S))
<1> DEFINE E == ToSet(s)
<1>1. s \in Seq(E)
  BY DEF IsList
<1> HIDE DEF E
<1>2. ASSUME NEW u \in Seq(E), NEW x \in E
      PROVE  Distinct(Append(u, x)) <=> Distinct(u) /\ x \notin ToSet(u)
  <2> DEFINE t == Append(u, x)
             k == Len(u) + 1
             I == 1..Len(u)
             J == 1..(Len(u) + 1)
  <2>1. /\ DOMAIN u = I /\ DOMAIN t = J /\ k \in J /\ t[k] = x
        /\ (\A n \in I : t[n] = u[n] /\ n # k /\ n \in J) /\ \A n \in J : n \in I \/ n = k
    OBVIOUS
  <2> HIDE DEF t, k, I, J
  <2>2. x \in ToSet(u) <=> \E n \in I : u[n] = x
    BY <2>1 DEF ToSet
  <2>3. Distinct(t) => Distinct(u) /\ x \notin ToSet(u)
    BY <2>1, <2>2 DEF Distinct
  <2>4. Distinct(u) /\ x \notin ToSet(u) => Distinct(t)
    BY <2>1, <2>2 DEF Distinct
  <2> QED BY <2>3, <2>4 DEF t
<1> DEFINE T == {u \in Seq(E) : Distinct(u) => Distinct(Select(u, S))}
<1>3. <<>> \in T
  BY SelectEmpty DEF Distinct
<1>4. ASSUME NEW u \in Seq(E), NEW x \in E, u \in T PROVE Append(u, x) \in T
  <2> SUFFICES ASSUME Distinct(Append(u, x))
               PROVE  Distinct(Select(Append(u, x), S))
    OBVIOUS
  <2>1. Distinct(u) /\ x \notin ToSet(u)
    BY <1>2
  <2>2. Distinct(Select(u, S))
    BY <1>4, <2>1
  <2>3. Select(u, S) \in Seq(E) /\ ToSet(Select(u, S)) = ToSet(u) \cap S
    BY SelectType, SelectRange
  <2>4. Distinct(Append(Select(u, S), x))
    BY <1>2, <2>1, <2>2, <2>3
  <2>5. Select(Append(u, x), S) = IF x \in S THEN Append(Select(u, S), x) ELSE Select(u, S)
    BY SelectAppend
  <2> QED BY <2>2, <2>4, <2>5
<1>5. Seq(E) \subseteq T
  <2> HIDE DEF T
  <2> QED BY <1>3, <1>4, SeqInduct
<1> QED BY <1>1, <1>5

\* The values of what is set, and the words of some of them.
LEMMA ValuesList ==
  ASSUME NEW set, OfLists(set), NEW k
  PROVE  /\ IsList(ValuesOf(set, k))
         /\ IsList(Negated(ValuesOf(set, k))) /\ IsList(Positive(ValuesOf(set, k)))
<1>1. IsList(ValuesOf(set, k))
  BY EmptyList DEF OfLists, ValuesOf
<1> QED BY <1>1, SelectList DEF Negated, Positive

LEMMA WordsList ==
  ASSUME NEW values, IsList(values)
  PROVE  IsList(Words(values)) /\ Len(Words(values)) = Len(values)
<1> DEFINE t == Words(values)
<1>1. DOMAIN t = DOMAIN values /\ t = [n \in DOMAIN values |-> t[n]]
  BY DEF Words
<1> HIDE DEF t
<1>2. IsList(t) /\ Len(t) = Len(values)
  BY <1>1, ListOver
<1> QED BY <1>2 DEF t

\* A search as the commands put it together: its values are lists, its charts
\* apart, and a match type is of a search without a URL.
SearchTyped(s) ==
  /\ DOMAIN s = {"set", "raw", "types", "ids"}
  /\ OfLists(s.set) /\ IsList(s.raw) /\ IsList(s.ids) /\ SlotsDistinct(s.raw)
  /\ s.raw # <<>> => DOMAIN s.types = {}

\* What a list of parts says, when none is replaced; and what a field's positive
\* values say of it, an option and the ids.
Says(r) == UNION {Meant(x) : x \in ToSet(r)}
WordsSay(k, words) == {[key |-> k, value |-> <<w>>] : w \in ToSet(words)}
ValuesSay(s, f) == IF Typed(s, f) THEN {} ELSE WordsSay(f, Words(Positive(ValuesOf(s.set, f))))
OptionSays(s, k) == IF k \in DOMAIN s.set THEN WordsSay(k, Words(s.set[k])) ELSE {}
DefaultSays(s) == IF "include_fields" \in DOMAIN s.set THEN {} ELSE WordsSay("include_fields", <<"default">>)

LEMMA SaysConcat ==
  ASSUME NEW s, NEW t, IsList(s), IsList(t)
  PROVE  IsList(s \o t) /\ Says(s \o t) = Says(s) \cup Says(t)
<1>1. IsList(s \o t) /\ ToSet(s \o t) = ToSet(s) \cup ToSet(t)
  BY ConcatList
<1> QED BY <1>1 DEF Says

LEMMA SaysOne ==
  /\ Says(<<>>) = {}
  /\ \A k, words : k # "chart" => Says(<<Several(k, words)>>) = WordsSay(k, words)
  /\ \A k, word : k # "chart" => Meant(Pair(k, word)) = {[key |-> k, value |-> <<word>>]}
<1>1. Says(<<>>) = {}
  BY EmptyList DEF Says
<1>2. ASSUME NEW k, NEW words, k # "chart"
      PROVE  Says(<<Several(k, words)>>) = WordsSay(k, words)
  <2> DEFINE x == Several(k, words)
  <2>1. x.key = k /\ x.value = words
    BY DEF Several
  <2> HIDE DEF x
  <2>2. ToSet(<<x>>) = {x}
    BY OneList
  <2>3. Meant(x) = WordsSay(k, words)
    BY <1>2, <2>1 DEF Meant, WordsSay
  <2> QED BY <2>2, <2>3 DEF Says, x
<1>3. ASSUME NEW k, NEW word, k # "chart"
      PROVE  Meant(Pair(k, word)) = {[key |-> k, value |-> <<word>>]}
  <2> DEFINE x == Pair(k, word)
  <2>1. x.key = k /\ x.value = <<word>>
    BY DEF Pair
  <2> HIDE DEF x
  <2>2. ToSet(<<word>>) = {word}
    BY OneList
  <2>3. Meant(x) = {[key |-> k, value |-> <<word>>]}
    BY <1>3, <2>1, <2>2 DEF Meant
  <2> QED BY <2>3 DEF x
<1> QED BY <1>1, <1>2, <1>3

\* A part of a request: parameters under a name of their own.
Part(r) == IsList(r) /\ Chartless(r)

\* One parameter for each word of a list.
LEMMA PairsOf ==
  ASSUME NEW k, k # "chart", NEW words, IsList(words)
  PROVE  LET p == [m \in DOMAIN words |-> Pair(k, words[m])]
         IN  IsList(p) /\ (\A x \in ToSet(p) : x.key = k) /\ Says(p) = WordsSay(k, words)
<1> DEFINE p == [m \in DOMAIN words |-> Pair(k, words[m])]
<1>1. DOMAIN p = DOMAIN words /\ p = [m \in DOMAIN words |-> p[m]]
      /\ \A m \in DOMAIN words : p[m] = Pair(k, words[m])
  OBVIOUS
<1> HIDE DEF p
<1>2. IsList(p)
  BY <1>1, ListOver
<1>3. ToSet(p) = {Pair(k, words[m]) : m \in DOMAIN words}
  BY <1>1 DEF ToSet
<1>4. \A x \in ToSet(p) : x.key = k
  BY <1>3 DEF Pair
<1>5. ToSet(words) = {words[m] : m \in DOMAIN words}
  BY DEF ToSet
<1>6. ToSet(p) = {Pair(k, w) : w \in ToSet(words)}
  BY <1>3, <1>5
<1>7. \A w : Meant(Pair(k, w)) = {[key |-> k, value |-> <<w>>]}
  BY SaysOne
<1>8. Says(p) = UNION {{[key |-> k, value |-> <<w>>]} : w \in ToSet(words)}
  BY <1>6, <1>7 DEF Says
<1>9. Says(p) = WordsSay(k, words)
  BY <1>8 DEF WordsSay
<1> QED BY <1>2, <1>4, <1>9 DEF p

LEMMA ValuePart ==
  ASSUME NEW s, SearchTyped(s)
  PROVE  /\ Part(MultiValuePairs(s))
         /\ Says(MultiValuePairs(s)) = UNION {ValuesSay(s, f) : f \in FilterField}
<1> DEFINE words(f) == IF Typed(s, f) THEN <<>> ELSE Words(Positive(ValuesOf(s.set, f)))
           part(f) == [m \in DOMAIN words(f) |-> Pair(f, words(f)[m])]
           ss == [n \in DOMAIN FieldMappings |-> part(FieldMappings[n])]
<1>1. \A f : IsList(words(f)) /\ WordsSay(f, words(f)) = ValuesSay(s, f)
  <2>1. \A f : IsList(words(f))
    BY EmptyList, ValuesList, WordsList DEF SearchTyped
  <2>2. \A f : WordsSay(f, <<>>) = {}
    BY EmptyList DEF WordsSay
  <2>3. \A f : WordsSay(f, words(f)) = ValuesSay(s, f)
    BY <2>2 DEF ValuesSay
  <2> QED BY <2>1, <2>3
<1> HIDE DEF words
<1>2. ASSUME NEW f \in FilterField
      PROVE  IsList(part(f)) /\ (\A x \in ToSet(part(f)) : x.key = f) /\ Says(part(f)) = ValuesSay(s, f)
  <2>1. f # "chart"
    BY FieldNames DEF OtherNames
  <2> DEFINE w == words(f)
  <2>2. IsList(w) /\ WordsSay(f, w) = ValuesSay(s, f)
    BY <1>1
  <2> HIDE DEF w
  <2>3. LET p == [m \in DOMAIN w |-> Pair(f, w[m])]
        IN  IsList(p) /\ (\A x \in ToSet(p) : x.key = f) /\ Says(p) = WordsSay(f, w)
    BY <2>1, <2>2, PairsOf
  <2> QED BY <2>2, <2>3 DEF w
<1> HIDE DEF part
<1>3. DOMAIN ss = DOMAIN FieldMappings /\ ss = [n \in DOMAIN FieldMappings |-> ss[n]]
      /\ \A n \in DOMAIN ss : ss[n] = part(FieldMappings[n]) /\ FieldMappings[n] \in FilterField
  BY DEF FilterField, ToSet
<1>4. MultiValuePairs(s) = FlattenSeq(ss)
  BY DEF MultiValuePairs, words, part
<1> HIDE DEF ss
<1>5. IsList(ss) /\ \A n \in DOMAIN ss : IsList(ss[n])
  BY <1>2, <1>3, ListOver, FieldNames
<1> DEFINE all == FlattenSeq(ss)
<1>6. IsList(all) /\ \A x : x \in ToSet(all) <=> \E n \in DOMAIN ss : x \in ToSet(ss[n])
  BY <1>5, FlattenList
<1> HIDE DEF all
<1>7. \A f : f \in FilterField <=> \E n \in DOMAIN ss : f = FieldMappings[n]
  BY <1>3 DEF FilterField, ToSet
<1>8. \A x : x \in ToSet(all) <=> \E f \in FilterField : x \in ToSet(part(f))
  BY <1>3, <1>6, <1>7
<1>9. Chartless(all)
  BY <1>2, <1>8, FieldNames DEF Chartless, OtherNames
<1>10. Says(all) = UNION {Says(part(f)) : f \in FilterField}
  BY <1>8 DEF Says
<1>11. Says(all) = UNION {ValuesSay(s, f) : f \in FilterField}
  BY <1>2, <1>10
<1> QED BY <1>4, <1>6, <1>9, <1>11 DEF Part, all

\* The options of a list, each under its own name.
LEMMA OptionsPart ==
  ASSUME NEW s, SearchTyped(s), NEW names, IsList(names), "chart" \notin ToSet(names)
  PROVE  /\ Part(Options(s, names))
         /\ \A x \in ToSet(Options(s, names)) : x.key \in ToSet(names) /\ x.slot = 0
         /\ Distinct(names) => Single(Options(s, names))
         /\ Says(Options(s, names)) = UNION {OptionSays(s, k) : k \in ToSet(names)}
<1> DEFINE given == Select(names, DOMAIN s.set)
           p == Options(s, names)
<1>1. /\ IsList(given) /\ ToSet(given) = ToSet(names) \cap DOMAIN s.set
      /\ Distinct(names) => Distinct(given)
  BY SelectList, SelectDistinct
<1>2. /\ DOMAIN p = DOMAIN given /\ p = [n \in DOMAIN given |-> p[n]]
      /\ \A n \in DOMAIN given : p[n] = Several(given[n], Words(s.set[given[n]]))
  BY DEF Options
<1> HIDE DEF p, given
<1>3. IsList(p)
  BY <1>1, <1>2, ListOver
<1>4. \A n \in DOMAIN given : p[n].key = given[n] /\ p[n].slot = 0
  BY <1>2 DEF Several
<1>5. ToSet(p) = {Several(k, Words(s.set[k])) : k \in ToSet(names) \cap DOMAIN s.set}
  <2>1. ToSet(p) = {p[n] : n \in DOMAIN given} /\ ToSet(given) = {given[n] : n \in DOMAIN given}
    BY <1>2 DEF ToSet
  <2> DEFINE F(k) == Several(k, Words(s.set[k]))
  <2>2. \A n \in DOMAIN given : p[n] = F(given[n])
    BY <1>2
  <2> HIDE DEF F
  <2>3. ToSet(p) = {F(k) : k \in ToSet(given)}
    BY <2>1, <2>2
  <2> QED BY <1>1, <2>3 DEF F
<1>6. \A x \in ToSet(p) : x.key \in ToSet(names) /\ x.slot = 0
  BY <1>5 DEF Several
<1>7. Chartless(p)
  BY <1>6 DEF Chartless
<1>8. Distinct(names) => Single(p)
  BY <1>1, <1>2, <1>4 DEF Single, Distinct
<1>9. Says(p) = UNION {OptionSays(s, k) : k \in ToSet(names)}
  <2>1. \A k \in ToSet(names) \cap DOMAIN s.set : Meant(Several(k, Words(s.set[k]))) = OptionSays(s, k)
    <3> TAKE k \in ToSet(names) \cap DOMAIN s.set
    <3> DEFINE x == Several(k, Words(s.set[k]))
    <3>1. x.key = k /\ x.value = Words(s.set[k]) /\ k # "chart"
      BY DEF Several
    <3> HIDE DEF x
    <3>2. Meant(x) = WordsSay(k, Words(s.set[k]))
      BY <3>1 DEF Meant, WordsSay
    <3> QED BY <3>2 DEF x, OptionSays
  <2> DEFINE F(k) == Several(k, Words(s.set[k]))
             A == ToSet(names)
             B == DOMAIN s.set
  <2>2. ToSet(p) = {F(k) : k \in A \cap B} /\ \A k \in A \cap B : Meant(F(k)) = OptionSays(s, k)
    BY <1>5, <2>1
  <2>3. \A k \in A : k \notin B => OptionSays(s, k) = {}
    BY DEF OptionSays
  <2> HIDE DEF F, A, B
  <2>4. Says(p) = UNION {OptionSays(s, k) : k \in A \cap B}
    BY <2>2 DEF Says
  <2>5. Says(p) = UNION {OptionSays(s, k) : k \in A}
    BY <2>3, <2>4
  <2> QED BY <2>5 DEF A
<1> QED BY <1>3, <1>6, <1>7, <1>8, <1>9 DEF Part, p

LEMMA IdPart ==
  ASSUME NEW s, SearchTyped(s)
  PROVE  Part(IdPairs(s)) /\ Says(IdPairs(s)) = WordsSay("id", s.ids)
<1> DEFINE p == [m \in DOMAIN s.ids |-> Pair("id", s.ids[m])]
<1>1. IsList(s.ids)
  BY DEF SearchTyped
<1>2. IsList(p) /\ (\A x \in ToSet(p) : x.key = "id") /\ Says(p) = WordsSay("id", s.ids)
  BY <1>1, PairsOf
<1> QED BY <1>2 DEF IdPairs, Part, Chartless

LEMMA DefaultPart ==
  ASSUME NEW s
  PROVE  Part(DefaultFields(s)) /\ Says(DefaultFields(s)) = DefaultSays(s)
<1> DEFINE x == Pair("include_fields", "default")
<1>1. x.key = "include_fields" /\ x = Several("include_fields", <<"default">>)
  BY DEF Pair, Several
<1>2. Says(<<x>>) = WordsSay("include_fields", <<"default">>) /\ Says(<<>>) = {}
  BY <1>1, SaysOne
<1> HIDE DEF x
<1>3. IsList(<<x>>) /\ ToSet(<<x>>) = {x} /\ IsList(<<>>) /\ ToSet(<<>>) = {}
  BY OneList, EmptyList
<1>4. DefaultFields(s) = IF "include_fields" \in DOMAIN s.set THEN <<>> ELSE <<x>>
  BY DEF DefaultFields, x
<1> QED BY <1>1, <1>2, <1>3, <1>4 DEF Part, Chartless, DefaultSays

-----------------------------------------------------------------------------
(* The terms of a request *)

LEMMA TermsListed ==
  ASSUME NEW f, NEW operator, NEW values, IsList(values)
  PROVE  /\ IsList(Terms(f, operator, values))
         /\ values = <<>> => Terms(f, operator, values) = <<>>
<1> DEFINE t == Terms(f, operator, values)
<1>1. DOMAIN t = DOMAIN values /\ t = [n \in DOMAIN values |-> t[n]]
  BY DEF Terms
<1>2. DOMAIN <<>> = {}
  OBVIOUS
<1> HIDE DEF t
<1>3. IsList(t)
  BY <1>1, ListOver
<1> QED BY <1>1, <1>2, <1>3, EmptyList DEF t

LEMMA TermsList ==
  ASSUME NEW s, SearchTyped(s), NEW f
  PROVE  /\ IsList(TermsOf(s, f)) /\ IsList(NegatedTerms(s, f)) /\ IsList(XmlRpcTerms(s, f))
         /\ Negated(ValuesOf(s.set, f)) = <<>> => NegatedTerms(s, f) = <<>>
<1>1. IsList(ValuesOf(s.set, f)) /\ IsList(Negated(ValuesOf(s.set, f)))
  BY ValuesList DEF SearchTyped
<1>2. IsList(NegatedTerms(s, f)) /\ (Negated(ValuesOf(s.set, f)) = <<>> => NegatedTerms(s, f) = <<>>)
  BY <1>1, TermsListed DEF NegatedTerms
<1>3. IsList(Terms(f, MatchTypeFor(s, f), ValuesOf(s.set, f))) /\ IsList(<<>>)
  BY <1>1, TermsListed, EmptyList
<1>4. IsList(Terms(f, NegationOp(f), Negated(ValuesOf(s.set, f))))
  BY <1>1, TermsListed
<1> QED BY <1>2, <1>3, <1>4 DEF TermsOf, XmlRpcTerms

AllTerms(s) == FlattenSeq([n \in DOMAIN FieldMappings |-> TermsOf(s, FieldMappings[n])])
AllNegated(s) == FlattenSeq([n \in DOMAIN FieldMappings |-> NegatedTerms(s, FieldMappings[n])])

\* What is put together field by field has the parts of every field.
LEMMA FieldByField ==
  ASSUME NEW part, \A f \in FilterField : IsList(part[f])
  PROVE  LET all == FlattenSeq([n \in DOMAIN FieldMappings |-> part[FieldMappings[n]]])
         IN  IsList(all) /\ \A x : x \in ToSet(all) <=> \E f \in FilterField : x \in ToSet(part[f])
<1> DEFINE D == DOMAIN FieldMappings
           F(n) == FieldMappings[n]
           ss == [n \in D |-> part[F(n)]]
<1>1. \A f : f \in FilterField <=> \E n \in D : f = F(n)
  BY DEF FilterField, ToSet
<1> HIDE DEF F
<1>2. DOMAIN ss = D /\ ss = [n \in D |-> ss[n]] /\ \A n \in D : ss[n] = part[F(n)]
  OBVIOUS
<1> HIDE DEF ss
<1>3. IsList(ss)
  BY <1>2, FieldNames, ListOver
<1>4. \A n \in D : IsList(ss[n])
  BY <1>1, <1>2
<1>5. IsList(FlattenSeq(ss))
      /\ \A x : x \in ToSet(FlattenSeq(ss)) <=> \E n \in D : x \in ToSet(ss[n])
  BY <1>2, <1>3, <1>4, FlattenList
<1> HIDE DEF D
<1>6. \A x : (\E n \in D : x \in ToSet(ss[n])) <=> \E f \in FilterField : x \in ToSet(part[f])
  BY <1>1, <1>2
<1> QED BY <1>5, <1>6 DEF ss, D, F

LEMMA AllTermsLists ==
  ASSUME NEW s, SearchTyped(s)
  PROVE  /\ IsList(AllTerms(s)) /\ IsList(AllNegated(s))
         /\ \A x : x \in ToSet(AllTerms(s)) <=> \E f \in FilterField : x \in ToSet(TermsOf(s, f))
         /\ \A x : x \in ToSet(AllNegated(s)) <=>
                     \E f \in FilterField : x \in ToSet(NegatedTerms(s, f))
<1> DEFINE terms == [f \in FilterField |-> TermsOf(s, f)]
           negated == [f \in FilterField |-> NegatedTerms(s, f)]
           all(part) == FlattenSeq([n \in DOMAIN FieldMappings |-> part[FieldMappings[n]]])
<1>1. \A n \in DOMAIN FieldMappings : FieldMappings[n] \in FilterField
  BY DEF FilterField, ToSet
<1>2. AllTerms(s) = all(terms) /\ AllNegated(s) = all(negated)
  BY <1>1 DEF AllTerms, AllNegated
<1>3. \A f \in FilterField : /\ terms[f] = TermsOf(s, f) /\ IsList(terms[f])
                            /\ negated[f] = NegatedTerms(s, f) /\ IsList(negated[f])
  BY TermsList
<1> HIDE DEF terms, negated
<1>4. IsList(all(terms))
      /\ \A x : x \in ToSet(all(terms)) <=> \E f \in FilterField : x \in ToSet(terms[f])
  BY <1>3, FieldByField
<1>5. IsList(all(negated))
      /\ \A x : x \in ToSet(all(negated)) <=> \E f \in FilterField : x \in ToSet(negated[f])
  BY <1>3, FieldByField
<1> HIDE DEF all
<1> QED BY <1>2, <1>3, <1>4, <1>5

\* The terms of a search over REST stand in slots from 1 on, negated or not.
RestTerms(s) == Slots(1, AllTerms(s) \o AllNegated(s))

LEMMA TermsTyped ==
  ASSUME NEW s, SearchTyped(s)
  PROVE  IsList(RestTerms(s)) /\ SlotsDistinct(RestTerms(s))
<1> DEFINE t == AllTerms(s) \o AllNegated(s)
<1>1. IsList(t)
  BY AllTermsLists, ConcatList
<1> HIDE DEF t
<1>2. IsList(Slots(1, t)) /\ SlotsDistinct(Slots(1, t))
  BY <1>1, OwnSlots
<1> QED BY <1>2 DEF RestTerms, t

LEMMA RestForm ==
  ASSUME NEW s, SearchTyped(s)
  PROVE  RestRequest(s) =
           ((((MultiValuePairs(s) \o RestTerms(s)) \o Options(s, OptionFields))
              \o IdPairs(s)) \o s.raw) \o DefaultFields(s)
<1> DEFINE m == MultiValuePairs(s)
           a == ExplicitPairs(s)
           b == NegatedPairs(s)
<1>1. a = Slots(1, AllTerms(s)) /\ b = Slots(1 + Len(a), AllNegated(s))
  BY DEF ExplicitPairs, NegatedPairs, AllTerms, AllNegated
<1>2. IsList(AllTerms(s)) /\ IsList(AllNegated(s)) /\ IsList(m)
  BY AllTermsLists, ValuePart DEF Part
<1>3. a \o b = RestTerms(s)
  BY <1>1, <1>2, SlotsGoOn DEF RestTerms
<1>4. IsList(a) /\ IsList(b)
  <2> HIDE DEF a, b
  <2>1. IsList(a) /\ Len(a) \in Nat
    BY <1>1, <1>2, OwnSlots, ListForm
  <2>2. 1 + Len(a) \in Nat
    BY <2>1
  <2>3. IsList(b)
    BY <1>1, <1>2, <2>2, OwnSlots
  <2> QED BY <2>1, <2>3
<1> HIDE DEF m, a, b
<1>5. (m \o a) \o b = m \o RestTerms(s)
  <2>1. (m \o a) \o b = m \o (a \o b)
    BY <1>2, <1>4, ConcatsAlike
  <2> QED BY <1>3, <2>1
<1>6. RestRequest(s) = (((((m \o a) \o b) \o Options(s, OptionFields)) \o IdPairs(s)) \o s.raw)
                         \o DefaultFields(s)
  BY DEF RestRequest, m, a, b
<1> QED BY <1>5, <1>6 DEF m

\* A search that REST does not refuse has charts of its own, or those of its URL.
LEMMA OneKindOfChart ==
  ASSUME NEW s, SearchTyped(s), ~RestRefuses(s)
  PROVE  Chartless(s.raw) \/ RestTerms(s) = <<>>
<1> SUFFICES ASSUME ~Chartless(s.raw) PROVE RestTerms(s) = <<>>
  OBVIOUS
<1>1. HasRawCharts(s)
  BY DEF Chartless, HasRawCharts, ToSet
<1>2. s.raw # <<>>
  BY EmptyList DEF Chartless
<1>3. \A f : ~Typed(s, f)
  BY <1>2 DEF SearchTyped, Typed
<1>4. \A f \in FilterField : Negated(ValuesOf(s.set, f)) = <<>>
  BY <1>1 DEF RestRefuses, HasNegatedFilters
<1>5. \A f \in FilterField : TermsOf(s, f) = <<>> /\ NegatedTerms(s, f) = <<>>
  BY <1>3, <1>4, TermsList DEF TermsOf
<1>6. AllTerms(s) = <<>> /\ AllNegated(s) = <<>>
  <2>1. /\ IsList(AllTerms(s)) /\ IsList(AllNegated(s))
        /\ \A x : x \in ToSet(AllTerms(s)) <=> \E f \in FilterField : x \in ToSet(TermsOf(s, f))
        /\ \A x : x \in ToSet(AllNegated(s)) <=>
                    \E f \in FilterField : x \in ToSet(NegatedTerms(s, f))
    BY AllTermsLists
  <2>2. ToSet(AllTerms(s)) = {} /\ ToSet(AllNegated(s)) = {}
    BY <1>5, <2>1, EmptyList
  <2> QED BY <2>1, <2>2, EmptyList
<1>7. AllTerms(s) \o AllNegated(s) = <<>>
  BY <1>6
<1>8. RestTerms(s) = Slots(1, <<>>)
  BY <1>7 DEF RestTerms
<1> DEFINE t == Slots(1, <<>>)
<1>9. IsList(t) /\ DOMAIN t = {}
  BY EmptyList, OwnSlots DEF Slots
<1> HIDE DEF t
<1> QED BY <1>8, <1>9, EmptyList DEF t

LEMMA RestApart ==
  ASSUME NEW s, SearchTyped(s), ~RestRefuses(s)
  PROVE  SlotsDistinct(RestRequest(s))
<1> DEFINE m == MultiValuePairs(s)
           c == RestTerms(s)
           o == Options(s, OptionFields)
           i == IdPairs(s)
           d == DefaultFields(s)
           p == ((m \o c) \o o) \o i
<1>1. Part(m) /\ Part(o) /\ Part(i) /\ Part(d)
  BY ValuePart, OptionsPart, OptionNames, IdPart, DefaultPart
<1>2. IsList(c) /\ SlotsDistinct(c)
  BY TermsTyped
<1>3. IsList(s.raw) /\ SlotsDistinct(s.raw)
  BY DEF SearchTyped
<1>4. Chartless(s.raw) \/ c = <<>>
  BY OneKindOfChart
<1>5. RestRequest(s) = (p \o s.raw) \o d
  BY RestForm
<1> HIDE DEF m, c, o, i, d
<1> DEFINE a == m \o c
           b == a \o o
<1>6. IsList(a) /\ SlotsDistinct(a) /\ (c = <<>> => Chartless(a))
  BY <1>1, <1>2, ChartsBeside, ConcatList, ChartlessConcat, EmptyList DEF Part, Chartless
<1> HIDE DEF a
<1>7. IsList(b) /\ SlotsDistinct(b) /\ (c = <<>> => Chartless(b))
  BY <1>1, <1>6, ChartsBeside, ConcatList, ChartlessConcat DEF Part
<1> HIDE DEF b
<1>8. IsList(p) /\ SlotsDistinct(p) /\ (c = <<>> => Chartless(p))
  <2>1. p = b \o i
    BY DEF a, b
  <2> HIDE DEF p
  <2> QED BY <1>1, <1>7, <2>1, ChartsBeside, ConcatList, ChartlessConcat DEF Part
<1> HIDE DEF p
<1> DEFINE q == p \o s.raw
<1>9. IsList(q) /\ SlotsDistinct(q)
  BY <1>3, <1>4, <1>8, ChartsBeside, ConcatList
<1> HIDE DEF q
<1>10. SlotsDistinct(q \o d)
  BY <1>1, <1>9, ChartsBeside DEF Part
<1> QED BY <1>5, <1>10 DEF q

-----------------------------------------------------------------------------
(* The struct of a request over XML-RPC *)

\* Parts under names of a set, none of which replaces another.
Keyed(r, names) == IsList(r) /\ Single(r) /\ \A x \in ToSet(r) : x.key \in names

LEMMA KeyedConcat ==
  ASSUME NEW s, NEW t, NEW A, NEW B, Keyed(s, A), Keyed(t, B), A \cap B = {}
  PROVE  Keyed(s \o t, A \cup B) /\ Says(s \o t) = Says(s) \cup Says(t)
<1>1. \A x \in ToSet(s), y \in ToSet(t) : ~(x.key = y.key /\ x.slot = y.slot)
  BY DEF Keyed
<1>2. Single(s \o t)
  BY <1>1, SingleConcat DEF Keyed
<1>3. IsList(s \o t) /\ ToSet(s \o t) = ToSet(s) \cup ToSet(t)
  BY ConcatList DEF Keyed
<1>4. Says(s \o t) = Says(s) \cup Says(t)
  BY SaysConcat DEF Keyed
<1> QED BY <1>2, <1>3, <1>4 DEF Keyed

LEMMA KeyedOne ==
  ASSUME NEW k, k # "chart", NEW words
  PROVE  LET r == <<Several(k, words)>>
         IN  Keyed(r, {k}) /\ (\A x \in ToSet(r) : x.slot = 0) /\ Says(r) = WordsSay(k, words)
<1> DEFINE x == Several(k, words)
<1>1. x.key = k /\ x.slot = 0
  BY DEF Several
<1>2. Says(<<x>>) = WordsSay(k, words)
  BY SaysOne
<1> HIDE DEF x
<1>3. IsList(<<x>>) /\ ToSet(<<x>>) = {x} /\ Single(<<x>>)
  BY OneList, SingleOne
<1>4. Keyed(<<x>>, {k}) /\ \A y \in ToSet(<<x>>) : y.slot = 0
  BY <1>1, <1>3 DEF Keyed
<1> QED BY <1>2, <1>4 DEF x

LEMMA KeyedNone ==
  ASSUME NEW names
  PROVE  Keyed(<<>>, names) /\ Says(<<>>) = {} /\ ToSet(<<>>) = {}
  BY EmptyList, SingleOne, SaysOne DEF Keyed

\* What a field's values say, matched, negated or neither.
FilterSays(s, f) ==
  ValuesSay(s, f) \cup {[key |-> "chart", value |-> v] : v \in ToSet(XmlRpcTerms(s, f))}

LEMMA ArrayPart ==
  ASSUME NEW s, SearchTyped(s), NEW f \in FilterField
  PROVE  /\ Keyed(XmlRpcArray(s, f), {f}) /\ \A x \in ToSet(XmlRpcArray(s, f)) : x.slot = 0
         /\ Says(XmlRpcArray(s, f)) = ValuesSay(s, f)
<1> DEFINE words == Words(Positive(ValuesOf(s.set, f)))
           some == <<Several(f, words)>>
<1>1. f # "chart"
  BY FieldNames DEF OtherNames
<1>2. XmlRpcArray(s, f) = IF Typed(s, f) \/ words = <<>> THEN <<>> ELSE some
  BY DEF XmlRpcArray
<1>3. Keyed(some, {f}) /\ (\A x \in ToSet(some) : x.slot = 0) /\ Says(some) = WordsSay(f, words)
  BY <1>1, KeyedOne
<1>4. Keyed(<<>>, {f}) /\ Says(<<>>) = {} /\ ToSet(<<>>) = {}
  BY KeyedNone
<1>5. WordsSay(f, <<>>) = {}
  BY EmptyList DEF WordsSay
<1>6. ValuesSay(s, f) = IF Typed(s, f) THEN {} ELSE WordsSay(f, words)
  BY DEF ValuesSay
<1> HIDE DEF words, some
<1>7. CASE Typed(s, f) \/ words = <<>>
  BY <1>2, <1>4, <1>5, <1>6, <1>7
<1>8. CASE ~(Typed(s, f) \/ words = <<>>)
  BY <1>2, <1>3, <1>6, <1>8
<1> QED BY <1>7, <1>8

LEMMA SlotsPart ==
  ASSUME NEW t, IsList(t), NEW k \in Nat
  PROVE  /\ Keyed(Slots(k, t), {"chart"})
         /\ \A x \in ToSet(Slots(k, t)) :
              /\ x.slot \in Nat /\ k <= x.slot /\ x.slot < k + Len(t)
              /\ \E v \in ToSet(t) : x = Chart(x.slot, v)
         /\ Says(Slots(k, t)) = {[key |-> "chart", value |-> v] : v \in ToSet(t)}
<1> DEFINE c == Slots(k, t)
<1>1. Len(t) \in Nat /\ DOMAIN t = 1..Len(t)
  BY ListForm
<1>2. /\ IsList(c) /\ Len(c) = Len(t) /\ SlotsDistinct(c)
      /\ \A n \in 1..Len(t) : c[n] = Chart(k + n - 1, t[n])
  BY OwnSlots
<1> HIDE DEF c
<1>3. DOMAIN c = DOMAIN t
  BY <1>1, <1>2, ListForm
<1>4. \A n \in DOMAIN t : c[n].key = "chart" /\ c[n].slot = k + n - 1 /\ c[n].value = t[n]
                          /\ c[n] = Chart(c[n].slot, t[n])
  <2> TAKE n \in DOMAIN t
  <2>1. c[n] = Chart(k + n - 1, t[n])
    BY <1>1, <1>2
  <2>2. c[n].key = "chart" /\ c[n].slot = k + n - 1 /\ c[n].value = t[n]
    BY <2>1 DEF Chart
  <2> QED BY <2>1, <2>2
<1>5. ToSet(c) = {c[n] : n \in DOMAIN t} /\ ToSet(t) = {t[n] : n \in DOMAIN t}
  BY <1>3 DEF ToSet
<1>6. \A n \in DOMAIN t : k + n - 1 \in Nat /\ k <= k + n - 1 /\ k + n - 1 < k + Len(t)
  BY <1>1
<1>7. Single(c)
  BY <1>2, <1>3, <1>4 DEF Single, SlotsDistinct
<1>8. \A n \in DOMAIN t : Meant(c[n]) = {[key |-> "chart", value |-> t[n]]}
  BY <1>4 DEF Meant
<1>9. Says(c) = UNION {{[key |-> "chart", value |-> t[n]]} : n \in DOMAIN t}
  BY <1>5, <1>8 DEF Says
<1>10. Says(c) = {[key |-> "chart", value |-> v] : v \in ToSet(t)}
  BY <1>5, <1>9
<1>11. \A x \in ToSet(c) : /\ x.slot \in Nat /\ k <= x.slot /\ x.slot < k + Len(t)
                           /\ \E v \in ToSet(t) : x = Chart(x.slot, v)
  <2> TAKE x \in ToSet(c)
  <2>1. PICK n \in DOMAIN t : x = c[n]
    BY <1>5
  <2> QED BY <1>4, <1>5, <1>6, <2>1
<1>12. Keyed(c, {"chart"})
  BY <1>2, <1>4, <1>5, <1>7 DEF Keyed
<1> QED BY <1>10, <1>11, <1>12 DEF c

\* What has been put together after the first n fields: their arrays, and their
\* terms in the slots before chart_idx.
Added(s, at, n) ==
  /\ IsList(at.members) /\ Single(at.members) /\ at.chart_idx \in Nat
  /\ \A x \in ToSet(at.members) :
       \/ x.key = "chart" /\ x.slot \in Nat /\ x.slot < at.chart_idx
       \/ \E m \in 1..n : x.key = FieldMappings[m]
  /\ Says(at.members) = UNION {FilterSays(s, FieldMappings[m]) : m \in 1..n}

LEMMA AddStep ==
  ASSUME NEW s, SearchTyped(s), NEW n \in 1..16, NEW at, Added(s, at, n - 1)
  PROVE  Added(s, AddField(s, FieldMappings[n], at), n)
<1> DEFINE f == FieldMappings[n]
           t == XmlRpcTerms(s, f)
           a == XmlRpcArray(s, f)
           k == at.chart_idx
           c == Slots(k, t)
           u == at.members \o a
           new == AddField(s, f, at)
<1>1. f \in FilterField /\ f # "chart" /\ \A m \in 1..(n - 1) : f # FieldMappings[m]
  <2>1. f \in FilterField
    BY FieldNames DEF ToSet
  <2>2. \A m \in 1..(n - 1) : m \in 1..16 /\ m # n
    OBVIOUS
  <2>3. \A m \in 1..(n - 1) : f # FieldMappings[m]
    BY <2>2, FieldNames DEF Distinct
  <2> QED BY <2>1, <2>3, FieldNames DEF OtherNames
<1>2. IsList(t) /\ Len(t) \in Nat /\ k \in Nat
  BY TermsList, ListForm DEF Added
<1>3. Keyed(a, {f}) /\ (\A x \in ToSet(a) : x.slot = 0) /\ Says(a) = ValuesSay(s, f)
  BY <1>1, ArrayPart
<1>4. /\ Keyed(c, {"chart"})
      /\ \A x \in ToSet(c) : x.slot \in Nat /\ k <= x.slot /\ x.slot < k + Len(t)
      /\ Says(c) = {[key |-> "chart", value |-> v] : v \in ToSet(t)}
  BY <1>2, SlotsPart
<1>5. new.members = u \o c /\ new.chart_idx = k + Len(t)
  BY DEF AddField
<1>6. FilterSays(s, f) = Says(a) \cup Says(c)
  BY <1>3, <1>4 DEF FilterSays
<1> DEFINE F(m) == FieldMappings[m]
           old == at.members
<1>7. /\ IsList(old) /\ Single(old)
      /\ \A x \in ToSet(old) : (x.key = "chart" /\ x.slot \in Nat /\ x.slot < k)
                               \/ \E m \in 1..(n - 1) : x.key = F(m)
      /\ Says(old) = UNION {FilterSays(s, F(m)) : m \in 1..(n - 1)}
      /\ f = F(n) /\ \A m \in 1..(n - 1) : f # F(m)
  BY <1>1 DEF Added
<1> HIDE DEF f, t, a, k, c, new, F, old
<1>8. /\ IsList(u) /\ Single(u) /\ ToSet(u) = ToSet(old) \cup ToSet(a)
      /\ Says(u) = Says(old) \cup Says(a)
  <2>1. IsList(a) /\ Single(a) /\ \A y \in ToSet(a) : y.key = f
    BY <1>3 DEF Keyed
  <2>2. \A x \in ToSet(old), y \in ToSet(a) : ~(x.key = y.key /\ x.slot = y.slot)
    BY <1>1, <1>7, <2>1
  <2> QED BY <1>7, <2>1, <2>2, SingleConcat, ConcatList, SaysConcat DEF old
<1> HIDE DEF u
<1> DEFINE v == u \o c
<1>9. /\ IsList(v) /\ Single(v) /\ ToSet(v) = ToSet(u) \cup ToSet(c)
      /\ Says(v) = Says(u) \cup Says(c)
  <2>1. IsList(c) /\ Single(c) /\ \A y \in ToSet(c) : y.key = "chart"
    BY <1>4 DEF Keyed
  <2>2. \A m \in 1..(n - 1) : F(m) # "chart"
    <3>1. \A m \in 1..(n - 1) : m \in DOMAIN FieldMappings
      BY FieldNames
    <3>2. \A m \in DOMAIN FieldMappings : FieldMappings[m] \in FilterField
      BY FieldNames DEF ToSet
    <3> QED BY <3>1, <3>2, FieldNames DEF F, OtherNames
  <2>3. \A x \in ToSet(u), y \in ToSet(c) : ~(x.key = y.key /\ x.slot = y.slot)
    <3> TAKE x \in ToSet(u), y \in ToSet(c)
    <3> SUFFICES ASSUME x.key = "chart", x.slot = y.slot PROVE FALSE
      BY <2>1
    <3>1. x \in ToSet(old)
      BY <1>1, <1>3, <1>8 DEF Keyed
    <3>2. x.slot \in Nat /\ x.slot < k
      BY <1>7, <2>2, <3>1
    <3>3. y.slot \in Nat /\ k <= y.slot
      BY <1>4
    <3> QED BY <1>2, <3>2, <3>3
  <2> QED BY <1>8, <2>1, <2>3, SingleConcat, ConcatList, SaysConcat
<1> HIDE DEF v
<1>10. new.chart_idx \in Nat /\ k <= new.chart_idx /\ new.members = v
  BY <1>2, <1>5 DEF v
<1>11. ASSUME NEW x \in ToSet(v)
       PROVE  \/ x.key = "chart" /\ x.slot \in Nat /\ x.slot < new.chart_idx
              \/ \E m \in 1..n : x.key = F(m)
  <2>1. x \in ToSet(old) \/ x \in ToSet(a) \/ x \in ToSet(c)
    BY <1>8, <1>9
  <2>2. CASE x \in ToSet(old)
    <3>1. CASE x.key = "chart" /\ x.slot \in Nat /\ x.slot < k
      BY <1>2, <1>10, <3>1
    <3>2. CASE \E m \in 1..(n - 1) : x.key = F(m)
      BY <3>2
    <3> QED BY <1>7, <2>2, <3>1, <3>2
  <2>3. CASE x \in ToSet(a)
    BY <1>3, <1>7, <2>3 DEF Keyed
  <2>4. CASE x \in ToSet(c)
    BY <1>4, <1>5, <2>4 DEF Keyed
  <2> QED BY <2>1, <2>2, <2>3, <2>4
<1>12. Says(v) = UNION {FilterSays(s, F(m)) : m \in 1..n}
  <2> DEFINE G(m) == FilterSays(s, F(m))
             U(S) == UNION {G(m) : m \in S}
  <2>1. Says(v) = Says(old) \cup (Says(a) \cup Says(c)) /\ Says(old) = U(1..(n - 1))
    BY <1>7, <1>8, <1>9
  <2>2. G(n) = Says(a) \cup Says(c)
    BY <1>6, <1>7
  <2>3. \A m : m \in 1..n <=> m \in 1..(n - 1) \/ m = n
    OBVIOUS
  <2> HIDE DEF G
  <2>4. \A S : \A x : x \in U(S) <=> \E m \in S : x \in G(m)
    OBVIOUS
  <2> HIDE DEF U
  <2>5. U(1..n) = U(1..(n - 1)) \cup G(n)
    BY <2>3, <2>4
  <2>6. Says(v) = U(1..n)
    BY <2>1, <2>2, <2>5
  <2> QED BY <2>6 DEF G, U
<1>13. Added(s, new, n)
  BY <1>9, <1>10, <1>11, <1>12 DEF Added, F
<1> QED BY <1>13 DEF new, f

\* The parts there can be, so that there is a struct at all.
LEMMA StepsTyped ==
  ASSUME NEW s, SearchTyped(s)
  PROVE  \E P : \A n \in 1..16 : \A at \in [members : Seq(P), chart_idx : Nat] :
           AddField(s, FieldMappings[n], at) \in [members : Seq(P), chart_idx : Nat]
<1> DEFINE T == UNION {ToSet(XmlRpcTerms(s, f)) : f \in FilterField}
           C == {Chart(k, v) : k \in Nat, v \in T}
           P == C \cup UNION {ToSet(XmlRpcArray(s, f)) : f \in FilterField}
           X == [members : Seq(P), chart_idx : Nat]
<1>1. ASSUME NEW n \in 1..16, NEW at \in X
      PROVE  AddField(s, FieldMappings[n], at) \in X
  <2> DEFINE f == FieldMappings[n]
             t == XmlRpcTerms(s, f)
             a == XmlRpcArray(s, f)
             c == Slots(at.chart_idx, t)
             new == AddField(s, f, at)
  <2>1. f \in FilterField
    BY FieldNames DEF ToSet
  <2>2. IsList(t) /\ Len(t) \in Nat /\ ToSet(t) \subseteq T
    BY <2>1, TermsList, ListForm
  <2>3. IsList(a) /\ ToSet(a) \subseteq P
    BY <2>1, ArrayPart DEF Keyed
  <2>4. at.chart_idx \in Nat /\ at.members \in Seq(P)
    OBVIOUS
  <2>5. IsList(c) /\ ToSet(c) \subseteq C
    <3>1. IsList(c) /\ \A x \in ToSet(c) : x.slot \in Nat /\ \E v \in ToSet(t) : x = Chart(x.slot, v)
      BY <2>2, <2>4, SlotsPart DEF Keyed
    <3> HIDE DEF T, c, t
    <3> QED BY <2>2, <3>1
  <2>6. new = [members |-> at.members \o a \o c, chart_idx |-> at.chart_idx + Len(t)]
    BY DEF AddField
  <2> DEFINE A == ToSet(a)
             D == ToSet(c)
  <2>7. a \in Seq(A) /\ c \in Seq(D) /\ A \subseteq P /\ D \subseteq P
    BY <2>3, <2>5 DEF IsList
  <2> HIDE DEF a, c, t, P, A, D, new
  <2>8. a \in Seq(P) /\ c \in Seq(P)
    BY <2>7
  <2>9. at.members \o a \o c \in Seq(P)
    BY <2>4, <2>8
  <2>10. at.chart_idx + Len(t) \in Nat
    BY <2>2, <2>4
  <2>11. new \in X
    BY <2>6, <2>9, <2>10
  <2> QED BY <2>11 DEF new, f
<1> HIDE DEF P
<1> QED BY <1>1

\* at is what VecFilters has put together after each field.
Adds(at, s) ==
  at = [n \in 0..Len(FieldMappings) |->
          IF n = 0 THEN [members |-> <<>>, chart_idx |-> 1]
          ELSE AddField(s, FieldMappings[n], at[n - 1])]

LEMMA AddsExists ==
  ASSUME NEW s, SearchTyped(s)
  PROVE  \E at : Adds(at, s) /\ VecFilters(s) = at[16].members
<1>1. PICK P : \A n \in 1..16 : \A at \in [members : Seq(P), chart_idx : Nat] :
                 AddField(s, FieldMappings[n], at) \in [members : Seq(P), chart_idx : Nat]
  BY StepsTyped
<1> DEFINE X == [members : Seq(P), chart_idx : Nat]
           none == [members |-> <<>>, chart_idx |-> 1]
           D == [x \in X \X (1..16) |-> AddField(s, FieldMappings[x[2]], x[1])]
<1>2. none \in X
  OBVIOUS
<1>3. D \in [X \X (1..16) -> X]
  <2>1. \A x \in X \X (1..16) : x[1] \in X /\ x[2] \in 1..16
    OBVIOUS
  <2>2. \A x \in X \X (1..16) : D[x] \in X
    BY <1>1, <2>1
  <2> HIDE DEF X
  <2> QED BY <2>2
<1>4. \A at \in X, n \in 1..16 : D[<<at, n>>] = AddField(s, FieldMappings[n], at)
  <2> HIDE DEF X
  <2> QED OBVIOUS
<1> HIDE DEF X, none, D
<1>5. PICK f : Iterates(f, X, none, 16, D)
  BY <1>2, <1>3, IterationExists
<1>6. ASSUME NEW n \in 0..16
      PROVE  f[n] = IF n = 0 THEN none ELSE AddField(s, FieldMappings[n], f[n - 1])
  <2>1. CASE n = 0
    BY <1>5, <2>1 DEF Iterates
  <2>2. CASE n # 0
    <3>1. n \in 1..16 /\ n - 1 \in 0..16
      BY <2>2
    <3>2. f[n - 1] \in X /\ f[n] = D[<<f[n - 1], n>>]
      BY <1>5, <3>1 DEF Iterates
    <3> QED BY <1>4, <2>2, <3>1, <3>2
  <2> QED BY <2>1, <2>2
<1>7. f = [n \in 0..16 |-> f[n]]
  BY <1>5 DEF Iterates
<1>8. Len(FieldMappings) = 16
  BY FieldNames
<1>9. Adds(f, s)
  BY <1>6, <1>7, <1>8 DEF Adds, none
<1>10. VecFilters(s) = (CHOOSE g : Adds(g, s))[Len(FieldMappings)].members
  BY DEF VecFilters, Adds
<1> QED BY <1>8, <1>9, <1>10

\* The filters of a struct say what the fields say, and none replaces another.
LEMMA VecFiltersPart ==
  ASSUME NEW s, SearchTyped(s)
  PROVE  /\ Keyed(VecFilters(s), FilterField \cup {"chart"})
         /\ Says(VecFilters(s)) = UNION {FilterSays(s, f) : f \in FilterField}
<1>1. PICK at : Adds(at, s) /\ VecFilters(s) = at[16].members
  BY AddsExists
<1>2. \A n \in 0..16 : at[n] = IF n = 0 THEN [members |-> <<>>, chart_idx |-> 1]
                               ELSE AddField(s, FieldMappings[n], at[n - 1])
  <2>1. Len(FieldMappings) = 16
    BY FieldNames
  <2>2. at = [n \in 0..16 |-> IF n = 0 THEN [members |-> <<>>, chart_idx |-> 1]
                              ELSE AddField(s, FieldMappings[n], at[n - 1])]
    BY <1>1, <2>1 DEF Adds
  <2> QED BY <2>2
<1> DEFINE T == {n \in Nat : n <= 16 => Added(s, at[n], n)}
<1>3. 0 \in T
  <2>1. at[0].members = <<>> /\ at[0].chart_idx = 1
    BY <1>2
  <2>2. Added(s, at[0], 0)
    BY <2>1, EmptyList, SingleOne, SaysOne DEF Added
  <2> QED BY <2>2
<1>4. ASSUME NEW n \in Nat, n \in T PROVE n + 1 \in T
  <2> SUFFICES ASSUME n + 1 <= 16 PROVE Added(s, at[n + 1], n + 1)
    OBVIOUS
  <2>1. n + 1 \in 1..16 /\ n + 1 \in 0..16 /\ n + 1 # 0 /\ (n + 1) - 1 = n /\ n <= 16
    OBVIOUS
  <2>2. Added(s, at[n], n) /\ at[n + 1] = AddField(s, FieldMappings[n + 1], at[n])
    BY <1>2, <1>4, <2>1
  <2>3. Added(s, AddField(s, FieldMappings[n + 1], at[n]), n + 1)
    BY <2>1, <2>2, AddStep
  <2> QED BY <2>2, <2>3
<1>5. 16 \in T
  <2> HIDE DEF T
  <2> QED BY <1>3, <1>4, Induct
<1> DEFINE r == at[16].members
<1>6. Added(s, at[16], 16)
  BY <1>5
<1>7. FilterField = {FieldMappings[m] : m \in 1..16}
  BY FieldNames DEF ToSet
<1>8. Keyed(r, FilterField \cup {"chart"})
  BY <1>6, <1>7 DEF Keyed, Added
<1>9. Says(r) = UNION {FilterSays(s, f) : f \in FilterField}
  <2> DEFINE F(m) == FieldMappings[m]
             G(f) == FilterSays(s, f)
  <2>1. Says(r) = UNION {G(F(m)) : m \in 1..16} /\ FilterField = {F(m) : m \in 1..16}
    BY <1>6, <1>7 DEF Added
  <2> HIDE DEF F, G, r
  <2>2. Says(r) = UNION {G(f) : f \in FilterField}
    BY <2>1
  <2> QED BY <2>2 DEF G
<1> QED BY <1>1, <1>8, <1>9

LEMMA OptionsKeyed ==
  ASSUME NEW s, SearchTyped(s), NEW names, IsList(names), "chart" \notin ToSet(names), Distinct(names)
  PROVE  /\ Keyed(Options(s, names), ToSet(names))
         /\ Says(Options(s, names)) = UNION {OptionSays(s, k) : k \in ToSet(names)}
<1>1. /\ Part(Options(s, names)) /\ Single(Options(s, names))
      /\ \A x \in ToSet(Options(s, names)) : x.key \in ToSet(names)
      /\ Says(Options(s, names)) = UNION {OptionSays(s, k) : k \in ToSet(names)}
  BY OptionsPart
<1> QED BY <1>1 DEF Keyed, Part

LEMMA FieldListsPart ==
  ASSUME NEW s, SearchTyped(s)
  PROVE  /\ Keyed(FieldLists(s), {"include_fields", "exclude_fields"})
         /\ Says(FieldLists(s)) =
              OptionSays(s, "include_fields") \cup DefaultSays(s) \cup OptionSays(s, "exclude_fields")
<1> DEFINE words == IF "include_fields" \in DOMAIN s.set THEN Words(s.set["include_fields"])
                    ELSE <<"default">>
           a == <<Several("include_fields", words)>>
           names == <<"exclude_fields">>
           b == Options(s, names)
<1>1. Keyed(a, {"include_fields"}) /\ Says(a) = WordsSay("include_fields", words)
  BY KeyedOne
<1>2. WordsSay("include_fields", words) = OptionSays(s, "include_fields") \cup DefaultSays(s)
  BY DEF OptionSays, DefaultSays
<1>3. IsList(names) /\ Distinct(names) /\ ToSet(names) = {"exclude_fields"}
  BY OptionNames
<1>4. FieldLists(s) = a \o b
  BY DEF FieldLists
<1> HIDE DEF a, names, words
<1>5. /\ Keyed(b, ToSet(names))
      /\ Says(b) = UNION {OptionSays(s, k) : k \in ToSet(names)}
  <2>1. "chart" \notin ToSet(names)
    BY <1>3
  <2> QED BY <1>3, <2>1, OptionsKeyed
<1>6. Keyed(b, {"exclude_fields"}) /\ Says(b) = OptionSays(s, "exclude_fields")
  BY <1>3, <1>5
<1> HIDE DEF b
<1>7. {"include_fields"} \cap {"exclude_fields"} = {}
      /\ {"include_fields"} \cup {"exclude_fields"} = {"include_fields", "exclude_fields"}
  OBVIOUS
<1>8. Keyed(a \o b, {"include_fields"} \cup {"exclude_fields"}) /\ Says(a \o b) = Says(a) \cup Says(b)
  BY <1>1, <1>6, <1>7, KeyedConcat
<1> QED BY <1>1, <1>2, <1>4, <1>6, <1>7, <1>8

LEMMA IdsPart ==
  ASSUME NEW s
  PROVE  Keyed(IdsArray(s), {"ids"}) /\ Says(IdsArray(s)) = WordsSay("ids", s.ids)
<1> DEFINE a == <<Several("ids", s.ids)>>
<1>1. Keyed(a, {"ids"}) /\ Says(a) = WordsSay("ids", s.ids)
  BY KeyedOne
<1>2. Keyed(<<>>, {"ids"}) /\ Says(<<>>) = {}
  BY KeyedNone
<1>3. WordsSay("ids", <<>>) = {}
  BY EmptyList DEF WordsSay
<1>4. IdsArray(s) = IF s.ids = <<>> THEN <<>> ELSE a
  BY DEF IdsArray
<1> HIDE DEF a
<1>5. CASE s.ids = <<>>
  BY <1>2, <1>3, <1>4, <1>5
<1>6. CASE s.ids # <<>>
  BY <1>1, <1>4, <1>6
<1> QED BY <1>5, <1>6

\* What a search says of its fields and options, but for its order and its ids.
FiltersSay(s) == UNION {FilterSays(s, f) : f \in FilterField}
OptionsSay(s, names) == UNION {OptionSays(s, k) : k \in names}
SearchSays(s) ==
  FiltersSay(s) \cup OptionsSay(s, ToSet(OptionFields) \ {"order"}) \cup DefaultSays(s)

LEMMA SayEach ==
  ASSUME NEW s
  PROVE  /\ \A z : z \in FiltersSay(s) <=> \E f \in FilterField : z \in FilterSays(s, f)
         /\ \A names, z : z \in OptionsSay(s, names) <=> \E k \in names : z \in OptionSays(s, k)
  BY DEF FiltersSay, OptionsSay

LEMMA XmlRpcPart ==
  ASSUME NEW s, SearchTyped(s)
  PROVE  /\ IsList(XmlRpcRequest(s)) /\ Single(XmlRpcRequest(s))
         /\ Says(XmlRpcRequest(s)) = SearchSays(s) \cup WordsSay("ids", s.ids)
<1> DEFINE a == VecFilters(s)
           b == Options(s, TextOptions)
           c == IdsArray(s)
           d == Options(s, NumberOptions)
           e == FieldLists(s)
           A == FilterField \cup {"chart"}
           B == ToSet(TextOptions)
           C == {"ids"}
           D == ToSet(NumberOptions)
           E == {"include_fields", "exclude_fields"}
<1>1. Keyed(a, A) /\ Says(a) = FiltersSay(s)
  BY VecFiltersPart DEF FiltersSay
<1>2. Keyed(b, B) /\ Says(b) = OptionsSay(s, B)
  <2>1. "chart" \notin ToSet(TextOptions)
    BY OptionNames
  <2> QED BY <2>1, OptionNames, OptionsKeyed DEF OptionsSay
<1>3. Keyed(c, C) /\ Says(c) = WordsSay("ids", s.ids)
  BY IdsPart
<1>4. Keyed(d, D) /\ Says(d) = OptionsSay(s, D)
  <2>1. "chart" \notin ToSet(NumberOptions)
    BY OptionNames
  <2> QED BY <2>1, OptionNames, OptionsKeyed DEF OptionsSay
<1>5. /\ Keyed(e, E)
      /\ Says(e) = OptionSays(s, "include_fields") \cup DefaultSays(s) \cup OptionSays(s, "exclude_fields")
  BY FieldListsPart
<1>6. /\ A \cap B = {} /\ (A \cup B) \cap C = {} /\ (A \cup B \cup C) \cap D = {}
      /\ (A \cup B \cup C \cup D) \cap E = {}
  BY FieldNames, OptionNames DEF OtherNames
<1>7. ToSet(OptionFields) \ {"order"} = B \cup D \cup E
  BY OptionNames
<1>8. XmlRpcRequest(s) = (((a \o b) \o c) \o d) \o e
  BY DEF XmlRpcRequest
<1> HIDE DEF a, b, c, d, e, A, B, C, D
<1>9. Keyed(a \o b, A \cup B) /\ Says(a \o b) = Says(a) \cup Says(b)
  BY <1>1, <1>2, <1>6, KeyedConcat
<1>10. Keyed((a \o b) \o c, A \cup B \cup C) /\ Says((a \o b) \o c) = Says(a) \cup Says(b) \cup Says(c)
  BY <1>3, <1>6, <1>9, KeyedConcat
<1> DEFINE x == (a \o b) \o c
<1> HIDE DEF x
<1>11. Keyed(x \o d, A \cup B \cup C \cup D) /\ Says(x \o d) = Says(x) \cup Says(d)
  BY <1>4, <1>6, <1>10, KeyedConcat DEF x
<1>12. Keyed((x \o d) \o e, A \cup B \cup C \cup D \cup E) /\ Says((x \o d) \o e) = Says(x \o d) \cup Says(e)
  BY <1>5, <1>6, <1>11, KeyedConcat
<1>13. OptionsSay(s, B) \cup OptionsSay(s, D) \cup OptionSays(s, "include_fields")
         \cup OptionSays(s, "exclude_fields") = OptionsSay(s, B \cup D \cup E)
  <2>1. \A names, z : z \in OptionsSay(s, names) <=> \E k \in names : z \in OptionSays(s, k)
    BY SayEach
  <2> QED BY <2>1
<1>14. Says((x \o d) \o e) = SearchSays(s) \cup WordsSay("ids", s.ids)
  <2>1. Says((x \o d) \o e) = Says(a) \cup Says(b) \cup Says(c) \cup Says(d) \cup Says(e)
    BY <1>10, <1>11, <1>12 DEF x
  <2>2. SearchSays(s) = FiltersSay(s) \cup OptionsSay(s, B \cup D \cup E) \cup DefaultSays(s)
    BY <1>7 DEF SearchSays
  <2> QED BY <1>1, <1>2, <1>3, <1>4, <1>5, <1>13, <2>1, <2>2
<1> QED BY <1>8, <1>12, <1>14 DEF x, Keyed

LEMMA XmlApart ==
  ASSUME NEW s, SearchTyped(s)
  PROVE  SlotsDistinct(XmlRpcRequest(s))
  BY XmlRpcPart, SingleSlots

-----------------------------------------------------------------------------
(* What a server reads of a request *)

LEMMA RestReadsAll ==
  ASSUME NEW r, IsList(r), SlotsDistinct(r)
  PROVE  RestReads(r) = Says(r)
<1>1. DOMAIN r = 1..Len(r) /\ Len(r) \in Nat
  BY ListForm
<1>2. ASSUME NEW n \in DOMAIN r, r[n].key \in {"chart"}, NEW m \in DOMAIN r, m > n
      PROVE  <<r[m].key, r[m].slot>> # <<r[n].key, r[n].slot>>
  <2> SUFFICES ASSUME r[m].key = r[n].key, r[m].slot = r[n].slot PROVE FALSE
    OBVIOUS
  <2>1. m = n
    BY <1>2 DEF SlotsDistinct
  <2> QED BY <1>1, <1>2, <2>1
<1>3. Standing(r, {"chart"}) = DOMAIN r
  BY <1>2 DEF Standing
<1> QED BY <1>3 DEF RestReads, Says, ToSet

Renamed(A) == {[key |-> ReadAs(a.key), value |-> a.value] : a \in A}

LEMMA XmlReadsAll ==
  ASSUME NEW r, IsList(r), Single(r)
  PROVE  XmlRpcReads(r) = Renamed(Says(r))
<1>1. DOMAIN r = 1..Len(r) /\ Len(r) \in Nat
  BY ListForm
<1>2. ASSUME NEW n \in DOMAIN r, NEW m \in DOMAIN r, m > n
      PROVE  <<r[m].key, r[m].slot>> # <<r[n].key, r[n].slot>>
  <2> SUFFICES ASSUME r[m].key = r[n].key, r[m].slot = r[n].slot PROVE FALSE
    OBVIOUS
  <2>1. m = n
    BY <1>2 DEF Single
  <2> QED BY <1>1, <1>2, <2>1
<1>3. Standing(r, NamesIn(r)) = DOMAIN r
  BY <1>2 DEF Standing
<1>4. UNION {Meant(r[n]) : n \in Standing(r, NamesIn(r))} = Says(r)
  BY <1>3 DEF Says, ToSet
<1> QED BY <1>4 DEF XmlRpcReads, Renamed

\* A field has a match type or negations, not both: its terms are the same however
\* they are put.
LEMMA SameTerms ==
  ASSUME NEW s, SearchTyped(s), ~InvalidMatchType(s)
  PROVE  (UNION {ValuesSay(s, f) : f \in FilterField}) \cup Says(RestTerms(s)) = FiltersSay(s)
<1> DEFINE C(v) == [key |-> "chart", value |-> v]
           t == AllTerms(s) \o AllNegated(s)
<1>1. \A f \in FilterField :
        ToSet(XmlRpcTerms(s, f)) = ToSet(TermsOf(s, f)) \cup ToSet(NegatedTerms(s, f))
  <2> TAKE f \in FilterField
  <2>1. CASE Typed(s, f)
    <3>1. NegatedTerms(s, f) = <<>>
      BY <2>1, TermsList DEF InvalidMatchType
    <3>2. XmlRpcTerms(s, f) = TermsOf(s, f)
      BY <2>1 DEF XmlRpcTerms, TermsOf
    <3> QED BY <3>1, <3>2, EmptyList
  <2>2. CASE ~Typed(s, f)
    <3>1. TermsOf(s, f) = <<>> /\ XmlRpcTerms(s, f) = NegatedTerms(s, f)
      BY <2>2 DEF XmlRpcTerms, TermsOf, NegatedTerms
    <3> QED BY <3>1, EmptyList
  <2> QED BY <2>1, <2>2
<1>2. /\ IsList(AllTerms(s)) /\ IsList(AllNegated(s))
      /\ \A x : x \in ToSet(AllTerms(s)) <=> \E f \in FilterField : x \in ToSet(TermsOf(s, f))
      /\ \A x : x \in ToSet(AllNegated(s)) <=>
                  \E f \in FilterField : x \in ToSet(NegatedTerms(s, f))
  BY AllTermsLists
<1>3. IsList(t) /\ ToSet(t) = ToSet(AllTerms(s)) \cup ToSet(AllNegated(s))
  BY <1>2, ConcatList
<1>4. \A x : x \in ToSet(t) <=> \E f \in FilterField : x \in ToSet(XmlRpcTerms(s, f))
  BY <1>1, <1>2, <1>3
<1>5. Says(RestTerms(s)) = {C(v) : v \in ToSet(t)}
  <2> DEFINE u == t
  <2>1. IsList(u) /\ RestTerms(s) = Slots(1, u)
    BY <1>3 DEF RestTerms
  <2> HIDE DEF u
  <2>2. Says(Slots(1, u)) = {C(v) : v \in ToSet(u)}
    BY <2>1, SlotsPart
  <2> QED BY <2>1, <2>2 DEF u
<1> DEFINE X(f) == ToSet(XmlRpcTerms(s, f))
           V(f) == ValuesSay(s, f)
<1>6. \A f : FilterSays(s, f) = V(f) \cup {C(v) : v \in X(f)}
  BY DEF FilterSays
<1>7. \A x : x \in ToSet(t) <=> \E f \in FilterField : x \in X(f)
  BY <1>4
<1> DEFINE A == UNION {V(f) : f \in FilterField}
<1> HIDE DEF t, X
<1>8. \A z : z \in A <=> \E f \in FilterField : z \in V(f)
  OBVIOUS
<1>9. \A z : z \in FiltersSay(s) <=> \E f \in FilterField : z \in FilterSays(s, f)
  BY SayEach
<1> HIDE DEF C, A, V
<1>10. \A f, z : z \in FilterSays(s, f) <=> z \in V(f) \/ \E v \in X(f) : z = C(v)
  BY <1>6
<1>11. \A z : z \in Says(RestTerms(s)) <=> \E v \in ToSet(t) : z = C(v)
  BY <1>5
<1>12. A \cup Says(RestTerms(s)) = FiltersSay(s)
  BY <1>7, <1>8, <1>9, <1>10, <1>11
<1>13. A = UNION {ValuesSay(s, f) : f \in FilterField}
  BY DEF A, V
<1> HIDE DEF FiltersSay
<1> QED BY <1>12, <1>13

\* Nothing of what a search says is named ids or order but those.
LEMMA SaysNamed ==
  ASSUME NEW s
  PROVE  /\ \A a \in SearchSays(s) :
              a = [key |-> a.key, value |-> a.value] /\ a.key \notin {"ids", "order"}
         /\ \A k, words : \A a \in WordsSay(k, words) : a.key = k
         /\ \A k : \A a \in OptionSays(s, k) : a.key = k
<1>1. \A k, words : \A a \in WordsSay(k, words) : a.key = k /\ a = [key |-> a.key, value |-> a.value]
  BY DEF WordsSay
<1>2. \A k : \A a \in OptionSays(s, k) : a.key = k /\ a = [key |-> a.key, value |-> a.value]
  BY <1>1 DEF OptionSays
<1>3. \A a \in DefaultSays(s) : a.key = "include_fields" /\ a = [key |-> a.key, value |-> a.value]
  BY <1>1 DEF DefaultSays
<1>4. \A f : \A a \in FilterSays(s, f) : a.key \in {f, "chart"} /\ a = [key |-> a.key, value |-> a.value]
  BY <1>1 DEF FilterSays, ValuesSay
<1>5. "ids" \notin ToSet(OptionFields) /\ \A f \in FilterField : f \notin {"ids", "order"}
  BY OptionNames, FieldNames DEF OtherNames
<1>6. \A a \in SearchSays(s) :
        a = [key |-> a.key, value |-> a.value] /\ a.key \notin {"ids", "order"}
  <2> TAKE a \in SearchSays(s)
  <2>1. CASE \E f \in FilterField : a \in FilterSays(s, f)
    BY <1>4, <1>5, <2>1
  <2>2. CASE \E k \in ToSet(OptionFields) \ {"order"} : a \in OptionSays(s, k)
    BY <1>2, <1>5, <2>2
  <2>3. CASE a \in DefaultSays(s)
    BY <1>3, <2>3
  <2>4. \/ a \in FiltersSay(s)
        \/ a \in OptionsSay(s, ToSet(OptionFields) \ {"order"})
        \/ a \in DefaultSays(s)
    BY DEF SearchSays
  <2>5. \/ \E f \in FilterField : a \in FilterSays(s, f)
        \/ \E k \in ToSet(OptionFields) \ {"order"} : a \in OptionSays(s, k)
        \/ a \in DefaultSays(s)
    BY <2>4, SayEach
  <2> QED BY <2>1, <2>2, <2>3, <2>5
<1> QED BY <1>1, <1>2, <1>6

\* Over XML-RPC a search without raw parameters is read as it is over REST, but
\* for the order.
LEMMA SameAsked ==
  ASSUME NEW s, SearchTyped(s), ~InvalidMatchType(s), s.raw = <<>>
  PROVE  {a \in RestReads(RestRequest(s)) : a.key # "order"} = XmlRpcReads(XmlRpcRequest(s))
<1> DEFINE m == MultiValuePairs(s)
           c == RestTerms(s)
           o == Options(s, OptionFields)
           i == IdPairs(s)
           d == DefaultFields(s)
           r == RestRequest(s)
<1>1. /\ IsList(m) /\ IsList(c) /\ IsList(o) /\ IsList(i) /\ IsList(d) /\ IsList(<<>>)
      /\ Says(m) = UNION {ValuesSay(s, f) : f \in FilterField}
      /\ Says(o) = OptionsSay(s, ToSet(OptionFields))
      /\ Says(i) = WordsSay("id", s.ids) /\ Says(d) = DefaultSays(s) /\ Says(<<>>) = {}
  <2>1. "chart" \notin ToSet(OptionFields) /\ IsList(OptionFields)
    BY OptionNames
  <2>2. IsList(m) /\ Says(m) = UNION {ValuesSay(s, f) : f \in FilterField}
    BY ValuePart DEF Part
  <2>3. IsList(o) /\ Says(o) = OptionsSay(s, ToSet(OptionFields))
    BY <2>1, OptionsPart DEF Part, OptionsSay
  <2>4. IsList(i) /\ Says(i) = WordsSay("id", s.ids) /\ IsList(d) /\ Says(d) = DefaultSays(s)
    BY IdPart, DefaultPart DEF Part
  <2>5. IsList(c) /\ IsList(<<>>) /\ Says(<<>>) = {}
    BY TermsTyped, EmptyList, SaysOne
  <2> QED BY <2>2, <2>3, <2>4, <2>5
<1>2. Says(m) \cup Says(c) = FiltersSay(s)
  <2>1. Says(m) = UNION {ValuesSay(s, f) : f \in FilterField}
    BY <1>1
  <2>2. (UNION {ValuesSay(s, f) : f \in FilterField}) \cup Says(c) = FiltersSay(s)
    BY SameTerms
  <2> HIDE DEF m, c
  <2> QED BY <2>1, <2>2
<1>3. r = ((((m \o c) \o o) \o i) \o <<>>) \o d
  BY RestForm
<1>4. SlotsDistinct(r)
  <2>1. ~RestRefuses(s)
    BY DEF RestRefuses, HasRawCharts
  <2> QED BY <2>1, RestApart
<1> HIDE DEF m, c, o, i, d, r
<1>5. IsList(r) /\ Says(r) = Says(m) \cup Says(c) \cup Says(o) \cup Says(i) \cup Says(d)
  <2>1. IsList(m \o c) /\ Says(m \o c) = Says(m) \cup Says(c)
    BY <1>1, SaysConcat
  <2> DEFINE a1 == m \o c
  <2> HIDE DEF a1
  <2>2. IsList(a1 \o o) /\ Says(a1 \o o) = Says(m) \cup Says(c) \cup Says(o)
    BY <1>1, <2>1, SaysConcat DEF a1
  <2> DEFINE a2 == a1 \o o
  <2> HIDE DEF a2
  <2>3. IsList(a2 \o i) /\ Says(a2 \o i) = Says(m) \cup Says(c) \cup Says(o) \cup Says(i)
    BY <1>1, <2>2, SaysConcat DEF a2
  <2> DEFINE a3 == a2 \o i
  <2> HIDE DEF a3
  <2>4. IsList(a3 \o <<>>) /\ Says(a3 \o <<>>) = Says(m) \cup Says(c) \cup Says(o) \cup Says(i)
    BY <1>1, <2>3, SaysConcat DEF a3
  <2> DEFINE a4 == a3 \o <<>>
  <2> HIDE DEF a4
  <2>5. IsList(a4 \o d) /\ Says(a4 \o d) = Says(m) \cup Says(c) \cup Says(o) \cup Says(i) \cup Says(d)
    BY <1>1, <2>4, SaysConcat DEF a4
  <2> QED BY <1>3, <2>5 DEF a1, a2, a3, a4
<1>6. RestReads(r) = SearchSays(s) \cup WordsSay("id", s.ids) \cup OptionSays(s, "order")
  <2>1. RestReads(r) = Says(r)
    BY <1>4, <1>5, RestReadsAll
  <2> DEFINE K == ToSet(OptionFields)
  <2>2. "order" \in K
    BY OptionNames
  <2>3. Says(o) = OptionsSay(s, K)
    BY <1>1
  <2>4. SearchSays(s) = FiltersSay(s) \cup OptionsSay(s, K \ {"order"}) \cup DefaultSays(s)
    BY DEF SearchSays
  <2> HIDE DEF K
  <2>5. OptionsSay(s, K) = OptionsSay(s, K \ {"order"}) \cup OptionSays(s, "order")
    <3>1. \A names, z : z \in OptionsSay(s, names) <=> \E k \in names : z \in OptionSays(s, k)
      BY SayEach
    <3> QED BY <2>2, <3>1
  <2>6. Says(i) = WordsSay("id", s.ids) /\ Says(d) = DefaultSays(s)
    BY <1>1
  <2> QED BY <1>2, <1>5, <2>1, <2>3, <2>4, <2>5, <2>6
<1>7. {a \in RestReads(r) : a.key # "order"} = SearchSays(s) \cup WordsSay("id", s.ids)
  <2>1. \A a \in SearchSays(s) : a.key # "order"
    BY SaysNamed
  <2>2. \A a \in WordsSay("id", s.ids) : a.key # "order"
    BY SaysNamed
  <2>3. \A a \in OptionSays(s, "order") : a.key = "order"
    BY SaysNamed
  <2> QED BY <1>6, <2>1, <2>2, <2>3
<1>8. XmlRpcReads(XmlRpcRequest(s)) = Renamed(SearchSays(s) \cup WordsSay("ids", s.ids))
  BY XmlRpcPart, XmlReadsAll
<1>9. Renamed(SearchSays(s) \cup WordsSay("ids", s.ids))
        = Renamed(SearchSays(s)) \cup Renamed(WordsSay("ids", s.ids))
  BY DEF Renamed
<1>10. Renamed(SearchSays(s)) = SearchSays(s)
  <2> DEFINE A == SearchSays(s)
  <2>1. \A a \in A : [key |-> ReadAs(a.key), value |-> a.value] = a
    BY SaysNamed DEF ReadAs
  <2> HIDE DEF A
  <2>2. Renamed(A) = A
    BY <2>1 DEF Renamed
  <2> QED BY <2>2 DEF A
<1>11. Renamed(WordsSay("ids", s.ids)) = WordsSay("id", s.ids)
  <2> DEFINE W == ToSet(s.ids)
  <2> HIDE DEF W
  <2>1. ReadAs("ids") = "id"
    BY DEF ReadAs
  <2>2. WordsSay("ids", s.ids) = {[key |-> "ids", value |-> <<w>>] : w \in W}
    BY DEF WordsSay, W
  <2>3. WordsSay("id", s.ids) = {[key |-> "id", value |-> <<w>>] : w \in W}
    BY DEF WordsSay, W
  <2>4. Renamed(WordsSay("ids", s.ids))
          = {[key |-> ReadAs(a.key), value |-> a.value] : a \in {[key |-> "ids", value |-> <<w>>] : w \in W}}
    BY <2>2 DEF Renamed
  <2> DEFINE I(w) == [key |-> "ids", value |-> <<w>>]
             J(w) == [key |-> "id", value |-> <<w>>]
             R(a) == [key |-> ReadAs(a.key), value |-> a.value]
  <2>5. {R(a) : a \in {I(w) : w \in W}} = {J(w) : w \in W}
    <3>1. \A w : R(I(w)) = J(w)
      BY <2>1
    <3> HIDE DEF I, J, R
    <3> QED BY <3>1
  <2> QED BY <2>3, <2>4, <2>5
<1> QED BY <1>7, <1>8, <1>9, <1>10, <1>11 DEF r

-----------------------------------------------------------------------------
(* The searches that the commands put together *)

LEMMA SetsTyped ==
  ASSUME NEW new, NEW old, OfLists(new), OfLists(old), NEW names
  PROVE  OfLists(Layered(new, old)) /\ OfLists(Drop(old, names)) /\ OfLists(Keep(old, names))
  BY DEF OfLists, Layered, Drop, Keep

LEMMA JustList ==
  ASSUME NEW word
  PROVE  IsList(Just(word))
  BY OneList DEF Just

\* The id that is always asked for is of the selection, and no filter.
LEMMA ForcedSet ==
  ASSUME NEW set, OfLists(set)
  PROVE  /\ OfLists(ForceIdFields(set))
         /\ \A f \in FilterField : ValuesOf(ForceIdFields(set), f) = ValuesOf(set, f)
<1> DEFINE named == "include_fields" \in DOMAIN set /\ Value("id") \notin ToSet(set["include_fields"])
           include == IF named THEN [k \in {"include_fields"} |-> <<Value("id")>> \o set[k]] ELSE <<>>
           excluded == ValuesOf(set, "exclude_fields")
           exclude == Select(excluded, ToSet(excluded) \ {Value("id")})
           rest == IF exclude = <<>> THEN Drop(set, {"exclude_fields"})
                   ELSE Layered([k \in {"exclude_fields"} |-> exclude], set)
<1>1. ForceIdFields(set) = Layered(include, rest)
  BY DEF ForceIdFields
<1>2. DOMAIN include \subseteq {"include_fields"} /\ OfLists(include)
  <2>1. CASE named
    <3>1. IsList(<<Value("id")>> \o set["include_fields"])
      BY <2>1, OneList, ConcatList DEF OfLists
    <3> DEFINE v == <<Value("id")>> \o set["include_fields"]
    <3> HIDE DEF v
    <3>2. include = [k \in {"include_fields"} |-> v]
      BY <2>1 DEF v
    <3> HIDE DEF include
    <3> QED BY <3>1, <3>2 DEF OfLists, v
  <2>2. CASE ~named
    <3>1. include = <<>>
      BY <2>2
    <3>2. DOMAIN <<>> = {}
      OBVIOUS
    <3> HIDE DEF include
    <3> QED BY <3>1, <3>2 DEF OfLists
  <2> QED BY <2>1, <2>2
<1>3. IsList(exclude)
  BY ValuesList, SelectList
<1> HIDE DEF named, include, exclude
<1>4. OfLists(rest) /\ \A f : f # "exclude_fields" =>
        (f \in DOMAIN rest <=> f \in DOMAIN set) /\ (f \in DOMAIN set => rest[f] = set[f])
  <2>1. CASE exclude = <<>>
    <3>1. rest = Drop(set, {"exclude_fields"})
      BY <2>1
    <3> HIDE DEF rest
    <3> QED BY <3>1, SetsTyped DEF Drop
  <2>2. CASE exclude # <<>>
    <3> DEFINE e == [k \in {"exclude_fields"} |-> exclude]
    <3>1. rest = Layered(e, set) /\ OfLists(e) /\ DOMAIN e = {"exclude_fields"}
      BY <1>3, <2>2 DEF OfLists
    <3> HIDE DEF rest, e
    <3> QED BY <3>1, SetsTyped DEF Layered
  <2> QED BY <2>1, <2>2
<1> HIDE DEF rest
<1>5. OfLists(Layered(include, rest))
  BY <1>2, <1>4, SetsTyped
<1>6. \A f \in FilterField : f # "exclude_fields" /\ f \notin DOMAIN include
  BY <1>2, FieldNames DEF OtherNames
<1>7. \A f \in FilterField : ValuesOf(Layered(include, rest), f) = ValuesOf(set, f)
  BY <1>4, <1>6 DEF ValuesOf, Layered
<1> QED BY <1>1, <1>5, <1>7

Forced(s) == [s EXCEPT !.set = ForceIdFields(@)]

LEMMA ForcedTyped ==
  ASSUME NEW s, SearchTyped(s)
  PROVE  /\ SearchTyped(Forced(s)) /\ Forced(s).raw = s.raw
         /\ RestRefuses(Forced(s)) = RestRefuses(s)
         /\ InvalidMatchType(Forced(s)) = InvalidMatchType(s)
<1> DEFINE t == Forced(s)
<1>1. DOMAIN t = DOMAIN s /\ t.set = ForceIdFields(s.set) /\ t.raw = s.raw /\ t.types = s.types
      /\ t.ids = s.ids
  BY DEF Forced, SearchTyped
<1>2. OfLists(t.set) /\ \A f \in FilterField : ValuesOf(t.set, f) = ValuesOf(s.set, f)
  BY <1>1, ForcedSet DEF SearchTyped
<1> HIDE DEF t
<1>3. SearchTyped(t)
  BY <1>1, <1>2 DEF SearchTyped
<1>4. RestRefuses(t) = RestRefuses(s)
  BY <1>1, <1>2 DEF RestRefuses, HasNegatedFilters, HasRawCharts
<1>5. InvalidMatchType(t) = InvalidMatchType(s)
  <2>1. \A f : Typed(t, f) = Typed(s, f)
    BY <1>1 DEF Typed
  <2> QED BY <1>2, <2>1 DEF InvalidMatchType
<1> QED BY <1>1, <1>3, <1>4, <1>5 DEF t

\* A search that may be put to a server, over one protocol or the other.
Fits(s, via) == SearchTyped(s) /\ ~Invalid(s, via)

LEMMA PutApart ==
  ASSUME NEW s, NEW via, Fits(s, via)
  PROVE  SlotsDistinct(PutTo(s, via)) /\ SlotsDistinct(PutTo(s, "xmlrpc"))
<1>1. SearchTyped(Forced(s)) /\ (via = "rest" => ~RestRefuses(Forced(s)))
  BY ForcedTyped DEF Fits, Invalid
<1>2. /\ via = "rest" => PutTo(s, via) = RestRequest(Forced(s))
      /\ via # "rest" => PutTo(s, via) = XmlRpcRequest(Forced(s))
      /\ PutTo(s, "xmlrpc") = XmlRpcRequest(Forced(s))
  BY DEF PutTo, Forced
<1> QED BY <1>1, <1>2, RestApart, XmlApart

LEMMA PutAlike ==
  ASSUME NEW s, Fits(s, "rest"), s.raw = <<>>
  PROVE  {a \in RestReads(PutTo(s, "rest")) : a.key # "order"} = XmlRpcReads(PutTo(s, "xmlrpc"))
<1>1. SearchTyped(Forced(s)) /\ Forced(s).raw = <<>> /\ ~InvalidMatchType(Forced(s))
  BY ForcedTyped DEF Fits, Invalid
<1>2. PutTo(s, "rest") = RestRequest(Forced(s)) /\ PutTo(s, "xmlrpc") = XmlRpcRequest(Forced(s))
  BY DEF PutTo, Forced
<1> QED BY <1>1, <1>2, SameAsked

\* A saved query, or one read from a URL.
QueryTyped(q) ==
  DOMAIN q = QueryFieldNames /\ OfLists(q.set) /\ IsList(q.raw) /\ SlotsDistinct(q.raw)

LEMMA NothingTyped ==
  /\ OfLists(<<>>) /\ SlotsDistinct(<<>>)
  /\ QueryTyped(EmptyQuery) /\ QueryTyped(NoQuery)
<1>1. DOMAIN <<>> = {}
  OBVIOUS
<1>2. OfLists(<<>>) /\ SlotsDistinct(<<>>) /\ IsList(<<>>)
  BY <1>1, EmptyList DEF OfLists, SlotsDistinct
<1>3. /\ DOMAIN EmptyQuery = QueryFieldNames /\ EmptyQuery.set = <<>> /\ EmptyQuery.raw = <<>>
      /\ DOMAIN NoQuery = QueryFieldNames /\ NoQuery.set = <<>> /\ NoQuery.raw = <<>>
  BY DEF EmptyQuery, NoQuery, QueryFieldNames
<1> QED BY <1>2, <1>3 DEF QueryTyped

\* What a URL says of one field is a list, and what it passes on are its charts.
LEMMA UrlTyped ==
  ASSUME NEW url, IsList(url.pairs), SlotsDistinct(url.pairs)
  PROVE  QueryTyped(ParsedUrl(url))
<1>1. ASSUME NEW key
      PROVE  IsList(InUrl(url, key))
  <2> DEFINE at == Select(url.pairs, {r \in ToSet(url.pairs) : r.key = key})
             t == InUrl(url, key)
  <2>1. IsList(at)
    BY SelectList
  <2>2. DOMAIN t = DOMAIN at /\ t = [n \in DOMAIN at |-> t[n]]
    BY DEF InUrl
  <2> HIDE DEF at, t
  <2>3. IsList(t)
    BY <2>1, <2>2, ListOver
  <2> QED BY <2>3 DEF t
<1>2. ASSUME NEW keys
      PROVE  IsList(LastInUrl(url, keys))
  BY EmptyList, JustList DEF LastInUrl
<1> DEFINE names == FilterField \cup {"limit", "include_fields", "exclude_fields"}
           values == [k \in names |->
                        IF k \in {"limit", "exclude_fields"} THEN LastInUrl(url, {k})
                        ELSE IF k = "include_fields" THEN LastInUrl(url, {"include_fields", "fields"})
                        ELSE InUrl(url, UrlParam(k))]
           set == [k \in {f \in DOMAIN values : values[f] # <<>>} |-> values[k]]
           raw == Select(url.pairs, {r \in ToSet(url.pairs) : IsRaw(r.key)})
           q == ParsedUrl(url)
<1>3. \A k \in DOMAIN values : IsList(values[k])
  BY <1>1, <1>2
<1>4. DOMAIN q = QueryFieldNames /\ q.set = set /\ q.raw = raw
  BY DEF ParsedUrl, QueryFieldNames
<1>5. IsList(raw) /\ SlotsDistinct(raw)
  BY SelectList, SelectSlots
<1> HIDE DEF values, raw, q
<1>6. OfLists(set)
  BY <1>3 DEF OfLists
<1> HIDE DEF set
<1>7. QueryTyped(q)
  BY <1>4, <1>5, <1>6 DEF QueryTyped
<1> QED BY <1>7 DEF q

LEMMA CommandUrlTyped ==
  ASSUME NEW c \in Commands, c.url # <<>>
  PROVE  QueryTyped(ParsedUrl(c.url[1])) /\ QueryTyped(QueryFromUrl(c))
<1> DEFINE q == ParsedUrl(c.url[1])
           set == Layered(Keep(c.given, UrlOverrides \cup {"order"}), q.set)
<1>1. QueryTyped(q)
  BY ListsAssumption, ChartsAssumption, UrlTyped
<1>2. QueryFromUrl(c) = [q EXCEPT !.set = set]
  BY DEF QueryFromUrl
<1>3. OfLists(c.given)
  BY ListsAssumption
<1> HIDE DEF q
<1>4. OfLists(q.set)
  BY <1>1 DEF QueryTyped
<1>5. OfLists(Keep(c.given, UrlOverrides \cup {"order"}))
  BY <1>3, SetsTyped
<1>6. OfLists(set)
  BY <1>4, <1>5, SetsTyped
<1> HIDE DEF set
<1>7. QueryTyped([q EXCEPT !.set = set])
  BY <1>1, <1>6 DEF QueryTyped, QueryFieldNames
<1> QED BY <1>1, <1>2, <1>7 DEF q

LEMMA UpdatedTyped ==
  ASSUME NEW c \in Commands, NEW q, QueryTyped(q)
  PROVE  QueryTyped(Updated(q, c))
<1> DEFINE vectors == {f \in FilterField : ValuesOf(c.given, f) # <<>>}
           scalars == DOMAIN c.given \cap (UrlOverrides \cup {"quicksearch", "order"})
           kept == DOMAIN q.set \ (vectors \cup scalars)
           merged == [k \in vectors \cup scalars \cup kept |->
                        IF k \in kept THEN q.set[k] ELSE c.given[k]]
           set == Drop(merged, c.clear)
<1>1. OfLists(c.given) /\ OfLists(q.set)
  BY ListsAssumption DEF QueryTyped
<1>2. vectors \cup scalars \subseteq DOMAIN c.given
  BY DEF ValuesOf
<1>3. Updated(q, c) = [q EXCEPT !.set = set]
  BY DEF Updated
<1> HIDE DEF vectors, scalars
<1>4. OfLists(merged)
  BY <1>1, <1>2 DEF OfLists
<1> HIDE DEF merged
<1>5. OfLists(set)
  BY <1>4, SetsTyped
<1> HIDE DEF set
<1> QED BY <1>3, <1>5 DEF QueryTyped, QueryFieldNames

LEMMA OverridesTyped ==
  ASSUME NEW set, OfLists(set), NEW given, OfLists(given)
  PROVE  OfLists(ApplyOverrides(set, given))
<1> DEFINE lists == {f \in OverrideFilters : ValuesOf(given, f) # <<>>}
           single == DOMAIN given \cap UrlOverrides
           new == [k \in lists \cup single \cup DOMAIN set |->
                     IF k \in lists \cup single THEN given[k] ELSE set[k]]
<1>1. lists \cup single \subseteq DOMAIN given
  BY DEF ValuesOf
<1>2. ApplyOverrides(set, given) = new
  BY DEF ApplyOverrides
<1> HIDE DEF lists, single
<1>3. OfLists(new)
  BY <1>1 DEF OfLists
<1> QED BY <1>2, <1>3

\* A search without what is taken from its raw parameters, and with what is set.
Narrowed(s, S, set) == [s EXCEPT !.raw = Select(@, S), !.set = set]

LEMMA NarrowedTyped ==
  ASSUME NEW s, SearchTyped(s), NEW S, NEW set, OfLists(set)
  PROVE  SearchTyped(Narrowed(s, S, set)) /\ SearchTyped([s EXCEPT !.set = set])
<1> DEFINE raw == Select(s.raw, S)
<1>1. IsList(s.raw) /\ SlotsDistinct(s.raw)
  BY DEF SearchTyped
<1>2. IsList(raw) /\ SlotsDistinct(raw) /\ (raw # <<>> => s.raw # <<>>)
  BY <1>1, SelectList, SelectSlots, SelectEmpty
<1> HIDE DEF raw
<1>3. SearchTyped([s EXCEPT !.raw = raw, !.set = set])
  BY <1>2 DEF SearchTyped
<1>4. SearchTyped([s EXCEPT !.set = set])
  BY DEF SearchTyped
<1> QED BY <1>3, <1>4 DEF raw, Narrowed

LEMMA WindowTyped ==
  ASSUME NEW s, SearchTyped(s), NEW offs, IsList(offs)
  PROVE  SearchTyped(PageWindow(s, offs))
<1> DEFINE inRaw(key) == Select(s.raw, {r \in ToSet(s.raw) : r.key = key})
           numeric == {k \in {"limit", "offset"} :
                         inRaw(k) # <<>> /\ inRaw(k)[1].value[1] \notin {NaN, ""}}
           given == [k \in IF offs = <<>> THEN {} ELSE {"offset"} |-> offs]
           found == [k \in numeric |-> Just(inRaw(k)[1].value[1])]
           kept == Drop(s.set, {"offset"})
           set == Layered(given, Layered(kept, found))
           S == {r \in ToSet(s.raw) : r.key \notin {"limit", "offset"}}
<1>1. PageWindow(s, offs) = Narrowed(s, S, set)
  BY DEF PageWindow, Narrowed
<1>2. OfLists(given)
  BY DEF OfLists
<1>3. OfLists(found)
  <2> HIDE DEF inRaw, numeric
  <2> QED BY JustList DEF OfLists
<1>4. OfLists(kept)
  BY SetsTyped DEF SearchTyped
<1> HIDE DEF given, found, kept, S
<1>5. OfLists(Layered(kept, found))
  BY <1>3, <1>4, SetsTyped
<1>6. OfLists(set)
  BY <1>2, <1>5, SetsTyped
<1> HIDE DEF set
<1>7. SearchTyped(Narrowed(s, S, set))
  BY <1>6, NarrowedTyped
<1> QED BY <1>1, <1>7

LEMMA CountTyped ==
  ASSUME NEW s, SearchTyped(s)
  PROVE  SearchTyped(CountSearch(s))
<1> DEFINE S == {r \in ToSet(s.raw) : r.key # "offset"}
           fixed == [include_fields |-> Just("id"), limit |-> Just("0")]
           set == Layered(fixed, Drop(s.set, {"exclude_fields", "offset"}))
<1>1. CountSearch(s) = Narrowed(s, S, set)
  BY DEF CountSearch, Narrowed
<1>2. OfLists(fixed)
  BY JustList DEF OfLists
<1>3. OfLists(s.set)
  BY DEF SearchTyped
<1> HIDE DEF fixed, S
<1>4. OfLists(Drop(s.set, {"exclude_fields", "offset"}))
  BY <1>3, SetsTyped
<1>5. OfLists(set)
  BY <1>2, <1>4, SetsTyped
<1> HIDE DEF set
<1>6. SearchTyped(Narrowed(s, S, set))
  BY <1>5, NarrowedTyped
<1> QED BY <1>1, <1>6

LEMMA SearchOfTyped ==
  ASSUME NEW q, QueryTyped(q), NEW set, OfLists(set)
  PROVE  SearchTyped([SearchOf(q) EXCEPT !.set = set])
<1>1. DOMAIN <<>> = {} /\ IsList(<<>>)
  BY EmptyList
<1>2. /\ DOMAIN SearchOf(q) = {"set", "raw", "types", "ids"} /\ SearchOf(q).raw = q.raw
      /\ SearchOf(q).types = <<>> /\ SearchOf(q).ids = <<>>
  BY DEF SearchOf
<1>3. IsList(q.raw) /\ SlotsDistinct(q.raw)
  BY DEF QueryTyped
<1> DEFINE s == SearchOf(q)
<1> HIDE DEF s
<1>4. SearchTyped([s EXCEPT !.set = set])
  BY <1>1, <1>2, <1>3 DEF SearchTyped, s
<1> QED BY <1>4 DEF s

LEMMA StableList == OfLists(StableOrder) /\ OfLists([limit |-> Just("50")])
  BY JustList DEF OfLists, StableOrder

LEMMA RunTyped ==
  ASSUME NEW c \in Commands, NEW q, QueryTyped(q)
  PROVE  SearchTyped(RunSearch(c, q))
<1> DEFINE set == ApplyOverrides(q.set, c.given)
           s == [SearchOf(q) EXCEPT !.set = set]
           t == PageWindow(s, c.offset)
           order == IF "order" \in DOMAIN c.given THEN Keep(c.given, {"order"})
                    ELSE IF "order" \in DOMAIN t.set \/ HasRawOrder(t) THEN <<>> ELSE StableOrder
           new == Layered(order, t.set)
<1>1. OfLists(q.set) /\ OfLists(c.given) /\ IsList(c.offset)
  BY ListsAssumption DEF QueryTyped
<1>2. OfLists(set)
  BY <1>1, OverridesTyped
<1>3. RunSearch(c, q) = [t EXCEPT !.set = new]
  BY DEF RunSearch, SearchOf
<1>4. OfLists(order)
  BY <1>1, SetsTyped, NothingTyped, StableList
<1> HIDE DEF set, order
<1>5. SearchTyped(s)
  BY <1>2, SearchOfTyped
<1> HIDE DEF s
<1>6. SearchTyped(t)
  BY <1>1, <1>5, WindowTyped
<1> HIDE DEF t
<1>7. OfLists(t.set)
  BY <1>6 DEF SearchTyped
<1>8. OfLists(new)
  BY <1>4, <1>7, SetsTyped
<1> HIDE DEF new
<1>9. SearchTyped([t EXCEPT !.set = new])
  BY <1>6, <1>8, NarrowedTyped
<1> QED BY <1>3, <1>9

LEMMA FromUrlTyped ==
  ASSUME NEW c \in Commands, NEW q, QueryTyped(q)
  PROVE  SearchTyped(UrlSearch(c, q))
<1> DEFINE fifty == [limit |-> Just("50")]
           limited == IF "limit" \in DOMAIN q.set \cup DOMAIN c.given THEN q.set
                      ELSE Layered(fifty, q.set)
           given == Keep(c.given, {"limit", "include_fields", "exclude_fields"})
           set == ApplyOverrides(limited, given)
           s == [SearchOf(q) EXCEPT !.set = set]
           t == PageWindow(s, c.offset)
           new == Layered(Keep(c.given, {"order"}), t.set)
<1>1. OfLists(q.set) /\ OfLists(c.given) /\ IsList(c.offset)
  BY ListsAssumption DEF QueryTyped
<1>2. OfLists(fifty)
  BY StableList
<1>3. UrlSearch(c, q) = [t EXCEPT !.set = new]
  BY DEF UrlSearch, SearchOf
<1> HIDE DEF fifty
<1>4. OfLists(Layered(fifty, q.set))
  BY <1>1, <1>2, SetsTyped
<1>5. OfLists(limited) /\ OfLists(given) /\ OfLists(Keep(c.given, {"order"}))
  BY <1>1, <1>4, SetsTyped
<1> HIDE DEF limited, given
<1>6. OfLists(set)
  BY <1>5, OverridesTyped
<1> HIDE DEF set
<1>7. SearchTyped(s)
  BY <1>6, SearchOfTyped
<1> HIDE DEF s
<1>8. SearchTyped(t)
  BY <1>1, <1>7, WindowTyped
<1> HIDE DEF t
<1>9. OfLists(t.set)
  BY <1>8 DEF SearchTyped
<1>10. OfLists(new)
  BY <1>5, <1>9, SetsTyped
<1> HIDE DEF new
<1>11. SearchTyped([t EXCEPT !.set = new])
  BY <1>8, <1>10, NarrowedTyped
<1> QED BY <1>3, <1>11

LEMMA BaseTyped ==
  ASSUME NEW c \in Commands
  PROVE  SearchTyped(BaseSearch(c))
<1> DEFINE given == [k \in IF c.offset = <<>> THEN {} ELSE {"offset"} |-> c.offset]
           some == Layered([limit |-> Just("50")], StableOrder)
           more == Layered(c.given, some)
           set == Layered(given, more)
<1>1. OfLists(c.given) /\ IsList(c.offset) /\ IsList(c.ids)
  BY ListsAssumption
<1>2. OfLists(given)
  BY <1>1 DEF OfLists
<1> HIDE DEF given
<1>3. OfLists(some)
  BY StableList, SetsTyped
<1>4. BaseSearch(c) = [set |-> set, raw |-> <<>>, types |-> c.types, ids |-> c.ids]
  BY DEF BaseSearch, given
<1> HIDE DEF some
<1>5. OfLists(more)
  BY <1>1, <1>3, SetsTyped
<1> HIDE DEF more
<1>6. OfLists(set)
  BY <1>2, <1>5, SetsTyped
<1> HIDE DEF set
<1>7. IsList(<<>>) /\ SlotsDistinct(<<>>)
  BY EmptyList, NothingTyped
<1> QED BY <1>1, <1>4, <1>6, <1>7 DEF SearchTyped

\* Searches that may follow each other, one at least.
Searching(ss) == IsList(ss) /\ \A n \in DOMAIN ss : SearchTyped(ss[n])

LEMMA MyTyped ==
  ASSUME NEW c \in Commands, c.kind = "my"
  PROVE  Searching(MySearches(c)) /\ MySearches(c) # <<>>
<1> DEFINE b == BaseSearch(c)
           view(n) == Layered([k \in {c.views[n]} |-> Just(Me)], b.set)
           ss == MySearches(c)
<1>1. SearchTyped(b) /\ IsList(c.views) /\ c.views # <<>>
  BY BaseTyped, ListsAssumption
<1>2. DOMAIN ss = DOMAIN c.views /\ ss = [n \in DOMAIN c.views |-> ss[n]]
      /\ \A n \in DOMAIN ss : ss[n] = [b EXCEPT !.set = view(n)]
  BY DEF MySearches
<1> HIDE DEF ss, b
<1>3. ASSUME NEW n
      PROVE  OfLists(view(n))
  <2> DEFINE m == [k \in {c.views[n]} |-> Just(Me)]
  <2>1. OfLists(m)
    BY JustList DEF OfLists
  <2>2. OfLists(b.set)
    BY <1>1 DEF SearchTyped
  <2> HIDE DEF m
  <2>3. OfLists(Layered(m, b.set))
    BY <2>1, <2>2, SetsTyped
  <2> QED BY <2>3 DEF m
<1> HIDE DEF view
<1>4. ASSUME NEW n \in DOMAIN ss
      PROVE  SearchTyped(ss[n])
  <2>1. SearchTyped([b EXCEPT !.set = view(n)])
    BY <1>1, <1>3, NarrowedTyped
  <2> QED BY <1>2, <2>1
<1>5. IsList(ss) /\ Len(ss) = Len(c.views)
  BY <1>1, <1>2, ListOver
<1>6. ss # <<>>
  <2>1. DOMAIN c.views # {}
    BY <1>1, EmptyList
  <2>2. DOMAIN <<>> = {}
    OBVIOUS
  <2> QED BY <1>2, <2>1, <2>2
<1>7. Searching(ss)
  BY <1>4, <1>5 DEF Searching
<1> QED BY <1>6, <1>7 DEF ss

LEMMA OneSearching ==
  ASSUME NEW s, SearchTyped(s)
  PROVE  Searching(<<s>>) /\ <<s>> # <<>>
<1>1. IsList(<<s>>) /\ \A n \in DOMAIN <<s>> : <<s>>[n] = s
  BY OneList
<1>2. <<s>> # <<>>
  OBVIOUS
<1> QED BY <1>1, <1>2 DEF Searching

LEMMA SearchesTyped ==
  ASSUME NEW c \in Commands, NEW q, QueryTyped(q)
  PROVE  Searching(Searches(c, q)) /\ Searches(c, q) # <<>>
<1> DEFINE plain == IF c.kind = "run" THEN <<RunSearch(c, q)>>
                    ELSE IF c.kind = "my" THEN MySearches(c)
                    ELSE IF c.kind = "search" /\ c.url # <<>> THEN <<UrlSearch(c, q)>>
                    ELSE <<BaseSearch(c)>>
           counts == [n \in DOMAIN plain |-> CountSearch(plain[n])]
<1>1. Searching(plain) /\ plain # <<>>
  <2>1. Searching(<<RunSearch(c, q)>>) /\ <<RunSearch(c, q)>> # <<>>
    BY RunTyped, OneSearching
  <2>2. Searching(<<UrlSearch(c, q)>>) /\ <<UrlSearch(c, q)>> # <<>>
    BY FromUrlTyped, OneSearching
  <2>3. Searching(<<BaseSearch(c)>>) /\ <<BaseSearch(c)>> # <<>>
    BY BaseTyped, OneSearching
  <2> QED BY <2>1, <2>2, <2>3, MyTyped
<1>2. Searches(c, q) = IF c.count THEN counts ELSE plain
  BY DEF Searches
<1> HIDE DEF plain
<1>3. DOMAIN counts = DOMAIN plain /\ counts = [n \in DOMAIN plain |-> counts[n]]
      /\ \A n \in DOMAIN counts : counts[n] = CountSearch(plain[n])
  OBVIOUS
<1> HIDE DEF counts
<1>4. IsList(counts)
  BY <1>1, <1>3, ListOver DEF Searching
<1>5. \A n \in DOMAIN counts : SearchTyped(counts[n])
  BY <1>1, <1>3, CountTyped DEF Searching
<1>6. counts # <<>>
  <2>1. DOMAIN plain # {}
    BY <1>1, EmptyList DEF Searching
  <2>2. DOMAIN <<>> = {}
    OBVIOUS
  <2> QED BY <1>3, <2>1, <2>2
<1> QED BY <1>1, <1>2, <1>4, <1>5, <1>6 DEF Searching

-----------------------------------------------------------------------------
(* What the processes send *)

\* A search as it was put to a server, and again over XML-RPC or not.
PutRight(x) ==
  /\ DOMAIN x = {"search", "requests"}
  /\ \E via : Fits(x.search, via) /\
       \/ x.requests = <<PutTo(x.search, via)>>
       \/ /\ via = "rest" /\ x.search.raw = <<>>
          /\ x.requests = <<PutTo(x.search, "rest"), PutTo(x.search, "xmlrpc")>>

Sending(xs) == IsList(xs) /\ \A n \in DOMAIN xs : PutRight(xs[n])

\* A search that has been put over REST, and may be put over XML-RPC yet.
Repeatable(x, s) ==
  /\ DOMAIN x = {"search", "requests"} /\ x.search = s /\ s.raw = <<>> /\ Fits(s, "rest")
  /\ x.requests = <<PutTo(s, "rest")>>

\* What a command has still to search for, and what it has sent.
Asks(w) ==
  w.stage # "idle" =>
    /\ QueryTyped(w.query) /\ Searching(w.todo) /\ Sending(w.sent)
    /\ w.stage \in {"connect", "ask", "fallback"} => w.todo # <<>>
    /\ w.stage = "fallback" =>
         w.sent # <<>> /\ Repeatable(w.sent[Len(w.sent)], Head(w.todo))

LEMMA NothingSent == Searching(<<>>) /\ Sending(<<>>)
<1>1. DOMAIN <<>> = {}
  OBVIOUS
<1> QED BY <1>1, EmptyList DEF Searching, Sending

LEMMA NextSearch ==
  ASSUME NEW ss, Searching(ss), ss # <<>>
  PROVE  /\ SearchTyped(Head(ss)) /\ Searching(Tail(ss))
         /\ Len(ss) > 1 => Tail(ss) # <<>>
<1> DEFINE E == ToSet(ss)
<1>1. ss \in Seq(E)
  BY DEF Searching, IsList
<1>2. \A s \in E : SearchTyped(s)
  BY DEF Searching, ToSet
<1> HIDE DEF E
<1> DEFINE t == Tail(ss)
<1>3. Len(ss) \in Nat /\ Head(ss) \in E /\ t \in Seq(E) /\ Len(t) = Len(ss) - 1
  BY <1>1, HeadTailProperties
<1> HIDE DEF t
<1>4. Len(ss) > 1 => t # <<>>
  <2>1. Len(<<>>) = 0
    OBVIOUS
  <2> QED BY <1>3, <2>1
<1>5. \A n \in DOMAIN t : t[n] \in E
  BY <1>3
<1>6. IsList(t)
  BY <1>3, ListOf
<1> QED BY <1>2, <1>3, <1>4, <1>5, <1>6 DEF Searching, t

LEMMA SentMore ==
  ASSUME NEW xs, Sending(xs), NEW x
  PROVE  /\ Append(xs, x) # <<>> /\ Append(xs, x)[Len(Append(xs, x))] = x
         /\ PutRight(x) => Sending(Append(xs, x))
         /\ PutRight(x) /\ xs # <<>> => Sending([xs EXCEPT ![Len(xs)] = x])
<1> DEFINE E == ToSet(xs) \cup {x}
           u == Append(xs, x)
           v == [xs EXCEPT ![Len(xs)] = x]
<1>1. xs \in Seq(E) /\ x \in E
  <2> DEFINE A == ToSet(xs)
  <2>1. xs \in Seq(A)
    BY DEF Sending, IsList
  <2> HIDE DEF A
  <2> QED BY <2>1 DEF A
<1>2. PutRight(x) => \A y \in E : PutRight(y)
  BY DEF Sending, ToSet
<1> HIDE DEF E
<1>3. u \in Seq(E) /\ u # <<>> /\ u[Len(u)] = x
  BY <1>1
<1>6. v \in Seq(E)
  <2>1. Len(xs) \in Nat /\ xs \in [1..Len(xs) -> E]
    BY <1>1
  <2>2. v \in [1..Len(xs) -> E]
    BY <1>1, <2>1
  <2> QED BY <2>1, <2>2
<1> HIDE DEF u, v
<1>4. IsList(u) /\ IsList(v) /\ (\A n \in DOMAIN u : u[n] \in E) /\ \A n \in DOMAIN v : v[n] \in E
  BY <1>3, <1>6, ListOf
<1>5. PutRight(x) => Sending(u) /\ Sending(v)
  BY <1>2, <1>4 DEF Sending
<1> QED BY <1>3, <1>5 DEF u, v

QueriesTyped == \A n \in QueryNames : QueryTyped(queries[n])
RunnersAsk == \A r \in Runners : Asks(runner[r])

LEMMA BeginAsks ==
  ASSUME QueriesTyped, NEW r, NEW c \in Commands, BeginWrite(r, c) \/ BeginSearch(r, c)
  PROVE  \E q, stage, s : QueryTyped(q) /\ stage \in {"failed", "store", "connect"}
                          /\ Begins(r, c, stage, q, s)
<1>1. c.name \in QueryNames /\ OfLists(c.given)
  BY SavedQueriesAssumption, ListsAssumption
<1>2. QueryTyped(queries[c.name]) /\ QueryTyped(EmptyQuery)
  BY <1>1, NothingTyped DEF QueriesTyped
<1>3. QueryTyped([EmptyQuery EXCEPT !.set = c.given])
  BY <1>1, <1>2 DEF QueryTyped, QueryFieldNames
<1>4. c.url # <<>> => QueryTyped(ParsedUrl(c.url[1])) /\ QueryTyped(QueryFromUrl(c))
  BY CommandUrlTyped
<1>5. CASE BeginWrite(r, c)
  BY <1>2, <1>3, <1>4, <1>5 DEF BeginWrite, RefusedAt
<1>6. CASE BeginSearch(r, c)
  BY <1>2, <1>4, <1>6 DEF BeginSearch, RefusedAt
<1> QED BY <1>5, <1>6

LEMMA BegunAsks ==
  ASSUME NEW c \in Commands, NEW q, QueryTyped(q), NEW s,
         NEW stage, stage \in {"failed", "store", "connect"}
  PROVE  Asks(AtWork(c, stage, q, s))
<1> DEFINE w == AtWork(c, stage, q, s)
           ss == Searches(c, q)
<1>1. /\ w.stage = stage /\ w.query = q /\ w.sent = <<>>
      /\ w.todo = IF stage = "connect" THEN ss ELSE <<>>
  BY DEF AtWork
<1>2. Searching(ss) /\ ss # <<>>
  BY SearchesTyped
<1> HIDE DEF w, ss
<1>3. Asks(w)
  BY <1>1, <1>2, NothingSent DEF Asks
<1> QED BY <1>3 DEF w

\* A process goes on with its command.
LEMMA StillAsks ==
  ASSUME NEW w, Asks(w), w.stage # "idle",
         NEW v, v.query = w.query, Searching(v.todo), Sending(v.sent),
         v.stage \in {"connect", "ask", "fallback"} => v.todo # <<>>,
         v.stage = "fallback" => v.sent # <<>> /\ Repeatable(v.sent[Len(v.sent)], Head(v.todo))
  PROVE  Asks(v)
  BY DEF Asks

LEMMA StageAsks ==
  ASSUME NEW w, Asks(w), w.stage # "idle", DOMAIN w = WorkFields,
         NEW s \in {"ask", "done", "failed"}, s = "ask" => w.stage = "connect"
  PROVE  \A server2 : Asks([w EXCEPT !.server = server2, !.stage = s])
                      /\ Asks([w EXCEPT !.stage = s])
<1> TAKE server2
<1> DEFINE v == [w EXCEPT !.server = server2, !.stage = s]
           u == [w EXCEPT !.stage = s]
<1>1. /\ v.query = w.query /\ v.todo = w.todo /\ v.sent = w.sent /\ v.stage = s
      /\ u.query = w.query /\ u.todo = w.todo /\ u.sent = w.sent /\ u.stage = s
  BY DEF WorkFields
<1> HIDE DEF v, u
<1>2. Asks(v) /\ Asks(u)
  BY <1>1 DEF Asks
<1> QED BY <1>2 DEF v, u

LEMMA AskAsks ==
  ASSUME NEW r, WorkShaped(runner[r]), Asks(runner[r]), AskServer(r)
  PROVE  \E v : runner' = [runner EXCEPT ![r] = v] /\ Asks(v)
<1> DEFINE w == runner[r]
           s == Head(w.todo)
           via == Via(r)
           x == [search |-> s, requests |-> <<PutTo(s, via)>>]
           sent == Append(w.sent, x)
<1>1. w.stage = "ask" /\ DOMAIN w = WorkFields
  BY DEF AskServer, WorkShaped
<1>2. \/ runner' = [runner EXCEPT ![r].stage = "failed"]
      \/ /\ ~Invalid(s, via)
         /\ \/ runner' = [runner EXCEPT ![r].sent = sent, ![r].stage = "failed"]
            \/ runner' = [runner EXCEPT ![r].sent = sent, ![r].todo = Tail(@), ![r].stage = After(w)]
            \/ /\ MayFallBack(r, s)
               /\ runner' = [runner EXCEPT ![r].sent = sent, ![r].stage = "fallback"]
  BY DEF AskServer, To
<1>3. After(w) \in {"ask", "save", "done"} /\ (After(w) = "ask" => Len(w.todo) > 1)
  BY DEF After
<1>4. Searching(w.todo) /\ w.todo # <<>> /\ Sending(w.sent) /\ QueryTyped(w.query)
  BY <1>1 DEF Asks
<1>5. SearchTyped(s) /\ Searching(Tail(w.todo)) /\ (Len(w.todo) > 1 => Tail(w.todo) # <<>>)
  BY <1>4, NextSearch
<1>6. MayFallBack(r, s) => via = "rest" /\ s.raw = <<>>
  BY DEF MayFallBack, Via
<1>7. ~Invalid(s, via) => PutRight(x)
  BY <1>5 DEF PutRight, Fits
<1>8. ~Invalid(s, via) /\ MayFallBack(r, s) => Repeatable(x, s)
  BY <1>5, <1>6 DEF Repeatable, Fits
<1> HIDE DEF x, via
<1>9. sent # <<>> /\ sent[Len(sent)] = x /\ (PutRight(x) => Sending(sent))
  BY <1>4, SentMore
<1> HIDE DEF sent
<1>10. CASE runner' = [runner EXCEPT ![r].stage = "failed"]
  BY <1>1, <1>10, StageAsks
<1>11. CASE /\ ~Invalid(s, via)
            /\ runner' = [runner EXCEPT ![r].sent = sent, ![r].stage = "failed"]
  <2> DEFINE v == [w EXCEPT !.sent = sent, !.stage = "failed"]
  <2>1. v.query = w.query /\ v.todo = w.todo /\ v.sent = sent /\ v.stage = "failed"
    BY <1>1 DEF WorkFields
  <2>2. runner' = [runner EXCEPT ![r] = v]
    BY <1>11
  <2> HIDE DEF v
  <2>3. Asks(v)
    BY <1>1, <1>4, <1>7, <1>9, <1>11, <2>1, StillAsks
  <2> QED BY <2>2, <2>3
<1>12. CASE /\ ~Invalid(s, via)
            /\ runner' = [runner EXCEPT ![r].sent = sent, ![r].todo = Tail(@), ![r].stage = After(w)]
  <2> DEFINE v == [w EXCEPT !.sent = sent, !.todo = Tail(@), !.stage = After(w)]
  <2>1. v.query = w.query /\ v.todo = Tail(w.todo) /\ v.sent = sent /\ v.stage = After(w)
    BY <1>1 DEF WorkFields
  <2>2. runner' = [runner EXCEPT ![r] = v]
    BY <1>12
  <2> HIDE DEF v
  <2>3. Asks(v)
    BY <1>1, <1>3, <1>5, <1>7, <1>9, <1>12, <2>1, StillAsks
  <2> QED BY <2>2, <2>3
<1>13. CASE /\ ~Invalid(s, via) /\ MayFallBack(r, s)
            /\ runner' = [runner EXCEPT ![r].sent = sent, ![r].stage = "fallback"]
  <2> DEFINE v == [w EXCEPT !.sent = sent, !.stage = "fallback"]
  <2>1. v.query = w.query /\ v.todo = w.todo /\ v.sent = sent /\ v.stage = "fallback"
    BY <1>1 DEF WorkFields
  <2>2. runner' = [runner EXCEPT ![r] = v]
    BY <1>13
  <2> HIDE DEF v
  <2>3. Asks(v)
    BY <1>1, <1>4, <1>7, <1>8, <1>9, <1>13, <2>1, StillAsks
  <2> QED BY <2>2, <2>3
<1> QED BY <1>2, <1>10, <1>11, <1>12, <1>13

LEMMA FallBackAsks ==
  ASSUME NEW r, WorkShaped(runner[r]), Asks(runner[r]), FallBack(r)
  PROVE  \E v : runner' = [runner EXCEPT ![r] = v] /\ Asks(v)
<1> DEFINE w == runner[r]
           s == Head(w.todo)
           put == PutTo(s, "xmlrpc")
           x == w.sent[Len(w.sent)]
           y == [x EXCEPT !.requests = Append(@, put)]
           sent == [w.sent EXCEPT ![Len(w.sent)] = y]
<1>1. w.stage = "fallback" /\ DOMAIN w = WorkFields
  BY DEF FallBack, WorkShaped
<1>2. \/ runner' = [runner EXCEPT ![r].sent = sent, ![r].stage = "failed"]
      \/ runner' = [runner EXCEPT ![r].sent = sent, ![r].todo = Tail(@), ![r].stage = After(w)]
  BY DEF FallBack
<1>3. After(w) \in {"ask", "save", "done"} /\ (After(w) = "ask" => Len(w.todo) > 1)
  BY DEF After
<1>4. /\ Searching(w.todo) /\ w.todo # <<>> /\ Sending(w.sent) /\ QueryTyped(w.query)
      /\ w.sent # <<>> /\ Repeatable(x, s)
  BY <1>1 DEF Asks
<1>5. SearchTyped(s) /\ Searching(Tail(w.todo)) /\ (Len(w.todo) > 1 => Tail(w.todo) # <<>>)
  BY <1>4, NextSearch
<1> HIDE DEF x
<1>6. PutRight(y)
  <2>1. /\ DOMAIN x = {"search", "requests"} /\ x.search = s /\ s.raw = <<>> /\ Fits(s, "rest")
        /\ x.requests = <<PutTo(s, "rest")>>
    BY <1>4 DEF Repeatable
  <2>2. DOMAIN y = {"search", "requests"} /\ y.search = s /\ y.requests = Append(x.requests, put)
    BY <2>1
  <2> DEFINE p == PutTo(s, "rest")
  <2> HIDE DEF y, p, put
  <2>3. Append(<<p>>, put) = <<p, put>>
    BY PairOfOne
  <2>4. y.requests = <<p, put>>
    BY <2>1, <2>2, <2>3 DEF p
  <2> QED BY <2>1, <2>2, <2>4 DEF PutRight, p, put
<1> HIDE DEF y
<1>7. Sending(sent)
  BY <1>4, <1>6, SentMore
<1> HIDE DEF sent
<1>8. CASE runner' = [runner EXCEPT ![r].sent = sent, ![r].stage = "failed"]
  <2> DEFINE v == [w EXCEPT !.sent = sent, !.stage = "failed"]
  <2>1. v.query = w.query /\ v.todo = w.todo /\ v.sent = sent /\ v.stage = "failed"
    BY <1>1 DEF WorkFields
  <2>2. runner' = [runner EXCEPT ![r] = v]
    BY <1>8
  <2> HIDE DEF v
  <2>3. Asks(v)
    BY <1>1, <1>4, <1>7, <2>1, StillAsks
  <2> QED BY <2>2, <2>3
<1>9. CASE runner' = [runner EXCEPT ![r].sent = sent, ![r].todo = Tail(@), ![r].stage = After(w)]
  <2> DEFINE v == [w EXCEPT !.sent = sent, !.todo = Tail(@), !.stage = After(w)]
  <2>1. v.query = w.query /\ v.todo = Tail(w.todo) /\ v.sent = sent /\ v.stage = After(w)
    BY <1>1 DEF WorkFields
  <2>2. runner' = [runner EXCEPT ![r] = v]
    BY <1>9
  <2> HIDE DEF v
  <2>3. Asks(v)
    BY <1>1, <1>3, <1>5, <1>7, <2>1, StillAsks
  <2> QED BY <2>2, <2>3
<1> QED BY <1>2, <1>8, <1>9

\* A step of the commands, as OneProcessSteps has it, leaves what is asked right.
LEMMA OneProcessAsks ==
  ASSUME RunnersShaped, QueriesTyped, RunnersAsk, QueriesNext
  PROVE  \/ UNCHANGED runner
         \/ \E r \in Runners : \E v : runner' = [runner EXCEPT ![r] = v] /\ Asks(v)
<1>1. CASE \E name \in DOMAIN Hosts : RemoveServer(name)
  BY <1>1 DEF RemoveServer
<1>2. ASSUME NEW r \in Runners,
             \/ BeginCommand(r) \/ SaveQuery(r) \/ DeleteQuery(r) \/ UpdateQuery(r)
             \/ Connect(r) \/ AskServer(r) \/ FallBack(r) \/ SaveAs(r)
      PROVE  \E v : runner' = [runner EXCEPT ![r] = v] /\ Asks(v)
  <2>1. WorkShaped(runner[r]) /\ Asks(runner[r])
    BY DEF RunnersShaped, RunnersAsk
  <2>2. CASE BeginCommand(r)
    <3>1. PICK c \in Commands : BeginWrite(r, c) \/ BeginSearch(r, c)
      BY <2>2 DEF BeginCommand
    <3>2. PICK q, stage, s : /\ QueryTyped(q) /\ stage \in {"failed", "store", "connect"}
                             /\ Begins(r, c, stage, q, s)
      BY <3>1, BeginAsks
    <3>3. Asks(AtWork(c, stage, q, s))
      BY <3>2, BegunAsks
    <3>4. QED
      BY <3>2, <3>3 DEF Begins
  <2>3. CASE SaveQuery(r) \/ DeleteQuery(r) \/ UpdateQuery(r) \/ SaveAs(r)
    <3>1. runner[r].stage \in {"store", "save"} /\ DOMAIN runner[r] = WorkFields
      BY <2>1, <2>3 DEF SaveQuery, DeleteQuery, UpdateQuery, SaveAs, WorkShaped
    <3>2. To(r, "done") \/ To(r, "failed")
      BY <2>3 DEF SaveQuery, DeleteQuery, UpdateQuery, SaveAs, Put, Rejected
    <3>3. PICK s \in {"done", "failed"} : To(r, s)
      BY <3>2
    <3> DEFINE v == [runner[r] EXCEPT !.stage = s]
    <3>4. Asks(v)
      BY <2>1, <3>1, <3>3, StageAsks
    <3>5. runner' = [runner EXCEPT ![r] = v]
      BY <3>3 DEF To
    <3> HIDE DEF v
    <3> QED BY <3>4, <3>5
  <2>4. CASE Connect(r)
    <3> DEFINE w == runner[r]
               name == IF w.server = Nothing THEN DefaultServer ELSE w.server
               s == IF /\ name \in DOMAIN hosts
                       /\ "savedsearch" \in DOMAIN w.cmd.given => name \in Extended
                       /\ ~Nameless(w.cmd)
                    THEN "ask" ELSE "failed"
               v == [w EXCEPT !.server = name, !.stage = s]
    <3>1. runner' = [runner EXCEPT ![r].server = name, ![r].stage = s]
          /\ s \in {"ask", "failed"} /\ w.stage = "connect"
      BY <2>4 DEF Connect
    <3> HIDE DEF name, s
    <3>2. runner' = [runner EXCEPT ![r] = v]
      BY <3>1
    <3>3. DOMAIN w = WorkFields
      BY <2>1, <3>1 DEF WorkShaped
    <3>4. Asks(v)
      BY <2>1, <3>1, <3>3, StageAsks
    <3> HIDE DEF v
    <3> QED BY <3>2, <3>4
  <2>5. QED
    BY <1>2, <2>1, <2>2, <2>3, <2>4, AskAsks, FallBackAsks
<1>3. QED
  BY <1>1, <1>2 DEF QueriesNext

LEMMA RunnersStillAsk ==
  ASSUME RunnersShaped, QueriesTyped, RunnersAsk, [QueriesNext]_queryVars
  PROVE  RunnersAsk'
<1>1. CASE UNCHANGED runner
  BY <1>1 DEF RunnersAsk
<1>2. ASSUME NEW r \in Runners, NEW v, runner' = [runner EXCEPT ![r] = v], Asks(v)
      PROVE  RunnersAsk'
  <2>1. \A p \in Runners : runner'[p] = IF p = r THEN v ELSE runner[p]
    BY <1>2 DEF RunnersShaped
  <2>2. QED
    BY <1>2, <2>1 DEF RunnersAsk
<1>3. QED
  BY <1>1, <1>2, OneProcessAsks DEF queryVars

\* Every write of the file leaves lists there, and charts apart.
LEMMA QueriesStayTyped ==
  ASSUME QueriesShaped, RunnersShaped, QueriesTyped, RunnersAsk, [QueriesNext]_queryVars
  PROVE  QueriesTyped'
<1>1. ASSUME NEW name, NEW q, QueryTyped(q), queries' = [queries EXCEPT ![name] = q]
      PROVE  QueriesTyped'
  BY <1>1 DEF QueriesTyped, QueriesShaped
<1>2. ASSUME UNCHANGED queries
      PROVE  QueriesTyped'
  BY <1>2 DEF QueriesTyped
<1>3. ASSUME NEW r \in Runners, SaveQuery(r) \/ DeleteQuery(r) \/ UpdateQuery(r) \/ SaveAs(r)
      PROVE  QueriesTyped'
  <2>1. runner[r].stage # "idle"
    BY <1>3 DEF SaveQuery, DeleteQuery, UpdateQuery, SaveAs
  <2>2. /\ QueryTyped(runner[r].query) /\ runner[r].cmd \in Commands
        /\ runner[r].cmd.name \in QueryNames
    BY <2>1, SavedQueriesAssumption DEF RunnersShaped, WorkShaped, RunnersAsk, Asks
  <2>3. QueryTyped(Updated(queries[runner[r].cmd.name], runner[r].cmd))
    BY <2>2, UpdatedTyped DEF QueriesTyped
  <2>4. CASE SaveQuery(r) \/ SaveAs(r)
    <3>1. \E name : queries' = [queries EXCEPT ![name] = runner[r].query]
      BY <2>4 DEF SaveQuery, SaveAs, Put
    <3>2. QED
      BY <1>1, <2>2, <3>1
  <2>5. CASE DeleteQuery(r)
    BY <1>1, <1>2, <2>5, NothingTyped DEF DeleteQuery, Put, Rejected
  <2>6. CASE UpdateQuery(r)
    <3> DEFINE c == runner[r].cmd
               q == IF c.url # <<>> THEN runner[r].query ELSE Updated(queries[c.name], c)
    <3>1. QueryTyped(q)
      BY <2>2, <2>3
    <3> HIDE DEF q
    <3>2. UNCHANGED queries \/ queries' = [queries EXCEPT ![c.name] = q]
      BY <2>6 DEF UpdateQuery, Put, Rejected, q
    <3>3. QED
      BY <1>1, <1>2, <3>1, <3>2
  <2>7. QED
    BY <1>3, <2>4, <2>5, <2>6
<1>4. ASSUME NEW r \in Runners, BeginCommand(r) \/ Connect(r) \/ AskServer(r) \/ FallBack(r)
      PROVE  UNCHANGED queries
  BY <1>4 DEF BeginCommand, Connect, AskServer, FallBack
<1>5. QED
  BY <1>2, <1>3, <1>4 DEF QueriesNext, RemoveServer, queryVars

AsksInv == QueriesTyped /\ RunnersAsk

LEMMA AsksHold == QueriesSpec => []AsksInv
<1>1. QueriesInit => AsksInv
  <2> SUFFICES ASSUME QueriesInit
               PROVE  AsksInv
    OBVIOUS
  <2>1. \A q \in Stored : QueryTyped(q)
    BY SavedQueriesAssumption, ListsAssumption, ChartsAssumption DEF QueryTyped, QueryFieldNames
  <2>2. \A n \in QueryNames : queries[n] \in Stored \cup {NoQuery}
    BY DEF QueriesInit
  <2>3. \A r \in Runners : runner[r].stage = "idle"
    BY DEF QueriesInit
  <2>4. QED
    BY <2>1, <2>2, <2>3, NothingTyped DEF AsksInv, QueriesTyped, RunnersAsk, Asks
<1>2. QueriesInv /\ AsksInv /\ [QueriesNext]_queryVars => AsksInv'
  BY RunnersStillAsk, QueriesStayTyped DEF QueriesInv, AsksInv
<1>3. QED
  BY <1>1, <1>2, QueriesHold, PTL DEF QueriesSpec

LEMMA AllSentRight ==
  ASSUME AsksInv, NEW x \in Sent
  PROVE  PutRight(x)
<1>1. PICK r \in Runners : x \in ToSet(SentBy(r))
  BY DEF Sent
<1>2. runner[r].stage # "idle" /\ x \in ToSet(runner[r].sent)
  BY <1>1, EmptyList DEF SentBy
<1>3. Sending(runner[r].sent)
  BY <1>2 DEF AsksInv, RunnersAsk, Asks
<1>4. PICK n \in DOMAIN runner[r].sent : x = runner[r].sent[n]
  BY <1>2 DEF ToSet
<1>5. QED
  BY <1>3, <1>4 DEF Sending

\* No two terms of a request are put into one slot of the boolean chart, whatever
\* is filtered by, negated or matched, and whatever charts a URL brings, as long
\* as those do not share a slot there (append_match_type_params,
\* append_negated_params, has_raw_boolean_chart_params).
THEOREM TermsApart == QueriesSpec => []ChartsDistinct
<1>1. ASSUME AsksInv, NEW x \in Sent, NEW n \in DOMAIN x.requests
      PROVE  SlotsDistinct(x.requests[n])
  <2>1. PICK via : /\ Fits(x.search, via)
                   /\ \/ x.requests = <<PutTo(x.search, via)>>
                      \/ /\ via = "rest" /\ x.search.raw = <<>>
                         /\ x.requests = <<PutTo(x.search, "rest"), PutTo(x.search, "xmlrpc")>>
    BY <1>1, AllSentRight DEF PutRight
  <2> DEFINE p == PutTo(x.search, via)
             y == PutTo(x.search, "xmlrpc")
  <2>2. SlotsDistinct(p) /\ SlotsDistinct(y)
    BY <2>1, PutApart
  <2>3. x.requests = <<p>> \/ x.requests = <<p, y>>
    BY <2>1
  <2> HIDE DEF p, y
  <2>4. x.requests[n] = p \/ x.requests[n] = y
    BY <1>1, <2>3
  <2>5. QED
    BY <2>2, <2>4
<1>2. AsksInv => ChartsDistinct
  BY <1>1 DEF ChartsDistinct
<1>3. QED
  BY <1>2, AsksHold, PTL

\* A search that is put over XML-RPC after REST found nothing is read by the server
\* as the same filters, terms, ids and window, and differs in its order alone: the
\* struct is put together by code of its own, an array where REST repeats a name, ids
\* for id, and terms field by field where REST has the negated ones last; and
\* nothing in it replaces anything (append_*_params and search_bugs_rest,
\* add_vec_filters and search_bugs).
THEOREM FallbacksAskTheSame == QueriesSpec => []FallbackAsksTheSame
<1>1. ASSUME AsksInv, NEW x \in Sent, Len(x.requests) = 2
      PROVE  {a \in RestReads(x.requests[1]) : a.key # "order"} = XmlRpcReads(x.requests[2])
  <2>1. PICK via : /\ Fits(x.search, via)
                   /\ \/ x.requests = <<PutTo(x.search, via)>>
                      \/ /\ via = "rest" /\ x.search.raw = <<>>
                         /\ x.requests = <<PutTo(x.search, "rest"), PutTo(x.search, "xmlrpc")>>
    BY <1>1, AllSentRight DEF PutRight
  <2> DEFINE p == PutTo(x.search, "rest")
             y == PutTo(x.search, "xmlrpc")
             z == PutTo(x.search, via)
  <2>2. x.requests = <<z>> \/ (via = "rest" /\ x.search.raw = <<>> /\ x.requests = <<p, y>>)
    BY <2>1
  <2> HIDE DEF p, y, z
  <2>3. Len(<<z>>) = 1
    OBVIOUS
  <2>4. via = "rest" /\ x.search.raw = <<>> /\ x.requests = <<p, y>>
    BY <1>1, <2>2, <2>3
  <2>5. {a \in RestReads(p) : a.key # "order"} = XmlRpcReads(y)
    BY <2>1, <2>4, PutAlike DEF p, y
  <2>6. x.requests[1] = p /\ x.requests[2] = y
    BY <2>4
  <2>7. QED
    BY <2>5, <2>6
<1>2. AsksInv => FallbackAsksTheSame
  BY <1>1 DEF FallbackAsksTheSame
<1>3. QED
  BY <1>2, AsksHold, PTL
=============================================================================
