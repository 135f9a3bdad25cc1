------------------------------- MODULE MenuProofs -------------------------------
(***************************************************************************)
(* From a vendor's numbers to what stands on the screen: what the conversions *)
(* guarantee for every input, and the invariants of the menu, for all        *)
(* documents, settings, widths of the integers and lengths of texts.         *)
(***************************************************************************)
EXTENDS MenuView, SequenceTheorems, FiniteSetTheorems, WellFoundedInduction, TLAPS

-------------------------------------------------------------------------------
(* Induction and recursion *)

\* What holds at 0 and is handed on holds everywhere.
LEMMA Induction ==
    ASSUME NEW S, 0 \in S, \A n \in Nat : n \in S => n + 1 \in S
    PROVE  \A n \in Nat : n \in S
<1> DEFINE Rest == {n \in Nat : n \notin S}
<1>1. SUFFICES ASSUME Rest # {} PROVE FALSE
  OBVIOUS
<1>2. PICK x \in Rest : \A y \in Rest : <<y, x>> \notin OpToRel(<, Nat)
  BY <1>1, NatLessThanWellFounded, WFMin
<1>3. x \in Nat /\ x # 0 /\ x \notin S
  OBVIOUS
<1>4. x - 1 \in Nat /\ x - 1 < x
  BY <1>3
<1>5. x - 1 \in S
  BY <1>2, <1>3, <1>4 DEF OpToRel
<1>6. QED
  BY <1>3, <1>4, <1>5

\* A first value and a step make a function.
LEMMA Recursion ==
    ASSUME NEW V, NEW a \in V, NEW step \in [Nat -> [V -> V]]
    PROVE  \E f \in [Nat -> V] : f[0] = a /\ \A n \in Nat : f[n + 1] = step[n][f[n]]
<1> DEFINE Upto(n) == {g \in [0 .. n -> V] :
                          g[0] = a /\ \A i \in 0 .. n - 1 : g[i + 1] = step[i][g[i]]}
<1>1. \A n \in Nat : Upto(n) # {}
  <2> DEFINE S == {n \in Nat : Upto(n) # {}}
  <2>1. 0 \in S
    <3>1. [i \in 0 .. 0 |-> a] \in Upto(0)
      OBVIOUS
    <3>2. QED
      BY <3>1
  <2>2. ASSUME NEW n \in Nat, n \in S PROVE n + 1 \in S
    <3>1. PICK g \in Upto(n) : TRUE
      BY <2>2
    <3> DEFINE h == [i \in 0 .. n + 1 |-> IF i = n + 1 THEN step[n][g[n]] ELSE g[i]]
    <3>2. g \in [0 .. n -> V] /\ g[0] = a /\ \A i \in 0 .. n - 1 : g[i + 1] = step[i][g[i]]
      BY <3>1
    <3>3. h \in [0 .. n + 1 -> V]
      BY <3>2
    <3>4. h[0] = a
      BY <3>2
    <3>5. ASSUME NEW i \in 0 .. n PROVE h[i + 1] = step[i][h[i]]
      <4>1. CASE i = n
        BY <4>1
      <4>2. CASE i # n
        <5>1. i \in 0 .. n - 1 /\ h[i] = g[i] /\ h[i + 1] = g[i + 1]
          BY <4>2
        <5>2. QED
          BY <3>2, <5>1
      <4>3. QED
        BY <4>1, <4>2
    <3> HIDE DEF h
    <3>6. h \in Upto(n + 1)
      BY <3>3, <3>4, <3>5
    <3>7. QED
      BY <3>6
  <2> HIDE DEF S
  <2>3. \A n \in Nat : n \in S
    BY <2>1, <2>2, Induction
  <2>4. QED
    BY <2>3 DEF S
<1>2. \A n, m \in Nat : \A g \in Upto(n), h \in Upto(m) :
         \A i \in Nat : i <= n /\ i <= m => g[i] = h[i]
  <2> SUFFICES ASSUME NEW n \in Nat, NEW m \in Nat, NEW g \in Upto(n), NEW h \in Upto(m)
               PROVE  \A i \in Nat : i <= n /\ i <= m => g[i] = h[i]
    OBVIOUS
  <2> DEFINE S == {i \in Nat : i <= n /\ i <= m => g[i] = h[i]}
  <2>1. 0 \in S
    OBVIOUS
  <2>2. ASSUME NEW i \in Nat, i \in S PROVE i + 1 \in S
    <3>1. SUFFICES ASSUME i + 1 <= n, i + 1 <= m PROVE g[i + 1] = h[i + 1]
      OBVIOUS
    <3>2. g[i] = h[i]
      BY <2>2, <3>1
    <3>3. g[i + 1] = step[i][g[i]] /\ h[i + 1] = step[i][h[i]]
      BY <3>1
    <3>4. QED
      BY <3>2, <3>3
  <2> HIDE DEF S
  <2>3. \A i \in Nat : i \in S
    BY <2>1, <2>2, Induction
  <2>4. QED
    BY <2>3 DEF S
<1> DEFINE pick(n) == CHOOSE g \in Upto(n) : TRUE
<1>3. \A n \in Nat : pick(n) \in Upto(n)
  BY <1>1
<1>4. \A n \in Nat :
         /\ pick(n) \in [0 .. n -> V] /\ pick(n)[0] = a
         /\ \A i \in 0 .. n - 1 : pick(n)[i + 1] = step[i][pick(n)[i]]
  BY <1>3
<1> HIDE DEF pick, Upto
<1>5. ASSUME NEW n \in Nat PROVE pick(n + 1)[n] = pick(n)[n]
  <2>1. n + 1 \in Nat /\ pick(n + 1) \in Upto(n + 1) /\ pick(n) \in Upto(n)
    BY <1>3
  <2>2. QED
    BY <1>2, <2>1
<1> DEFINE f == [n \in Nat |-> pick(n)[n]]
<1>6. f \in [Nat -> V] /\ f[0] = a
  BY <1>4
<1>7. ASSUME NEW n \in Nat PROVE f[n + 1] = step[n][f[n]]
  <2>1. pick(n + 1)[n + 1] = step[n][pick(n + 1)[n]]
    BY <1>4
  <2>2. QED
    BY <1>5, <2>1
<1>8. QED
  BY <1>6, <1>7
-------------------------------------------------------------------------------
(* Sequences, of whatever values *)

IsSeq(s) == s \in Seq(Range(s))

LEMMA SeqFrom ==
    ASSUME NEW S, NEW s \in Seq(S)
    PROVE  IsSeq(s)
<1>1. Len(s) \in Nat /\ s \in [1 .. Len(s) -> S] /\ DOMAIN s = 1 .. Len(s)
  BY LenProperties
<1>2. s \in [1 .. Len(s) -> Range(s)]
  BY <1>1 DEF Range
<1> QED
  BY <1>1, <1>2, SeqDef DEF IsSeq

LEMMA SeqIsFunction ==
    ASSUME NEW s, IsSeq(s)
    PROVE  Len(s) \in Nat /\ DOMAIN s = 1 .. Len(s) /\ s = [i \in 1 .. Len(s) |-> s[i]]
<1>1. Len(s) \in Nat /\ s \in [1 .. Len(s) -> Range(s)] /\ DOMAIN s = 1 .. Len(s)
  BY LenProperties DEF IsSeq
<1> QED
  BY <1>1

LEMMA FunctionIsSeq ==
    ASSUME NEW n \in Nat, NEW s, s = [i \in 1 .. n |-> s[i]]
    PROVE  IsSeq(s) /\ Len(s) = n
<1>1. DOMAIN s = 1 .. n
  OBVIOUS
<1>2. s \in [1 .. n -> Range(s)]
  BY <1>1 DEF Range
<1>3. s \in Seq(Range(s))
  BY <1>2, SeqDef
<1>4. Len(s) \in Nat /\ DOMAIN s = 1 .. Len(s)
  BY <1>3, LenProperties
<1>5. Len(s) = n
  BY <1>1, <1>4
<1> QED
  BY <1>3, <1>5 DEF IsSeq

LEMMA SeqSame ==
    ASSUME NEW s, NEW t, IsSeq(s), IsSeq(t), Len(s) = Len(t), \A i \in 1 .. Len(s) : s[i] = t[i]
    PROVE  s = t
  BY SeqIsFunction

LEMMA SeqEmpty == IsSeq(<<>>) /\ Len(<<>>) = 0 /\ \A s : IsSeq(s) /\ Len(s) = 0 => s = <<>>
<1>1. IsSeq(<<>>) /\ Len(<<>>) = 0
  BY SeqFrom, EmptySeq
<1> QED
  BY <1>1, SeqSame

LEMMA SeqOne ==
    ASSUME NEW x
    PROVE  IsSeq(<<x>>) /\ Len(<<x>>) = 1 /\ <<x>>[1] = x /\ <<x>> # <<>>
<1>1. <<x>> \in Seq({x})
  OBVIOUS
<1> QED
  BY <1>1, SeqFrom, SeqEmpty

LEMMA SeqConcat ==
    ASSUME NEW s, NEW t, IsSeq(s), IsSeq(t)
    PROVE  /\ IsSeq(s \o t)
           /\ Len(s \o t) = Len(s) + Len(t)
           /\ \A i \in 1 .. Len(s) + Len(t) :
                  (s \o t)[i] = IF i <= Len(s) THEN s[i] ELSE t[i - Len(s)]
<1> DEFINE S == Range(s) \cup Range(t)
<1>1. s \in Seq(S) /\ t \in Seq(S)
  BY SeqMonotonic DEF IsSeq
<1> HIDE DEF S
<1>2. /\ s \o t \in Seq(S)
      /\ Len(s \o t) = Len(s) + Len(t)
      /\ \A i \in 1 .. Len(s) + Len(t) :
             (s \o t)[i] = IF i <= Len(s) THEN s[i] ELSE t[i - Len(s)]
  BY <1>1, ConcatProperties
<1> QED
  BY <1>2, SeqFrom

LEMMA SeqAssociative ==
    ASSUME NEW s, NEW t, NEW u, IsSeq(s), IsSeq(t), IsSeq(u)
    PROVE  (s \o t) \o u = s \o (t \o u)
<1> DEFINE S == Range(s) \cup Range(t) \cup Range(u)
<1>1. s \in Seq(S) /\ t \in Seq(S) /\ u \in Seq(S)
  BY SeqMonotonic DEF IsSeq
<1> HIDE DEF S
<1> QED
  BY <1>1, ConcatAssociative

LEMMA SeqUnit ==
    ASSUME NEW s, IsSeq(s)
    PROVE  s \o <<>> = s /\ <<>> \o s = s
<1>1. s \in Seq(Range(s))
  BY DEF IsSeq
<1> QED
  BY <1>1, ConcatEmptySeq

\* What a concatenation is made of.
LEMMA RangeConcat ==
    ASSUME NEW s, NEW t, IsSeq(s), IsSeq(t)
    PROVE  Range(s \o t) = Range(s) \cup Range(t)
<1>1. IsSeq(s \o t) /\ Len(s) \in Nat /\ Len(t) \in Nat
  BY SeqConcat, SeqIsFunction
<1>2. /\ DOMAIN s = 1 .. Len(s) /\ DOMAIN t = 1 .. Len(t)
      /\ DOMAIN (s \o t) = 1 .. Len(s) + Len(t)
  BY <1>1, SeqConcat, SeqIsFunction
<1>3. ASSUME NEW x \in Range(s \o t) PROVE x \in Range(s) \cup Range(t)
  <2>1. PICK i \in 1 .. Len(s) + Len(t) : x = (s \o t)[i]
    BY <1>2, <1>3 DEF Range
  <2>2. CASE i <= Len(s)
    BY <1>1, <1>2, <2>1, <2>2, SeqConcat DEF Range
  <2>3. CASE ~(i <= Len(s))
    <3>1. i - Len(s) \in 1 .. Len(t) /\ x = t[i - Len(s)]
      BY <1>1, <2>1, <2>3, SeqConcat
    <3>2. QED
      BY <1>2, <3>1 DEF Range
  <2>4. QED
    BY <2>2, <2>3
<1>4. ASSUME NEW x \in Range(s) PROVE x \in Range(s \o t)
  <2>1. PICK i \in 1 .. Len(s) : x = s[i]
    BY <1>2, <1>4 DEF Range
  <2>2. i \in 1 .. Len(s) + Len(t) /\ x = (s \o t)[i]
    BY <1>1, <2>1, SeqConcat
  <2>3. QED
    BY <1>2, <2>2 DEF Range
<1>5. ASSUME NEW x \in Range(t) PROVE x \in Range(s \o t)
  <2>1. PICK i \in 1 .. Len(t) : x = t[i]
    BY <1>2, <1>5 DEF Range
  <2> DEFINE k == i + Len(s)
  <2>2. k \in 1 .. Len(s) + Len(t) /\ ~(k <= Len(s)) /\ k - Len(s) = i
    BY <1>1, <2>1
  <2>3. (s \o t)[k] = x
    BY <2>1, <2>2, SeqConcat
  <2>4. QED
    BY <1>2, <2>2, <2>3 DEF Range
<1>6. QED
  BY <1>3, <1>4, <1>5

-------------------------------------------------------------------------------
(* FlattenSeq *)

AllSeqs(ss) == IsSeq(ss) /\ \A i \in 1 .. Len(ss) : IsSeq(ss[i])

\* What FlattenSeq goes through, one sequence at a time.
Partial(ss, f) ==
    /\ f[0] = <<>>
    /\ \A i \in 0 .. Len(ss) : IsSeq(f[i])
    /\ \A i, j \in 0 .. Len(ss) : j = i + 1 => f[j] = f[i] \o ss[j]

LEMMA PartialExists ==
    ASSUME NEW ss, AllSeqs(ss)
    PROVE  \E f : Partial(ss, f)
<1> DEFINE n == Len(ss)
           S == UNION {Range(ss[i]) : i \in 1 .. n}
           V == Seq(S)
           step == [i \in Nat |-> [x \in V |-> IF i < n THEN x \o ss[i + 1] ELSE x]]
<1>1. n \in Nat
  BY SeqIsFunction DEF AllSeqs
<1>2. ASSUME NEW i \in 1 .. n PROVE ss[i] \in V
  <2>1. Range(ss[i]) \subseteq S
    OBVIOUS
  <2>2. ss[i] \in Seq(Range(ss[i]))
    BY <1>2 DEF AllSeqs, IsSeq
  <2>3. QED
    BY <2>1, <2>2, SeqMonotonic
<1> HIDE DEF S
<1>3. step \in [Nat -> [V -> V]]
  <2> SUFFICES ASSUME NEW i \in Nat, NEW x \in V, i < n
               PROVE  x \o ss[i + 1] \in V
    OBVIOUS
  <2>1. ss[i + 1] \in V
    BY <1>1, <1>2
  <2>2. QED
    BY <2>1, ConcatProperties
<1>4. <<>> \in V
  BY EmptySeq
<1>5. \E f \in [Nat -> V] : f[0] = <<>> /\ \A i \in Nat : f[i + 1] = step[i][f[i]]
  <2> HIDE DEF V, step
  <2>1. \A a \in V : \A s \in [Nat -> [V -> V]] :
           \E f \in [Nat -> V] : f[0] = a /\ \A i \in Nat : f[i + 1] = s[i][f[i]]
    BY Recursion
  <2>2. QED
    BY <1>3, <1>4, <2>1
<1>6. PICK f \in [Nat -> V] : f[0] = <<>> /\ \A i \in Nat : f[i + 1] = step[i][f[i]]
  BY <1>5
<1>7. ASSUME NEW i \in 0 .. n PROVE IsSeq(f[i])
  <2>1. f[i] \in Seq(S)
    BY <1>1, <1>6
  <2>2. QED
    BY <2>1, SeqFrom
<1>8. ASSUME NEW i \in 0 .. n, NEW j \in 0 .. n, j = i + 1 PROVE f[j] = f[i] \o ss[j]
  <2>1. i \in Nat /\ i < n /\ f[i] \in V
    BY <1>1, <1>6, <1>8
  <2>2. step[i][f[i]] = f[i] \o ss[i + 1]
    BY <2>1
  <2>3. QED
    BY <1>6, <1>8, <2>1, <2>2
<1>9. QED
  BY <1>6, <1>7, <1>8 DEF Partial

LEMMA FlattenIsPartial ==
    ASSUME NEW ss, AllSeqs(ss), NEW f, Partial(ss, f)
    PROVE  FlattenSeq(ss) = f[Len(ss)]
<1> DEFINE n == Len(ss)
           Rec(g) == g = [i \in 1 .. n |-> IF i = 1 THEN ss[i] ELSE g[i - 1] \o ss[i]]
<1>1. n \in Nat /\ IsSeq(ss)
  BY SeqIsFunction DEF AllSeqs
<1>2. CASE n = 0
  <2>1. ss = <<>>
    BY <1>1, <1>2, SeqEmpty
  <2>2. QED
    BY <1>2, <2>1 DEF FlattenSeq, Partial
<1>3. CASE n # 0
  <2> DEFINE h == [i \in 1 .. n |-> f[i]]
  <2>1. f[1] = ss[1]
    <3>1. 0 \in 0 .. n /\ 1 \in 1 .. n /\ 1 \in 0 .. n /\ 1 = 0 + 1
      BY <1>1, <1>3
    <3>2. f[0] = <<>> /\ f[1] = f[0] \o ss[1] /\ IsSeq(ss[1])
      BY <3>1 DEF Partial, AllSeqs
    <3>3. QED
      BY <3>2, SeqUnit
  <2>2. ASSUME NEW i \in 1 .. n, i # 1 PROVE f[i] = f[i - 1] \o ss[i]
    <3>1. i - 1 \in 0 .. n /\ i \in 0 .. n /\ i = (i - 1) + 1
      BY <1>1, <2>2
    <3>2. QED
      BY <3>1 DEF Partial
  <2>3. ASSUME NEW i \in 1 .. n
        PROVE  h[i] = IF i = 1 THEN ss[i] ELSE h[i - 1] \o ss[i]
    <3>1. CASE i = 1
      BY <1>1, <2>1, <3>1
    <3>2. CASE i # 1
      <4>1. i - 1 \in 1 .. n
        BY <1>1, <3>2
      <4>2. QED
        BY <2>2, <3>2, <4>1
    <3>3. QED
      BY <3>1, <3>2
  <2>4. h = [i \in 1 .. n |-> h[i]]
    OBVIOUS
  <2> HIDE DEF h
  <2>5. Rec(h)
    BY <2>3, <2>4
  <2>6. PICK g : Rec(g) /\ FlattenSeq(ss) = g[n]
    BY <1>3, <2>5 DEF FlattenSeq
  <2> DEFINE Q == {i \in Nat : i \in 1 .. n => g[i] = f[i]}
  <2>7. 0 \in Q
    OBVIOUS
  <2>8. ASSUME NEW i \in Nat, i \in Q PROVE i + 1 \in Q
    <3>1. SUFFICES ASSUME i + 1 \in 1 .. n PROVE g[i + 1] = f[i + 1]
      OBVIOUS
    <3>2. CASE i = 0
      BY <2>1, <2>6, <3>1, <3>2
    <3>3. CASE i # 0
      <4>1. i \in 1 .. n /\ (i + 1) - 1 = i /\ i + 1 # 1
        BY <1>1, <3>1, <3>3
      <4>2. g[i + 1] = g[i] \o ss[i + 1]
        BY <2>6, <3>1, <4>1
      <4>3. QED
        BY <2>2, <2>8, <3>1, <4>1, <4>2
    <3>4. QED
      BY <3>2, <3>3
  <2> HIDE DEF Q
  <2>9. \A i \in Nat : i \in Q
    BY <2>7, <2>8, Induction
  <2>10. n \in 1 .. n
    BY <1>1, <1>3
  <2>11. QED
    BY <1>1, <2>6, <2>9, <2>10 DEF Q
<1>4. QED
  BY <1>2, <1>3

LEMMA FlattenEmpty == FlattenSeq(<<>>) = <<>>
  BY SeqEmpty DEF FlattenSeq

LEMMA FlattenOne ==
    ASSUME NEW s, IsSeq(s)
    PROVE  FlattenSeq(<<s>>) = s
<1>1. AllSeqs(<<s>>) /\ Len(<<s>>) = 1 /\ <<s>>[1] = s
  BY SeqOne DEF AllSeqs
<1>2. PICK f : Partial(<<s>>, f)
  BY <1>1, PartialExists
<1>3. 0 \in 0 .. Len(<<s>>) /\ 1 \in 0 .. Len(<<s>>) /\ 1 = 0 + 1
  BY <1>1
<1>4. f[0] = <<>> /\ f[1] = f[0] \o s
  BY <1>1, <1>2, <1>3 DEF Partial
<1>5. FlattenSeq(<<s>>) = f[1]
  BY <1>1, <1>2, FlattenIsPartial
<1>6. QED
  BY <1>4, <1>5, SeqUnit

LEMMA FlattenIsSeq ==
    ASSUME NEW ss, AllSeqs(ss)
    PROVE  IsSeq(FlattenSeq(ss))
<1>1. PICK f : Partial(ss, f)
  BY PartialExists
<1>2. Len(ss) \in Nat
  BY SeqIsFunction DEF AllSeqs
<1>3. IsSeq(f[Len(ss)])
  BY <1>1, <1>2 DEF Partial
<1>4. FlattenSeq(ss) = f[Len(ss)]
  BY <1>1, FlattenIsPartial
<1>5. QED
  BY <1>3, <1>4

LEMMA AllSeqsConcat ==
    ASSUME NEW ss, NEW tt, AllSeqs(ss), AllSeqs(tt)
    PROVE  AllSeqs(ss \o tt)
<1>1. /\ IsSeq(ss) /\ IsSeq(tt) /\ IsSeq(ss \o tt)
      /\ Len(ss) \in Nat /\ Len(tt) \in Nat /\ Len(ss \o tt) = Len(ss) + Len(tt)
  BY SeqIsFunction, SeqConcat DEF AllSeqs
<1>2. ASSUME NEW i \in 1 .. Len(ss) + Len(tt) PROVE IsSeq((ss \o tt)[i])
  <2>1. CASE i <= Len(ss)
    BY <1>1, <2>1, SeqConcat DEF AllSeqs
  <2>2. CASE ~(i <= Len(ss))
    <3>1. i - Len(ss) \in 1 .. Len(tt)
      BY <1>1, <2>2
    <3>2. QED
      BY <1>1, <2>2, <3>1, SeqConcat DEF AllSeqs
  <2>3. QED
    BY <2>1, <2>2
<1>3. QED
  BY <1>1, <1>2 DEF AllSeqs

LEMMA FlattenConcat ==
    ASSUME NEW ss, NEW tt, AllSeqs(ss), AllSeqs(tt)
    PROVE  FlattenSeq(ss \o tt) = FlattenSeq(ss) \o FlattenSeq(tt)
<1> DEFINE m == Len(ss)
           n == Len(tt)
<1>1. /\ IsSeq(ss) /\ IsSeq(tt)
      /\ m \in Nat /\ n \in Nat /\ Len(ss \o tt) = m + n
      /\ \A i \in 1 .. m + n : (ss \o tt)[i] = IF i <= m THEN ss[i] ELSE tt[i - m]
  BY SeqIsFunction, SeqConcat DEF AllSeqs
<1>2. AllSeqs(ss \o tt)
  BY AllSeqsConcat
<1>3. PICK f : Partial(ss \o tt, f)
  BY <1>2, PartialExists
<1>4. PICK g : Partial(ss, g)
  BY PartialExists
<1>5. PICK h : Partial(tt, h)
  BY PartialExists
<1> DEFINE Q == {i \in Nat : i <= m => f[i] = g[i]}
<1>6. \A i \in Nat : i \in Q
  <2>1. 0 \in Q
    BY <1>3, <1>4 DEF Partial
  <2>2. ASSUME NEW i \in Nat, i \in Q PROVE i + 1 \in Q
    <3> DEFINE k == i + 1
    <3>1. SUFFICES ASSUME k <= m PROVE f[k] = g[k]
      OBVIOUS
    <3>2. /\ k = i + 1 /\ k \in 1 .. m /\ i \in 0 .. m /\ k \in 0 .. m
          /\ k \in 1 .. m + n /\ i \in 0 .. m + n /\ k \in 0 .. m + n
      BY <1>1, <3>1
    <3> HIDE DEF k
    <3>3. f[k] = f[i] \o (ss \o tt)[k] /\ g[k] = g[i] \o ss[k]
      BY <1>1, <1>3, <1>4, <3>2 DEF Partial
    <3>4. (ss \o tt)[k] = ss[k]
      BY <1>1, <3>1, <3>2
    <3>5. f[i] = g[i]
      BY <1>1, <2>2, <3>2
    <3>6. QED
      BY <3>3, <3>4, <3>5
  <2> HIDE DEF Q
  <2>3. QED
    BY <2>1, <2>2, Induction
<1> DEFINE both(j) == g[m] \o h[j]
<1> HIDE DEF both
<1> DEFINE R == {j \in Nat : \A k \in Nat : k = m + j /\ j <= n => f[k] = both(j)}
<1>7. \A j \in Nat : j \in R
  <2>1. 0 \in R
    <3>1. m \in 0 .. m /\ m + 0 = m
      BY <1>1
    <3>2. h[0] = <<>> /\ IsSeq(g[m]) /\ f[m] = g[m]
      BY <1>1, <1>4, <1>5, <1>6, <3>1 DEF Partial
    <3>3. f[m] = both(0)
      BY <3>2, SeqUnit DEF both
    <3>4. QED
      BY <1>1, <3>3
  <2>2. ASSUME NEW j \in Nat, j \in R PROVE j + 1 \in R
    <3>1. SUFFICES ASSUME NEW l \in Nat, NEW i \in Nat, i = j + 1, l = m + i, i <= n
                   PROVE  f[l] = both(i)
      BY <1>1
    <3>2. PICK k \in Nat : k = m + j
      BY <1>1
    <3>3. /\ k \in 0 .. m + n /\ l \in 0 .. m + n /\ l \in 1 .. m + n /\ l = k + 1
          /\ ~(l <= m) /\ l - m = i
          /\ j \in 0 .. n /\ i \in 0 .. n /\ i \in 1 .. n /\ m \in 0 .. m
      BY <1>1, <3>1, <3>2
    <3>4. (ss \o tt)[l] = tt[i]
      BY <1>1, <3>3
    <3>5. f[l] = f[k] \o tt[i]
      BY <1>1, <1>3, <3>3, <3>4 DEF Partial
    <3>6. h[i] = h[j] \o tt[i] /\ IsSeq(h[j]) /\ IsSeq(tt[i]) /\ IsSeq(g[m])
      BY <1>1, <1>4, <1>5, <3>1, <3>3 DEF Partial, AllSeqs
    <3>7. f[k] = both(j)
      BY <2>2, <3>2, <3>3
    <3>8. (g[m] \o h[j]) \o tt[i] = g[m] \o (h[j] \o tt[i])
      <4> DEFINE x == g[m]
                 y == h[j]
                 z == tt[i]
      <4>1. IsSeq(x) /\ IsSeq(y) /\ IsSeq(z)
        BY <3>6
      <4> HIDE DEF x, y, z
      <4>2. (x \o y) \o z = x \o (y \o z)
        BY <4>1, SeqAssociative
      <4>3. QED
        BY <4>2 DEF x, y, z
    <3>9. QED
      BY <3>5, <3>6, <3>7, <3>8 DEF both
  <2> HIDE DEF R
  <2>3. QED
    BY <2>1, <2>2, Induction
<1>8. \A k \in Nat : k = m + n => f[k] = both(n)
  BY <1>1, <1>7
<1>9. QED
  <2>1. PICK k \in Nat : k = m + n
    BY <1>1
  <2>2. FlattenSeq(ss \o tt) = f[k] /\ FlattenSeq(ss) = g[m] /\ FlattenSeq(tt) = h[n]
    BY <1>1, <1>2, <1>3, <1>4, <1>5, <2>1, FlattenIsPartial
  <2>3. QED
    BY <1>8, <2>1, <2>2 DEF both

LEMMA PartialStep ==
    ASSUME NEW ss, NEW f, AllSeqs(ss), Partial(ss, f),
           NEW i \in Nat, NEW j \in Nat, j = i + 1, j <= Len(ss)
    PROVE  IsSeq(f[i]) /\ IsSeq(ss[j]) /\ f[j] = f[i] \o ss[j]
<1>1. Len(ss) \in Nat
  BY SeqIsFunction DEF AllSeqs
<1>2. i \in 0 .. Len(ss) /\ j \in 0 .. Len(ss) /\ j \in 1 .. Len(ss)
  BY <1>1
<1>3. QED
  BY <1>2 DEF Partial, AllSeqs

LEMMA FlattenNone ==
    ASSUME NEW ss, IsSeq(ss), \A i \in 1 .. Len(ss) : ss[i] = <<>>
    PROVE  FlattenSeq(ss) = <<>>
<1>1. AllSeqs(ss) /\ Len(ss) \in Nat
  BY SeqEmpty, SeqIsFunction DEF AllSeqs
<1>2. PICK f : Partial(ss, f)
  BY <1>1, PartialExists
<1> DEFINE Q == {i \in Nat : i <= Len(ss) => f[i] = <<>>}
<1>3. 0 \in Q
  BY <1>2 DEF Partial
<1>4. ASSUME NEW i \in Nat, i \in Q PROVE i + 1 \in Q
  <2>1. SUFFICES ASSUME NEW k \in Nat, k = i + 1, k <= Len(ss) PROVE f[k] = <<>>
    OBVIOUS
  <2>2. ss[k] = <<>> /\ f[i] = <<>>
    BY <1>1, <1>4, <2>1
  <2>3. f[k] = f[i] \o ss[k]
    <3>1. i \in 0 .. Len(ss) /\ k \in 0 .. Len(ss)
      BY <1>1, <2>1
    <3>2. QED
      BY <1>2, <2>1, <3>1 DEF Partial
  <2>4. QED
    BY <2>2, <2>3, SeqEmpty, SeqUnit
<1> HIDE DEF Q
<1>5. \A i \in Nat : i \in Q
  BY <1>3, <1>4, Induction
<1>6. QED
  BY <1>1, <1>2, <1>5, FlattenIsPartial DEF Q

LEMMA FlattenSingles ==
    ASSUME NEW ss, NEW t, IsSeq(ss), IsSeq(t), Len(ss) = Len(t),
           \A i \in 1 .. Len(t) : ss[i] = <<t[i]>>
    PROVE  FlattenSeq(ss) = t
<1>1. AllSeqs(ss) /\ Len(t) \in Nat
  <2>1. ASSUME NEW i \in 1 .. Len(t) PROVE IsSeq(ss[i])
    <3>1. ss[i] = <<t[i]>>
      OBVIOUS
    <3>2. QED
      BY <3>1, SeqOne
  <2>2. QED
    BY <2>1, SeqIsFunction DEF AllSeqs
<1>2. PICK f : Partial(ss, f)
  BY <1>1, PartialExists
<1> DEFINE Prefix(s, i) == Len(s) = i /\ \A k \in 1 .. i : s[k] = t[k]
           Q == {i \in Nat : i <= Len(t) => Prefix(f[i], i)}
<1>3. 0 \in Q
  BY <1>2, SeqEmpty DEF Partial
<1>4. ASSUME NEW i \in Nat, i \in Q PROVE i + 1 \in Q
  <2>1. SUFFICES ASSUME NEW j \in Nat, j = i + 1, j <= Len(t) PROVE Prefix(f[j], j)
    OBVIOUS
  <2> DEFINE s == f[i]
             u == <<t[j]>>
  <2>2. IsSeq(f[i]) /\ f[j] = f[i] \o ss[j] /\ ss[j] = <<t[j]>>
    <3>1. ss[j] = <<t[j]>>
      BY <1>1, <2>1
    <3>2. j <= Len(ss)
      BY <2>1
    <3>3. IsSeq(f[i]) /\ f[j] = f[i] \o ss[j]
      <4>1. i \in 0 .. Len(ss) /\ j \in 0 .. Len(ss)
        BY <1>1, <2>1, <3>2
      <4>2. QED
        BY <1>2, <2>1, <4>1 DEF Partial
    <3>4. QED
      BY <3>1, <3>3
  <2>3. IsSeq(s) /\ Prefix(s, i) /\ f[j] = s \o u
    BY <1>4, <2>1, <2>2
  <2>4. IsSeq(u) /\ Len(u) = 1 /\ u[1] = t[j]
    BY SeqOne
  <2> HIDE DEF s, u
  <2>5. /\ Len(s \o u) = j
        /\ \A k \in 1 .. j : (s \o u)[k] = IF k <= i THEN s[k] ELSE u[k - i]
    <3>1. /\ Len(s \o u) = Len(s) + Len(u)
          /\ \A k \in 1 .. Len(s) + Len(u) :
                 (s \o u)[k] = IF k <= Len(s) THEN s[k] ELSE u[k - Len(s)]
      BY <2>3, <2>4, SeqConcat
    <3>2. Len(s) = i /\ Len(u) = 1 /\ i + 1 = j
      BY <2>1, <2>3, <2>4
    <3>3. QED
      BY <3>1, <3>2
  <2>6. ASSUME NEW k \in 1 .. j PROVE (s \o u)[k] = t[k]
    <3>1. CASE k <= i
      BY <2>3, <2>5, <3>1
    <3>2. CASE ~(k <= i)
      <4>1. k = j /\ k - i = 1
        BY <2>1, <3>2
      <4>2. QED
        BY <2>4, <2>5, <3>2, <4>1
    <3>3. QED
      BY <3>1, <3>2
  <2>7. QED
    BY <2>3, <2>5, <2>6
<1> HIDE DEF Q
<1>5. \A i \in Nat : i \in Q
  BY <1>3, <1>4, Induction
<1>6. FlattenSeq(ss) = f[Len(t)] /\ IsSeq(FlattenSeq(ss))
  BY <1>1, <1>2, FlattenIsPartial, FlattenIsSeq
<1>7. Prefix(f[Len(t)], Len(t))
  BY <1>1, <1>5 DEF Q
<1>8. QED
  BY <1>6, <1>7, SeqSame

\* A flattened sequence has what its parts have, and nothing else.
LEMMA FlattenRange ==
    ASSUME NEW ss, AllSeqs(ss)
    PROVE  Range(FlattenSeq(ss)) = UNION {Range(ss[i]) : i \in 1 .. Len(ss)}
<1>1. Len(ss) \in Nat
  BY SeqIsFunction DEF AllSeqs
<1>2. PICK f : Partial(ss, f)
  BY PartialExists
<1> DEFINE upto(n) == UNION {Range(ss[i]) : i \in 1 .. n}
           Q == {n \in Nat : n <= Len(ss) => Range(f[n]) = upto(n)}
<1>3. 0 \in Q
  <2>1. f[0] = <<>> /\ 1 .. 0 = {}
    BY <1>2 DEF Partial
  <2>2. Range(<<>>) = {}
    BY DEF Range
  <2>3. upto(0) = {}
    BY <2>1
  <2>4. QED
    BY <2>1, <2>2, <2>3
<1>4. ASSUME NEW n \in Nat, n \in Q PROVE n + 1 \in Q
  <2>1. SUFFICES ASSUME NEW m \in Nat, m = n + 1, m <= Len(ss) PROVE Range(f[m]) = upto(m)
    OBVIOUS
  <2>2. Range(f[n]) = upto(n)
    BY <1>1, <1>4, <2>1
  <2>3. IsSeq(f[n]) /\ IsSeq(ss[m]) /\ f[m] = f[n] \o ss[m]
    BY <1>2, <2>1, PartialStep
  <2>4. Range(f[m]) = upto(n) \cup Range(ss[m])
    BY <2>2, <2>3, RangeConcat
  <2>5. upto(m) = upto(n) \cup Range(ss[m])
    <3>1. 1 .. m = (1 .. n) \cup {m}
      BY <2>1
    <3>2. QED
      BY <3>1
  <2>6. QED
    BY <2>4, <2>5
<1> HIDE DEF Q
<1>5. \A n \in Nat : n \in Q
  BY <1>3, <1>4, Induction
<1>6. QED
  BY <1>1, <1>2, <1>5, FlattenIsPartial DEF Q

LEMMA SeqTwo ==
    ASSUME NEW x, NEW y
    PROVE  /\ IsSeq(<<x, y>>) /\ Len(<<x, y>>) = 2
           /\ <<x, y>>[1] = x /\ <<x, y>>[2] = y
           /\ <<x, y>> = <<x>> \o <<y>>
<1>1. <<x, y>> \in Seq({x, y})
  OBVIOUS
<1>2. IsSeq(<<x, y>>) /\ Len(<<x, y>>) = 2 /\ <<x, y>>[1] = x /\ <<x, y>>[2] = y
  BY <1>1, SeqFrom
<1>3. IsSeq(<<x>>) /\ IsSeq(<<y>>) /\ Len(<<x>>) = 1 /\ Len(<<y>>) = 1
      /\ <<x>>[1] = x /\ <<y>>[1] = y
  BY SeqOne
<1>4. IsSeq(<<x>> \o <<y>>) /\ Len(<<x>> \o <<y>>) = 2
      /\ \A i \in 1 .. 2 : (<<x>> \o <<y>>)[i] = IF i <= 1 THEN <<x>>[i] ELSE <<y>>[i - 1]
  BY <1>3, SeqConcat
<1>5. \A i \in 1 .. 2 : <<x, y>>[i] = (<<x>> \o <<y>>)[i]
  <2>1. (<<x>> \o <<y>>)[1] = x
    BY <1>3, <1>4
  <2>2. (<<x>> \o <<y>>)[2] = y
    BY <1>3, <1>4
  <2>3. \A i \in 1 .. 2 : i = 1 \/ i = 2
    OBVIOUS
  <2>4. QED
    BY <1>2, <2>1, <2>2, <2>3
<1>6. QED
  BY <1>2, <1>4, <1>5, SeqSame

LEMMA FlattenTwo ==
    ASSUME NEW s, NEW t, IsSeq(s), IsSeq(t)
    PROVE  FlattenSeq(<<s, t>>) = s \o t
<1>1. AllSeqs(<<s>>) /\ AllSeqs(<<t>>)
  BY SeqOne DEF AllSeqs
<1>2. FlattenSeq(<<s>> \o <<t>>) = FlattenSeq(<<s>>) \o FlattenSeq(<<t>>)
  BY <1>1, FlattenConcat
<1>3. QED
  BY <1>2, SeqTwo, FlattenOne

-------------------------------------------------------------------------------
(* Numbers *)

\* Nothing that fits is changed by the width.
LEMMA WrapFits == \A x \in Int64 : wrap(x) = x
<1> SUFFICES ASSUME NEW x \in Int64 PROVE wrap(x) = x
  OBVIOUS
<1>1. Half \in Nat
  BY QuotaConstants
<1>2. x \in Int /\ -Half <= x /\ x < Half
  BY <1>1 DEF Int64
<1>3. x + Half \in 0 .. 2 * Half - 1
  BY <1>1, <1>2
<1>4. (x + Half) % (2 * Half) = x + Half
  BY <1>1, <1>3, SMT
<1> QED
  BY <1>1, <1>2, <1>4 DEF wrap

\* A number of seconds up to a bound is a duration up to the bound.
LEMMA SecondsFit ==
    ASSUME NEW bound \in 0 .. Half - 1, NEW n \in 0 .. bound \div Second
    PROVE  n * Second \in 0 .. bound
<1>1. Second \in Nat \ {0} /\ Half \in Nat
  BY QuotaConstants
<1>2. bound \in Nat /\ n \in Nat
  BY <1>1, SMT
<1>3. (bound \div Second) * Second <= bound
  BY <1>1, <1>2, SMT
<1>4. n * Second <= (bound \div Second) * Second
  BY <1>1, <1>2, SMT
<1> QED
  BY <1>1, <1>2, <1>3, <1>4, SMT

\* quota.go:251: the wait is "never negative and never exceeds maxRetryAfter", for
\* every header and every clock.
THEOREM RetryAfterBounded ==
    ASSUME NEW t \in Int, NEW header, header.form = "date" => header.value \in Int
    PROVE  ParseRetryAfter(header, t) \in 0 .. Day
<1>1. Day \in Nat \ {0} /\ Half \in Nat /\ Day < Half
  BY QuotaConstants
<1>2. \A n \in Int : ParseSeconds(n) \in 0 .. Day
  <2> SUFFICES ASSUME NEW n \in Int
               PROVE  ParseSeconds(n) \in 0 .. Day
    OBVIOUS
  <2>1. CASE n <= 0 \/ n > Day \div Second
    BY <1>1, <2>1 DEF ParseSeconds
  <2>2. CASE ~(n <= 0) /\ ~(n > Day \div Second)
    <3>1. n \in 0 .. Day \div Second
      BY <1>1, <2>2, QuotaConstants
    <3>2. n * Second \in 0 .. Day
      BY <1>1, <3>1, SecondsFit
    <3>3. wrap(n * Second) = n * Second
      BY <1>1, <3>2, WrapFits DEF Int64
    <3> QED
      BY <2>2, <3>2, <3>3 DEF ParseSeconds
  <2> QED
    BY <2>1, <2>2
<1>3. \A at \in Int : ParseDate(at, t) \in 0 .. Day
  BY <1>1 DEF ParseDate, Sub
<1>4. CASE header.form = "seconds" /\ header.value \in Int64
  BY <1>1, <1>2, <1>4 DEF ParseRetryAfter, Int64
<1>5. CASE header.form = "date"
  BY <1>3, <1>5 DEF ParseRetryAfter
<1>6. CASE ~(header.form = "seconds" /\ header.value \in Int64) /\ header.form # "date"
  BY <1>1, <1>6 DEF ParseRetryAfter
<1> QED
  BY <1>4, <1>5, <1>6

\* decode.go of openai, 131-133: a relative reset never lies in the past and is at
\* most maxRelativeReset away, whatever integer the endpoint states.
THEOREM RelativeResetAhead ==
    ASSUME NEW t \in Int, NEW w, w.resetAt = Nil, w.resetAfterSeconds \in Int \cup {Nil}
    PROVE  windowReset(w, t) \in t .. t + MaxRelativeReset \cup {Nil}
<1>1. MaxRelativeReset \in 0 .. Half - 1 /\ Half \in Nat
  BY QuotaConstants, DecoderConstants
<1>2. CASE w.resetAfterSeconds \in 0 .. MaxRelativeReset \div Second /\ w.resetAfterSeconds # Nil
  <2> DEFINE n == w.resetAfterSeconds
  <2>1. n * Second \in 0 .. MaxRelativeReset
    BY <1>1, <1>2, SecondsFit
  <2>2. wrap(n * Second) = n * Second
    BY <1>1, <2>1, WrapFits DEF Int64
  <2> QED
    BY <1>1, <1>2, <2>1, <2>2 DEF windowReset
<1>3. CASE ~(w.resetAfterSeconds \in 0 .. MaxRelativeReset \div Second) \/ w.resetAfterSeconds = Nil
  BY <1>3 DEF windowReset
<1> QED
  BY <1>2, <1>3

\* threshold.go:38: "The vendor is never overruled downward".
THEOREM VendorNeverOverruled ==
    ASSUME NEW alerts \in [warn : Int, crit : Int], NEW percent \in Int, NEW vendor \in Severity
    PROVE  /\ SeverityFor(alerts, percent, vendor) \in Severity
           /\ SeverityFor(alerts, percent, vendor) >= vendor
  BY DEF SeverityFor, Severity, SeverityNormal, SeverityWarning, SeverityCritical

\* A fuller meter is never drawn milder, whichever way the thresholds lie.
THEOREM SeverityGrows ==
    ASSUME NEW alerts \in [warn : Int, crit : Int], NEW vendor \in Severity,
           NEW less \in Int, NEW more \in Int, less <= more
    PROVE  SeverityFor(alerts, less, vendor) <= SeverityFor(alerts, more, vendor)
  BY DEF SeverityFor, Severity, SeverityNormal, SeverityWarning, SeverityCritical

\* The quantizations of bar.go:36 and icon.go:79 tell of a percentage within one
\* cell of each other, and neither is empty unless both are.
THEOREM GaugesAgree ==
    ASSUME NEW percent \in Int
    PROVE  /\ progressBar(percent) \in 0 .. 10
           /\ fillHeight(percent) \in 0 .. 24
           /\ 24 * progressBar(percent) - 10 * fillHeight(percent) \in -23 .. 23
           /\ progressBar(percent) = 0 <=> fillHeight(percent) = 0
  BY DEF progressBar, fillHeight, Rounded

\* The recursive function is what its definition says.
LEMMA TenToDef ==
    /\ tenTo \in [Nat -> Nat \ {0}]
    /\ tenTo[0] = 1
    /\ \A n \in Nat : tenTo[n + 1] = 10 * tenTo[n]
<1> DEFINE V == Nat \ {0}
           step == [n \in Nat |-> [x \in V |-> 10 * x]]
           Def(f) == f = [n \in Nat |-> IF n = 0 THEN 1 ELSE 10 * f[n - 1]]
<1>1. 1 \in V /\ step \in [Nat -> [V -> V]]
  OBVIOUS
<1>2. PICK f \in [Nat -> V] : f[0] = 1 /\ \A n \in Nat : f[n + 1] = step[n][f[n]]
  <2> HIDE DEF V, step, Def
  <2>1. \A a \in V : \A s \in [Nat -> [V -> V]] :
           \E f \in [Nat -> V] : f[0] = a /\ \A n \in Nat : f[n + 1] = s[n][f[n]]
    BY Recursion
  <2>2. QED
    BY <1>1, <2>1
<1>3. \A n \in Nat : f[n + 1] = 10 * f[n]
  BY <1>2
<1>4. \A n \in Nat : f[n] = IF n = 0 THEN 1 ELSE 10 * f[n - 1]
  <2> SUFFICES ASSUME NEW n \in Nat, n # 0 PROVE f[n] = 10 * f[n - 1]
    BY <1>2
  <2>1. n - 1 \in Nat /\ n = (n - 1) + 1
    OBVIOUS
  <2>2. QED
    BY <1>3, <2>1
<1>5. Def(f)
  BY <1>2, <1>4
<1>6. Def(tenTo)
  BY <1>5 DEF tenTo
<1>7. tenTo[0] = 1 /\ \A n \in Nat : tenTo[n + 1] = 10 * tenTo[n]
  BY <1>6
<1>8. \A n \in Nat : tenTo[n] \in V
  <2> DEFINE S == {n \in Nat : tenTo[n] \in V}
  <2>1. 0 \in S /\ \A n \in Nat : n \in S => n + 1 \in S
    BY <1>7
  <2> HIDE DEF S
  <2>2. \A n \in Nat : n \in S
    BY <2>1, Induction
  <2>3. QED
    BY <2>2 DEF S
<1>9. tenTo \in [Nat -> V]
  BY <1>6, <1>8
<1>10. QED
  BY <1>7, <1>9

LEMMA TenToSum == \A a, b \in Nat : tenTo[a] * tenTo[b] = tenTo[a + b]
<1> SUFFICES ASSUME NEW a \in Nat PROVE \A b \in Nat : tenTo[a] * tenTo[b] = tenTo[a + b]
  OBVIOUS
<1> DEFINE S == {b \in Nat : \A c \in Nat : c = a + b => tenTo[a] * tenTo[b] = tenTo[c]}
<1>1. 0 \in S
  BY TenToDef
<1>2. ASSUME NEW b \in Nat, b \in S PROVE b + 1 \in S
  <2>1. SUFFICES ASSUME NEW d \in Nat, NEW c \in Nat, d = b + 1, c = a + d
                 PROVE  tenTo[a] * tenTo[d] = tenTo[c]
    OBVIOUS
  <2>2. PICK e \in Nat : e = a + b
    OBVIOUS
  <2>3. tenTo[a] * tenTo[b] = tenTo[e]
    BY <1>2, <2>2
  <2>4. tenTo[d] = 10 * tenTo[b] /\ c = e + 1 /\ tenTo[c] = 10 * tenTo[e]
    BY <2>1, <2>2, TenToDef
  <2>5. tenTo[a] \in Nat /\ tenTo[b] \in Nat /\ tenTo[e] \in Nat
    BY TenToDef
  <2>6. tenTo[a] * (10 * tenTo[b]) = 10 * (tenTo[a] * tenTo[b])
    BY <2>5
  <2>7. QED
    BY <2>3, <2>4, <2>6
<1> HIDE DEF S
<1>3. \A b \in Nat : b \in S
  BY <1>1, <1>2, Induction
<1>4. QED
  BY <1>3 DEF S

LEMMA DivMod ==
    ASSUME NEW x \in Nat, NEW d \in Nat \ {0}
    PROVE  x \div d \in Nat /\ x % d \in 0 .. d - 1 /\ (x \div d) * d + (x % d) = x
  BY SMT

IsAmount(m) == m.minor \in Int64 /\ m.exponent \in Nat

\* quota.go:108-139: what an amount reads as is the amount, at the end of the integers
\* as well; with as many places as it was stated with, if those are no more than the
\* code prints.
THEOREM FiguresExact ==
    ASSUME NEW m, IsAmount(m)
    PROVE  LET f == Figures(m)
           IN  /\ f.whole >= 0 /\ f.rest \in 0 .. tenTo[f.places] - 1
               /\ (IF f.negative THEN -1 ELSE 1) * (f.whole * tenTo[f.places] + f.rest) = m.minor
               /\ m.exponent <= MaxMoneyExponent => f.places = m.exponent
<1> DEFINE places == IF m.exponent > MaxMoneyExponent THEN MaxMoneyExponent ELSE m.exponent
           magnitude == IF m.minor < 0 THEN wrap(-(m.minor + 1)) + 1 ELSE m.minor
           d == tenTo[places]
           f == Figures(m)
<1>1. m.minor \in Int64 /\ m.exponent \in Nat /\ Half \in Nat /\ MaxMoneyExponent \in Nat
  BY QuotaConstants DEF IsAmount
<1>2. places \in Nat /\ (m.exponent <= MaxMoneyExponent => places = m.exponent)
  BY <1>1
<1> HIDE DEF places
<1>3. d \in Nat \ {0}
  BY <1>2, TenToDef
<1>4. magnitude \in Nat /\ (IF m.minor < 0 THEN -1 ELSE 1) * magnitude = m.minor
  <2>1. CASE m.minor < 0
    <3>1. -(m.minor + 1) \in Int64
      BY <1>1, <2>1 DEF Int64
    <3>2. wrap(-(m.minor + 1)) = -(m.minor + 1)
      BY <3>1, WrapFits
    <3>3. QED
      BY <1>1, <2>1, <3>2 DEF Int64
  <2>2. CASE ~(m.minor < 0)
    BY <1>1, <2>2 DEF Int64
  <2>3. QED
    BY <2>1, <2>2
<1>5. /\ f.whole = magnitude \div d /\ f.rest = magnitude % d
      /\ f.negative = (m.minor < 0) /\ f.places = places
  BY DEF Figures, places
<1> HIDE DEF f, magnitude, d
<1>6. f.whole \in Nat /\ f.rest \in 0 .. d - 1 /\ f.whole * d + f.rest = magnitude
  BY <1>3, <1>4, <1>5, DivMod
<1>7. /\ f.whole >= 0 /\ f.rest \in 0 .. d - 1
      /\ (IF f.negative THEN -1 ELSE 1) * (f.whole * d + f.rest) = m.minor
  <2>1. f.negative <=> m.minor < 0
    BY <1>5
  <2>2. (IF f.negative THEN -1 ELSE 1) = (IF m.minor < 0 THEN -1 ELSE 1)
    BY <2>1
  <2>3. QED
    BY <1>4, <1>6, <2>2
<1>8. d = tenTo[f.places]
  BY <1>5 DEF d
<1>9. QED
  BY <1>2, <1>5, <1>7, <1>8 DEF f

LEMMA BoundedMaxMin ==
    ASSUME NEW x \in Int, NEW bound \in Nat
    PROVE  Max({0, Min({bound, x})}) = IF x <= 0 THEN 0 ELSE IF x <= bound THEN x ELSE bound
<1> DEFINE a == IF x <= bound THEN x ELSE bound
           b == IF x <= 0 THEN 0 ELSE a
<1>1. a \in {bound, x} /\ \A y \in {bound, x} : a <= y
  OBVIOUS
<1>2. Min({bound, x}) = a
  <2>1. \A z \in {bound, x} : (\A y \in {bound, x} : z <= y) => z = a
    BY <1>1
  <2>2. QED
    BY <1>1, <2>1 DEF Min
<1>3. b \in {0, a} /\ \A y \in {0, a} : b >= y
  OBVIOUS
<1>4. Max({0, a}) = b
  <2>1. \A z \in {0, a} : (\A y \in {0, a} : z >= y) => z = b
    BY <1>3
  <2>2. QED
    BY <1>3, <2>1 DEF Max
<1>5. QED
  BY <1>2, <1>4

\* quota.go:250-274: the wait is what the header asks for, within 0 and a day, unless
\* that is more seconds than an int64 holds.
THEOREM WaitExact ==
    ASSUME NEW t \in Int, NEW header
    PROVE  /\ header.form = "date" /\ header.value \in Int =>
                  ParseRetryAfter(header, t) = Max({0, Min({Day, header.value - t})})
           /\ header.form = "seconds" /\ header.value \in Int /\ header.value < Half =>
                  ParseRetryAfter(header, t) = Max({0, Min({Day, header.value * Second})})
<1> DEFINE n == header.value
<1>1. Day \in Nat \ {0} /\ Half \in Nat /\ Day < Half /\ Second \in Nat \ {0}
  BY QuotaConstants
<1>2. ASSUME header.form = "date", n \in Int
      PROVE  ParseRetryAfter(header, t) = Max({0, Min({Day, n - t})})
  <2>1. ParseRetryAfter(header, t) = ParseDate(n, t)
    BY <1>2 DEF ParseRetryAfter
  <2>2. ParseDate(n, t) = IF n - t <= 0 THEN 0 ELSE IF n - t <= Day THEN n - t ELSE Day
    BY <1>1, <1>2 DEF ParseDate, Sub
  <2>3. n - t \in Int /\ Day \in Nat
    BY <1>1, <1>2
  <2>4. QED
    BY <2>1, <2>2, <2>3, BoundedMaxMin
<1>3. ASSUME header.form = "seconds", n \in Int, n < Half
      PROVE  ParseRetryAfter(header, t) = Max({0, Min({Day, n * Second})})
  <2>1. ParseRetryAfter(header, t) = ParseSeconds(n)
    BY <1>1, <1>3 DEF ParseRetryAfter, ParseSeconds, Int64
  <2>2. n \in Int /\ n * Second \in Int /\ Day \in Nat
    BY <1>1, <1>3
  <2> DEFINE x == n * Second
  <2>3. Max({0, Min({Day, x})}) = IF x <= 0 THEN 0 ELSE IF x <= Day THEN x ELSE Day
    BY <2>2, BoundedMaxMin
  <2>4. CASE n <= 0
    <3>1. x <= 0
      BY <1>1, <2>2, <2>4
    <3>2. QED
      BY <2>1, <2>3, <2>4, <3>1 DEF ParseSeconds
  <2>5. CASE ~(n <= 0) /\ n > Day \div Second
    <3>1. x > Day
      <4> DEFINE q == Day \div Second
      <4>1. q \in Nat /\ Day % Second \in 0 .. Second - 1 /\ q * Second + (Day % Second) = Day
        BY <1>1, DivMod
      <4> HIDE DEF q
      <4>2. n >= q + 1
        BY <2>2, <2>5, <4>1 DEF q
      <4>3. n * Second >= (q + 1) * Second
        BY <1>1, <2>2, <4>1, <4>2
      <4>4. (q + 1) * Second = q * Second + Second
        BY <1>1, <4>1
      <4>5. QED
        BY <1>1, <2>2, <4>1, <4>3, <4>4
    <3>2. QED
      BY <1>1, <2>1, <2>2, <2>3, <2>5, <3>1 DEF ParseSeconds
  <2>6. CASE ~(n <= 0) /\ ~(n > Day \div Second)
    <3>1. Day \in 0 .. Half - 1 /\ n \in 0 .. Day \div Second
      BY <1>1, <2>2, <2>6
    <3>2. x \in 0 .. Day
      BY <3>1, SecondsFit
    <3>3. wrap(x) = x
      BY <1>1, <3>2, WrapFits DEF Int64
    <3>4. QED
      BY <2>1, <2>2, <2>3, <2>6, <3>2, <3>3 DEF ParseSeconds
  <2>7. QED
    BY <2>4, <2>5, <2>6
<1>4. QED
  BY <1>2, <1>3


\* An instant of seconds that an int64 counts from the zero time is that instant, and
\* any other is an instant all the same, or the zero time.
LEMMA UnixTimeExact ==
    ASSUME NEW seconds \in Int
    PROVE  /\ unixTime(seconds) \in Optional(Int)
           /\ seconds + Epoch \in Int64 \ {0} => unixTime(seconds) = seconds * Second
<1> DEFINE since == wrap(seconds + Epoch)
<1>1. Half \in Nat /\ Half # 0 /\ Epoch \in Int /\ Second \in Int
  BY QuotaConstants, DecoderConstants
<1>2. since \in Int
  BY <1>1 DEF wrap
<1>3. seconds + Epoch \in Int64 \ {0} => since = seconds + Epoch
  BY <1>1, WrapFits
<1>4. unixTime(seconds) = IF since = 0 THEN Nil ELSE (since - Epoch) * Second
  BY DEF unixTime
<1> HIDE DEF since
<1>5. (since - Epoch) * Second \in Int
  BY <1>1, <1>2
<1>6. seconds + Epoch \in Int64 \ {0} => since # 0 /\ since - Epoch = seconds
  BY <1>1, <1>3
<1>7. QED
  BY <1>4, <1>5, <1>6 DEF Optional

\* A meter says of a window what the window states, as far as time.Time reaches.
AsStated(m, w, at) ==
    /\ (w.resetAt # Nil /\ w.resetAt + Epoch \in Int64 \ {0}) => m.reset = w.resetAt * Second
    /\ (w.resetAt = Nil /\ m.reset # Nil) =>
          /\ w.resetAfterSeconds \in Nat
          /\ m.reset = at + w.resetAfterSeconds * Second

\* decode.go of openai, 142-156: the reset of a window is the one it states, or as
\* far ahead as it states.
LEMMA WindowResetExact ==
    ASSUME NEW w \in window, NEW t \in Int
    PROVE  /\ windowReset(w, t) \in Optional(Int)
           /\ \A m : m.reset = windowReset(w, t) => AsStated(m, w, t)
<1> DEFINE n == w.resetAfterSeconds
<1>1. /\ w.resetAt \in Int \cup {Nil} /\ n \in Int \cup {Nil}
      /\ MaxRelativeReset \in 0 .. Half - 1 /\ Half \in Nat /\ Second \in Nat \ {0} /\ Nil \notin Int
  BY QuotaConstants, DecoderConstants DEF window, Optional, Int64
<1>2. CASE w.resetAt # Nil
  <2>1. w.resetAt \in Int /\ windowReset(w, t) = unixTime(w.resetAt)
    BY <1>1, <1>2 DEF windowReset
  <2>2. QED
    BY <1>2, <2>1, UnixTimeExact DEF AsStated
<1>3. CASE w.resetAt = Nil /\ n # Nil /\ n \in 0 .. MaxRelativeReset \div Second
  <2>1. n * Second \in 0 .. MaxRelativeReset
    BY <1>1, <1>3, SecondsFit
  <2>2. wrap(n * Second) = n * Second
    BY <1>1, <2>1, WrapFits DEF Int64
  <2>3. windowReset(w, t) = t + n * Second
    BY <1>3, <2>2 DEF windowReset
  <2>4. n \in Nat /\ t + n * Second \in Int
    BY <1>1, <1>3, <2>1
  <2>5. QED
    BY <1>3, <2>3, <2>4 DEF Optional, AsStated
<1>4. CASE w.resetAt = Nil /\ (n = Nil \/ ~(n \in 0 .. MaxRelativeReset \div Second))
  BY <1>4 DEF windowReset, Optional, AsStated
<1>5. QED
  BY <1>2, <1>3, <1>4

\* decode.go of openai, 179-235: a balance that is taken is the amount it spells.
LEMMA DollarsExact ==
    ASSUME NEW s \in dollarText, parseDollarString(s) # Nil
    PROVE  LET unit == tenTo[IF s.places = Nil THEN 0 ELSE s.places]
           IN  /\ parseDollarString(s) \in money
               /\ (IF s.negative THEN -1 ELSE 1) * parseDollarString(s).minor * unit
                     = (s.whole * unit + (IF s.places = Nil THEN 0 ELSE s.fraction))
                           * tenTo[DollarExponent]
<1> DEFINE point == s.places # Nil
           minor == s.whole * tenTo[DollarExponent]
                       + (IF point THEN s.fraction * tenTo[DollarExponent - s.places] ELSE 0)
           sum == IF s.negative THEN -minor ELSE minor
           unit == tenTo[IF point THEN s.places ELSE 0]
           d == tenTo[DollarExponent]
<1>1. /\ s.whole \in Nat \cup {Nil} /\ s.fraction \in Nat \cup {Nil}
      /\ s.places \in Nat \cup {Nil} /\ s.negative \in BOOLEAN
      /\ DollarExponent \in Nat /\ Half \in Nat
  BY QuotaConstants, DecoderConstants DEF dollarText, Optional
<1>2. /\ s.whole \in Nat
      /\ point => s.fraction \in Nat /\ s.places \in Nat /\ s.places <= DollarExponent
      /\ minor \in Int64
      /\ parseDollarString(s) = Money(sum, "USD", DollarExponent)
  BY <1>1 DEF parseDollarString
<1>3. d \in Nat
  BY <1>1, TenToDef
<1>4. minor \in Nat /\ unit \in Nat /\
      minor * unit = (s.whole * unit + (IF point THEN s.fraction ELSE 0)) * d
  <2>1. CASE point
    <3> DEFINE r == DollarExponent - s.places
               a == s.whole
               b == s.fraction
               e == tenTo[r]
               u == tenTo[s.places]
    <3>1. r \in Nat /\ s.places \in Nat /\ s.places + r = DollarExponent
      BY <1>1, <1>2, <2>1
    <3>2. a \in Nat /\ b \in Nat /\ e \in Nat /\ u \in Nat /\ u * e = d
      BY <1>2, <2>1, <3>1, TenToDef, TenToSum
    <3>3. minor = a * d + b * e /\ unit = u
      BY <2>1
    <3> HIDE DEF a, b, e, u, d, minor, unit
    <3>4. (a * d + b * e) * u = (a * u + b) * d
      <4>1. (a * d + b * e) * u = a * d * u + b * e * u
        BY <1>3, <3>2
      <4>2. (a * u + b) * d = a * u * d + b * d
        BY <1>3, <3>2
      <4>3. b * e * u = b * (u * e) /\ a * d * u = a * u * d
        BY <1>3, <3>2
      <4>4. QED
        BY <3>2, <4>1, <4>2, <4>3
    <3>5. a * d + b * e \in Nat
      BY <1>3, <3>2
    <3>6. QED
      BY <2>1, <3>2, <3>3, <3>4, <3>5 DEF a, b
  <2>2. CASE ~point
    <3>1. minor = s.whole * d /\ unit = 1
      BY <1>2, <1>3, <2>2, TenToDef
    <3>2. QED
      BY <1>2, <1>3, <2>2, <3>1
  <2>3. QED
    BY <2>1, <2>2
<1> HIDE DEF minor, unit, d
<1>5. sum \in Int64 /\ (IF s.negative THEN -1 ELSE 1) * sum = minor
  BY <1>1, <1>2, <1>4 DEF Int64
<1> HIDE DEF sum
<1>6. parseDollarString(s).minor = sum /\ parseDollarString(s) \in money
  BY <1>1, <1>2, <1>5 DEF Money, money
<1>7. (IF s.negative THEN -1 ELSE 1) * parseDollarString(s).minor * unit
          = (s.whole * unit + (IF point THEN s.fraction ELSE 0)) * d
  BY <1>4, <1>5, <1>6
<1>8. QED
  BY <1>6, <1>7 DEF unit, d

-------------------------------------------------------------------------------
(* Decoders *)

\* A text of nothing but a document's letters.
IsWord(t) == IsSeq(t) /\ \A k \in 1 .. Len(t) : t[k] = Letter(t[k][2])

IsMeter(m) ==
    /\ m \in Meter
    /\ m.shape \in {"utilization", "balance"}
    /\ IsWord(m.name)
    /\ m.percent \in Int
    /\ m.level \in Severity
    /\ m.reset \in Optional(Int)
    /\ m.shape = "balance" \/ m.used # Nil => IsAmount(m.used)
    /\ m.limit # Nil => IsAmount(m.limit)

AreMeters(s) == IsSeq(s) /\ \A i \in 1 .. Len(s) : s[i] # Nil /\ IsMeter(s[i])

IsSnapshot(s) == s \in Snapshots /\ IsWord(s.plan) /\ AreMeters(s.meters)

LEMMA WordIsWord ==
    ASSUME NEW t \in Word
    PROVE  IsWord(t)
<1>1. t \in Seq({"letter"} \X STRING)
  BY DEF Word
<1>2. IsSeq(t)
  BY <1>1, SeqFrom
<1>3. ASSUME NEW k \in 1 .. Len(t) PROVE t[k] = Letter(t[k][2])
  <2>1. t[k] \in {"letter"} \X STRING
    BY <1>1, <1>3, ElementOfSeq
  <2>2. t[k] = <<"letter", t[k][2]>>
    BY <2>1
  <2>3. QED
    BY <2>2 DEF Letter
<1>4. QED
  BY <1>2, <1>3 DEF IsWord

LEMMA KindIsWord ==
    ASSUME NEW kind \in MeterKind
    PROVE  IsWord(kind)
<1>1. CASE kind \in Word
  BY <1>1, WordIsWord
<1>2. ASSUME NEW name \in OwnKinds, kind = Kind(name) PROVE IsWord(kind)
  <2>1. kind = <<Letter(name)>>
    BY <1>2 DEF Kind, Letter
  <2>2. IsSeq(kind) /\ Len(kind) = 1 /\ kind[1] = Letter(name)
    BY <2>1, SeqOne
  <2>3. \A k \in 1 .. 1 : k = 1
    OBVIOUS
  <2>4. Letter(name) = Letter(Letter(name)[2])
    BY DEF Letter
  <2>5. QED
    BY <2>2, <2>3, <2>4 DEF IsWord
<1>3. QED
  BY <1>1, <1>2 DEF MeterKind

LEMMA OwnKindNames ==
    {"session", "weekly", "code_review_session", "code_review_weekly"} \subseteq OwnKinds
  BY DEF OwnKinds

LEMMA KindsSpelled == \A name \in OwnKinds : Kind(name) \in MeterKind
  BY DEF MeterKind

\* Present keeps all there is and leaves out what there is not.
LEMMA PresentKeeps ==
    ASSUME NEW s, IsSeq(s)
    PROVE  /\ IsSeq(Present(s))
           /\ Range(Present(s)) = Range(s) \ {Nil}
<1> DEFINE ss == [i \in DOMAIN s |-> IF s[i] = Nil THEN <<>> ELSE <<s[i]>>]
<1>1. Len(s) \in Nat /\ DOMAIN s = 1 .. Len(s)
  BY SeqIsFunction
<1>2. ss = [i \in 1 .. Len(s) |-> ss[i]]
  BY <1>1
<1>3. \A i \in 1 .. Len(s) : ss[i] = IF s[i] = Nil THEN <<>> ELSE <<s[i]>>
  BY <1>1
<1>4. Present(s) = FlattenSeq(ss)
  BY DEF Present
<1> HIDE DEF ss
<1>5. IsSeq(ss) /\ Len(ss) = Len(s)
  BY <1>1, <1>2, FunctionIsSeq
<1>6. ASSUME NEW i \in 1 .. Len(s)
      PROVE  IsSeq(ss[i]) /\ Range(ss[i]) = IF s[i] = Nil THEN {} ELSE {s[i]}
  <2>1. CASE s[i] = Nil
    <3>1. Range(<<>>) = {}
      BY DEF Range
    <3>2. QED
      BY <1>3, <2>1, <3>1, SeqEmpty
  <2>2. CASE s[i] # Nil
    <3>1. Range(<<s[i]>>) = {s[i]}
      BY DEF Range
    <3>2. QED
      BY <1>3, <2>2, <3>1, SeqOne
  <2>3. QED
    BY <2>1, <2>2
<1>7. AllSeqs(ss)
  BY <1>5, <1>6 DEF AllSeqs
<1>8. Range(FlattenSeq(ss)) = UNION {Range(ss[i]) : i \in 1 .. Len(s)}
  BY <1>5, <1>7, FlattenRange
<1>9. Range(s) = {s[i] : i \in 1 .. Len(s)}
  BY <1>1 DEF Range
<1>10. UNION {Range(ss[i]) : i \in 1 .. Len(s)} = Range(s) \ {Nil}
  BY <1>6, <1>9
<1>11. QED
  BY <1>4, <1>7, <1>8, <1>10, FlattenIsSeq

LEMMA RangeElement ==
    ASSUME NEW s, IsSeq(s)
    PROVE  /\ \A i \in 1 .. Len(s) : s[i] \in Range(s)
           /\ \A x \in Range(s) : \E i \in 1 .. Len(s) : s[i] = x
  BY SeqIsFunction DEF Range

LEMMA MetersByRange ==
    ASSUME NEW s, IsSeq(s)
    PROVE  AreMeters(s) <=> \A m \in Range(s) : m # Nil /\ IsMeter(m)
<1> DEFINE Good(m) == m # Nil /\ IsMeter(m)
<1>1. AreMeters(s) <=> \A i \in 1 .. Len(s) : Good(s[i])
  BY DEF AreMeters
<1> HIDE DEF Good
<1>2. (\A i \in 1 .. Len(s) : Good(s[i])) <=> \A m \in Range(s) : Good(m)
  BY RangeElement
<1>3. QED
  BY <1>1, <1>2 DEF Good

LEMMA MetersOfType ==
    ASSUME NEW s, AreMeters(s)
    PROVE  s \in Seq(Meter)
<1>1. /\ Len(s) \in Nat /\ s = [i \in 1 .. Len(s) |-> s[i]]
      /\ \A i \in 1 .. Len(s) : s[i] \in Meter
  BY SeqIsFunction DEF AreMeters, IsMeter
<1>2. s \in [1 .. Len(s) -> Meter]
  BY <1>1
<1>3. QED
  BY <1>1, <1>2, SeqDef

LEMMA PresentMeters ==
    ASSUME NEW s, IsSeq(s), \A i \in 1 .. Len(s) : s[i] = Nil \/ IsMeter(s[i])
    PROVE  AreMeters(Present(s))
<1>1. IsSeq(Present(s)) /\ Range(Present(s)) = Range(s) \ {Nil}
  BY PresentKeeps
<1>2. \A m \in Range(Present(s)) : m # Nil /\ \E i \in 1 .. Len(s) : s[i] = m
  BY <1>1, RangeElement
<1>3. \A m \in Range(Present(s)) : m # Nil /\ IsMeter(m)
  BY <1>2
<1>4. QED
  BY <1>1, <1>3, MetersByRange

LEMMA MetersConcat ==
    ASSUME NEW s, NEW t, AreMeters(s), AreMeters(t)
    PROVE  AreMeters(s \o t)
<1>1. IsSeq(s) /\ IsSeq(t) /\ IsSeq(s \o t) /\ Range(s \o t) = Range(s) \cup Range(t)
  BY SeqConcat, RangeConcat DEF AreMeters
<1>2. (\A m \in Range(s) : m # Nil /\ IsMeter(m)) /\ (\A m \in Range(t) : m # Nil /\ IsMeter(m))
  BY <1>1, MetersByRange
<1>3. \A m \in Range(s \o t) : m # Nil /\ IsMeter(m)
  BY <1>1, <1>2
<1>4. QED
  BY <1>1, <1>3, MetersByRange

\* A sequence made item by item from another.
LEMMA SeqMapped ==
    ASSUME NEW s, IsSeq(s), NEW t, t = [i \in DOMAIN s |-> t[i]]
    PROVE  IsSeq(t) /\ Len(t) = Len(s)
<1>1. Len(s) \in Nat /\ DOMAIN s = 1 .. Len(s)
  BY SeqIsFunction
<1>2. t = [i \in 1 .. Len(s) |-> t[i]]
  BY <1>1
<1>3. QED
  BY <1>1, <1>2, FunctionIsSeq

LEMMA OptionalMember ==
    ASSUME NEW S, NEW x \in Optional(S), x # Nil
    PROVE  x \in S
  BY DEF Optional

LEMMA UtilizationIsMeter ==
    ASSUME NEW id \in {"anthropic", "openai"} \X MeterKind, NEW name \in MeterKind,
           NEW percent \in Int, NEW reset \in Optional(Int), NEW level \in Severity, NEW active \in BOOLEAN
    PROVE  IsMeter(Utilization(id, name, percent, reset, level, active))
<1> DEFINE m == Utilization(id, name, percent, reset, level, active)
<1>1. IsWord(name) /\ Nil \in Optional(money)
  BY KindIsWord DEF Optional
<1>2. m \in Meter
  BY <1>1 DEF Meter, Utilization
<1>3. /\ m.shape = "utilization" /\ m.name = name /\ m.percent = percent /\ m.level = level
      /\ m.reset = reset /\ m.used = Nil /\ m.limit = Nil
  BY DEF Utilization
<1> HIDE DEF m
<1>4. QED
  BY <1>1, <1>2, <1>3 DEF IsMeter, m

LEMMA MoneyIsAmount == \A m \in money : IsAmount(m)
  BY DEF money, IsAmount

LEMMA BalanceIsMeter ==
    ASSUME NEW id \in {"anthropic", "openai"} \X MeterKind, NEW name \in MeterKind,
           NEW percent \in Int, NEW level \in Severity, NEW used \in money, NEW limit \in Optional(money)
    PROVE  IsMeter(Balance(id, name, percent, level, used, limit))
<1> DEFINE m == Balance(id, name, percent, level, used, limit)
<1>1. IsWord(name) /\ Nil \in Optional(Int) /\ used \in Optional(money)
  BY KindIsWord DEF Optional
<1>2. m \in Meter
  BY <1>1 DEF Meter, Balance
<1>3. /\ m.shape = "balance" /\ m.name = name /\ m.percent = percent /\ m.level = level
      /\ m.reset = Nil /\ m.used = used /\ m.limit = limit
  BY DEF Balance
<1>4. IsAmount(used) /\ (limit # Nil => IsAmount(limit))
  BY MoneyIsAmount, OptionalMember
<1> HIDE DEF m
<1>5. QED
  BY <1>1, <1>2, <1>3, <1>4 DEF IsMeter, m

LEMMA SeverityTyped == \A word : parseSeverity(word) \in Severity
  BY DEF parseSeverity, Severity, SeverityNormal, SeverityWarning, SeverityCritical

LEMMA SnapshotTyped ==
    ASSUME NEW vendor \in {"anthropic", "openai"}, NEW plan \in Word,
           NEW meters, AreMeters(meters), NEW at \in Int, NEW s, s = Snapshot(vendor, plan, meters, at)
    PROVE  s = Nil \/ (IsSnapshot(s) /\ s.meters = meters)
<1>1. IsWord(plan)
  BY WordIsWord
<1>2. CASE meters = <<>>
  BY <1>2 DEF Snapshot
<1>3. CASE meters # <<>>
  <2>1. s = [vendor |-> vendor, plan |-> plan, meters |-> meters, observedAt |-> at]
    BY <1>3 DEF Snapshot
  <2>2. meters \in Seq(Meter)
    BY MetersOfType
  <2>3. s \in Snapshots
    BY <2>1, <2>2 DEF Snapshots
  <2>4. QED
    BY <1>1, <2>1, <2>3 DEF IsSnapshot
<1>4. QED
  BY <1>2, <1>3

LEMMA NormalizedMeters ==
    ASSUME NEW entries \in Seq(limitEntry)
    PROVE  AreMeters(normalizedWindows(entries))
<1> DEFINE Window(e) == IF e.kind = <<>> \/ e.percent = Nil THEN Nil
                        ELSE Utilization(<<"anthropic", e.kind>>, e.kind, e.percent, e.resetsAt,
                                         parseSeverity(e.severity), e.isActive)
           s == [i \in DOMAIN entries |-> Window(entries[i])]
<1>1. IsSeq(entries)
  BY SeqFrom
<1>2. s = [i \in DOMAIN entries |-> s[i]]
  OBVIOUS
<1>3. DOMAIN entries = 1 .. Len(entries) /\ Len(entries) \in Nat
  BY <1>1, SeqIsFunction
<1>4. ASSUME NEW i \in 1 .. Len(entries) PROVE s[i] = Nil \/ IsMeter(s[i])
  <2> DEFINE e == entries[i]
  <2>1. e \in limitEntry
    BY ElementOfSeq
  <2>2. /\ e.kind \in Word /\ e.percent \in Optional(Int) /\ e.resetsAt \in Optional(Int)
        /\ e.isActive \in BOOLEAN
    BY <2>1 DEF limitEntry
  <2>3. s[i] = Window(e)
    BY <1>3
  <2> HIDE DEF e, s
  <2>4. CASE e.kind = <<>> \/ e.percent = Nil
    BY <2>3, <2>4
  <2>5. CASE ~(e.kind = <<>> \/ e.percent = Nil)
    <3>1. /\ e.percent \in Int /\ parseSeverity(e.severity) \in Severity
          /\ e.kind \in MeterKind
      BY <2>2, <2>5, OptionalMember, SeverityTyped DEF MeterKind
    <3>2. IsMeter(Utilization(<<"anthropic", e.kind>>, e.kind, e.percent, e.resetsAt,
                              parseSeverity(e.severity), e.isActive))
      BY <2>2, <3>1, UtilizationIsMeter
    <3>3. QED
      BY <2>3, <2>5, <3>2
  <2>6. QED
    BY <2>4, <2>5
<1>5. normalizedWindows(entries) = Present(s)
  BY DEF normalizedWindows
<1> HIDE DEF s
<1>6. IsSeq(s) /\ Len(s) = Len(entries)
  BY <1>1, <1>2, SeqMapped
<1>7. QED
  BY <1>4, <1>5, <1>6, PresentMeters

LEMMA LegacyMeter ==
    ASSUME NEW kind \in MeterKind, NEW w \in Optional(legacyForm)
    PROVE  legacyWindow(kind, w) = Nil \/ IsMeter(legacyWindow(kind, w))
<1>1. CASE w = Nil \/ w.utilization = Nil
  BY <1>1 DEF legacyWindow
<1>2. CASE w # Nil /\ w.utilization # Nil
  <2>1. w.utilization \in Int /\ w.resetsAt \in Optional(Int)
    BY <1>2 DEF Optional, legacyForm
  <2>2. SeverityNormal \in Severity
    BY DEF SeverityNormal, Severity
  <2>3. legacyWindow(kind, w) = Utilization(<<"anthropic", kind>>, kind, w.utilization,
                                            w.resetsAt, SeverityNormal, FALSE)
    BY <1>2 DEF legacyWindow
  <2>4. QED
    BY <2>1, <2>2, <2>3, UtilizationIsMeter
<1>3. QED
  BY <1>1, <1>2

LEMMA LegacyMeters ==
    ASSUME NEW fiveHour \in Optional(legacyForm), NEW sevenDay \in Optional(legacyForm)
    PROVE  AreMeters(legacyWindows(fiveHour, sevenDay))
<1> DEFINE a == legacyWindow(Kind("session"), fiveHour)
           b == legacyWindow(Kind("weekly_all"), sevenDay)
<1>1. (a = Nil \/ IsMeter(a)) /\ (b = Nil \/ IsMeter(b))
  <2>1. Kind("session") \in MeterKind /\ Kind("weekly_all") \in MeterKind
    BY KindsSpelled DEF OwnKinds
  <2>2. QED
    BY <2>1, LegacyMeter
<1>2. legacyWindows(fiveHour, sevenDay) = Present(<<a, b>>)
  BY DEF legacyWindows
<1> HIDE DEF a, b
<1>3. IsSeq(<<a, b>>) /\ Len(<<a, b>>) = 2 /\ <<a, b>>[1] = a /\ <<a, b>>[2] = b
  BY SeqTwo
<1>4. \A i \in 1 .. 2 : <<a, b>>[i] = Nil \/ IsMeter(<<a, b>>[i])
  <2>1. \A i \in 1 .. 2 : i = 1 \/ i = 2
    OBVIOUS
  <2>2. QED
    BY <1>1, <1>3, <2>1
<1>5. QED
  BY <1>2, <1>3, <1>4, PresentMeters

LEMMA SpendMeter ==
    ASSUME NEW s \in Optional(spendBlock)
    PROVE  spendBalance(s) = Nil \/ IsMeter(spendBalance(s))
<1>1. CASE s = Nil \/ ~s.enabled
  BY <1>1 DEF spendBalance
<1>2. CASE s # Nil /\ s.enabled
  <2> DEFINE percent == IF s.percent = Nil THEN 0 ELSE s.percent
  <2>1. s \in spendBlock
    BY <1>2 DEF Optional
  <2>2. percent \in Int /\ s.used \in money /\ s.limit \in Optional(money)
    BY <2>1 DEF Optional, spendBlock
  <2>3. spendBalance(s) = Balance(<<"anthropic", Kind("spend")>>, Kind("spend"), percent,
                                  parseSeverity(s.severity), s.used, s.limit)
    BY <1>2 DEF spendBalance
  <2>4. QED
    <3> HIDE DEF percent
    <3>1. Kind("spend") \in MeterKind /\ parseSeverity(s.severity) \in Severity
      BY KindsSpelled, SeverityTyped DEF OwnKinds
    <3>2. IsMeter(Balance(<<"anthropic", Kind("spend")>>, Kind("spend"), percent,
                          parseSeverity(s.severity), s.used, s.limit))
      BY <2>2, <3>1, BalanceIsMeter
    <3>3. QED
      BY <2>3, <3>2
<1>3. QED
  BY <1>1, <1>2

\* What comes of an answer of anthropic is a snapshot.
LEMMA AnthropicSnapshot ==
    ASSUME NEW doc \in Optional(AnthropicDocument), NEW plan \in Word, NEW at \in Int,
           decodeAnthropic(doc, plan, at) # Nil
    PROVE  IsSnapshot(decodeAnthropic(doc, plan, at))
<1> DEFINE windows == IF normalizedWindows(doc.limits) # <<>> THEN normalizedWindows(doc.limits)
                      ELSE legacyWindows(doc.fiveHour, doc.sevenDay)
           spent == Present(<<spendBalance(doc.spend)>>)
           meters == windows \o spent
<1>1. doc \in AnthropicDocument
  BY DEF Optional, decodeAnthropic
<1>2. /\ doc.limits \in Seq(limitEntry) /\ doc.fiveHour \in Optional(legacyForm)
      /\ doc.sevenDay \in Optional(legacyForm) /\ doc.spend \in Optional(spendBlock)
  BY <1>1 DEF AnthropicDocument
<1>3. AreMeters(windows)
  BY <1>2, NormalizedMeters, LegacyMeters
<1>4. AreMeters(spent)
  <2> DEFINE b == spendBalance(doc.spend)
  <2>1. b = Nil \/ IsMeter(b)
    BY <1>2, SpendMeter
  <2> HIDE DEF b
  <2>2. IsSeq(<<b>>) /\ Len(<<b>>) = 1 /\ <<b>>[1] = b
    BY SeqOne
  <2>3. \A i \in 1 .. 1 : i = 1
    OBVIOUS
  <2>4. AreMeters(Present(<<b>>))
    BY <2>1, <2>2, <2>3, PresentMeters
  <2>5. QED
    BY <2>4 DEF b
<1>5. decodeAnthropic(doc, plan, at) = Snapshot("anthropic", plan, meters, at)
  BY DEF decodeAnthropic
<1> HIDE DEF windows, spent
<1>6. AreMeters(meters)
  BY <1>3, <1>4, MetersConcat
<1>7. QED
  BY <1>5, <1>6, SnapshotTyped

\* A meter made of a window.
OfWindow(m, kind, w, t) ==
    /\ m.shape = "utilization" /\ m.used = Nil /\ m.limit = Nil
    /\ m.name = Kind(kind) /\ w \in window /\ w # Nil /\ m.reset = windowReset(w, t)

LEMMA WindowMeterTyped ==
    ASSUME NEW kind \in OwnKinds, NEW w \in Optional(window), NEW active \in BOOLEAN, NEW t \in Int,
           NEW m, m = windowMeter(kind, w, active, t), m # Nil
    PROVE  IsMeter(m) /\ OfWindow(m, kind, w, t)
<1>1. w \in window /\ w # Nil
  BY DEF Optional, windowMeter
<1>2. w.usedPercent \in Int /\ windowReset(w, t) \in Optional(Int)
  BY <1>1, WindowResetExact DEF window
<1>3. SeverityNormal \in Severity
  BY DEF SeverityNormal, Severity
<1>4. m = Utilization(<<"openai", Kind(kind)>>, Kind(kind), w.usedPercent,
                      windowReset(w, t), SeverityNormal, active)
  BY <1>1 DEF windowMeter
<1>5. IsMeter(m)
  <2>1. Kind(kind) \in MeterKind
    BY KindsSpelled
  <2>2. QED
    BY <1>2, <1>3, <1>4, <2>1, UtilizationIsMeter
<1>6. /\ m.shape = "utilization" /\ m.used = Nil /\ m.limit = Nil
      /\ m.name = Kind(kind) /\ m.reset = windowReset(w, t)
  BY <1>4 DEF Utilization
<1>7. QED
  BY <1>1, <1>5, <1>6 DEF OfWindow

LEMMA CreditsMeterTyped ==
    ASSUME NEW c \in Optional(credits), NEW m, m = creditsBalance(c), m # Nil
    PROVE  /\ IsMeter(m) /\ m.shape = "balance" /\ m.reset = Nil /\ m.limit = Nil
           /\ c.balance \in dollarText /\ parseDollarString(c.balance) # Nil
           /\ m.used = parseDollarString(c.balance)
<1> DEFINE used == parseDollarString(c.balance)
<1>1. c \in credits /\ used # Nil
      /\ m = Balance(<<"openai", Kind("credits")>>, Kind("credits"), 0, SeverityNormal, used, Nil)
  BY DEF Optional, creditsBalance
<1>2. c.balance \in dollarText
  BY <1>1 DEF credits
<1>3. used \in money
  BY <1>1, <1>2, DollarsExact
<1> HIDE DEF used
<1>4. SeverityNormal \in Severity /\ 0 \in Int /\ Nil \in Optional(money)
  BY DEF SeverityNormal, Severity, Optional
<1>5. IsMeter(m)
  <2>1. Kind("credits") \in MeterKind
    BY KindsSpelled DEF OwnKinds
  <2>2. QED
    BY <1>1, <1>3, <1>4, <2>1, BalanceIsMeter
<1>6. m.shape = "balance" /\ m.reset = Nil /\ m.limit = Nil /\ m.used = used
  BY <1>1 DEF Balance
<1>7. QED
  BY <1>1, <1>2, <1>5, <1>6 DEF used

\* What comes of an answer of openai is a snapshot, and each of its meters has come
\* from one of the windows, or from the credits.
LEMMA OpenaiSnapshot ==
    ASSUME NEW doc \in Optional(OpenaiDocument), NEW t \in Int,
           NEW s, s = decodeOpenai(doc, t), s # Nil
    PROVE  /\ IsSnapshot(s)
           /\ \A m \in Range(s.meters) :
                 \/ \E stated \in StatedWindows(doc) : OfWindow(m, stated[1], stated[2], t)
                 \/ /\ m.shape = "balance" /\ m.reset = Nil /\ m.limit = Nil
                    /\ doc.credits.balance \in dollarText
                    /\ parseDollarString(doc.credits.balance) # Nil
                    /\ m.used = parseDollarString(doc.credits.balance)
<1> DEFINE limit == doc.rateLimit
           review == doc.codeReviewRateLimit
           a == windowMeter("session", primaryWindow(limit), TRUE, t)
           b == windowMeter("weekly", secondaryWindow(limit), FALSE, t)
           c == windowMeter("code_review_session", primaryWindow(review), FALSE, t)
           d == windowMeter("code_review_weekly", secondaryWindow(review), FALSE, t)
           e == creditsBalance(doc.credits)
           all == <<a, b, c, d>> \o <<e>>
           FromWindow(m) == \E stated \in StatedWindows(doc) : OfWindow(m, stated[1], stated[2], t)
           FromCredits(m) == /\ m.shape = "balance" /\ m.reset = Nil /\ m.limit = Nil
                             /\ doc.credits.balance \in dollarText
                             /\ parseDollarString(doc.credits.balance) # Nil
                             /\ m.used = parseDollarString(doc.credits.balance)
           Good(m) == IsMeter(m) /\ (FromWindow(m) \/ FromCredits(m))
<1>1. doc \in OpenaiDocument
  BY DEF Optional, decodeOpenai
<1>2. /\ limit \in Optional(rateLimit) /\ review \in Optional(rateLimit)
      /\ doc.credits \in Optional(credits) /\ doc.planType \in Word
  BY <1>1 DEF OpenaiDocument
<1>3. \A r \in Optional(rateLimit) :
         primaryWindow(r) \in Optional(window) /\ secondaryWindow(r) \in Optional(window)
  BY DEF Optional, rateLimit, primaryWindow, secondaryWindow
<1>4. /\ <<"session", primaryWindow(limit)>> \in StatedWindows(doc)
      /\ <<"weekly", secondaryWindow(limit)>> \in StatedWindows(doc)
      /\ <<"code_review_session", primaryWindow(review)>> \in StatedWindows(doc)
      /\ <<"code_review_weekly", secondaryWindow(review)>> \in StatedWindows(doc)
  BY DEF StatedWindows
<1>5. s = Snapshot("openai", doc.planType, Present(all), t)
  BY DEF decodeOpenai
<1>6. ASSUME NEW kind \in OwnKinds, NEW w \in Optional(window),
             <<kind, w>> \in StatedWindows(doc), NEW active \in BOOLEAN,
             NEW m, m = windowMeter(kind, w, active, t), m # Nil
      PROVE  Good(m)
  <2>1. IsMeter(m) /\ OfWindow(m, kind, w, t)
    BY <1>6, WindowMeterTyped
  <2> DEFINE stated == <<kind, w>>
  <2>2. stated \in StatedWindows(doc) /\ stated[1] = kind /\ stated[2] = w
    BY <1>6
  <2>3. FromWindow(m)
    BY <2>1, <2>2
  <2>4. QED
    BY <2>1, <2>3
<1>7. e = Nil \/ Good(e)
  <2> HIDE DEF FromWindow
  <2>1. e # Nil => IsMeter(e) /\ FromCredits(e)
    BY <1>2, CreditsMeterTyped
  <2>2. QED
    BY <2>1
<1> HIDE DEF Good
<1>8. (a = Nil \/ Good(a)) /\ (b = Nil \/ Good(b)) /\ (c = Nil \/ Good(c)) /\ (d = Nil \/ Good(d))
  <2>1. a = Nil \/ Good(a)
    BY <1>2, <1>3, <1>4, <1>6, OwnKindNames
  <2>2. b = Nil \/ Good(b)
    BY <1>2, <1>3, <1>4, <1>6, OwnKindNames
  <2>3. c = Nil \/ Good(c)
    BY <1>2, <1>3, <1>4, <1>6, OwnKindNames
  <2>4. d = Nil \/ Good(d)
    BY <1>2, <1>3, <1>4, <1>6, OwnKindNames
  <2>5. QED
    BY <2>1, <2>2, <2>3, <2>4
<1> HIDE DEF a, b, c, d, e
<1>9. IsSeq(all) /\ \A m \in Range(all) : m = Nil \/ Good(m)
  <2>1. <<a, b, c, d>> \in Seq({a, b, c, d}) /\ Range(<<a, b, c, d>>) = {a, b, c, d}
    BY DEF Range
  <2>2. IsSeq(<<a, b, c, d>>)
    BY <2>1, SeqFrom
  <2>3. IsSeq(<<e>>) /\ Range(<<e>>) = {e}
    BY SeqOne DEF Range
  <2>4. IsSeq(all) /\ Range(all) = {a, b, c, d} \cup {e}
    BY <2>1, <2>2, <2>3, SeqConcat, RangeConcat
  <2>5. QED
    BY <1>7, <1>8, <2>4
<1> HIDE DEF all
<1>10. \A m \in Range(Present(all)) : m # Nil /\ Good(m)
  BY <1>9, PresentKeeps
<1>11. IsSeq(Present(all))
  BY <1>9, PresentKeeps
<1>12. AreMeters(Present(all))
  BY <1>10, <1>11, MetersByRange DEF Good
<1>13. IsSnapshot(s) /\ s.meters = Present(all)
  BY <1>2, <1>5, <1>12, SnapshotTyped
<1>14. QED
  BY <1>10, <1>13 DEF Good

-------------------------------------------------------------------------------
(* What a poll leaves *)

IsError(e) == e.kind \in Kinds /\ IsWord(e.renewHint) /\ e.retryAfter \in Int

IsSub(s, vendor) ==
    /\ s = [vendor |-> vendor, snapshot |-> s.snapshot, updatedAt |-> s.updatedAt,
            lastError |-> s.lastError, nextPollAt |-> s.nextPollAt, account |-> s.account,
            preferences |-> s.preferences]
    /\ s.snapshot # Nil => IsSnapshot(s.snapshot) /\ s.updatedAt \in Int /\ s.nextPollAt \in Int
    /\ s.lastError # Nil => IsError(s.lastError)
    /\ s.account # Nil =>
           IsWord(s.account.name) /\ IsWord(s.account.email) /\ IsWord(s.account.organization)
    /\ s.preferences # Nil => IsWord(s.preferences.model) /\ IsWord(s.preferences.effort)

\* The last answer accounts for what State returns: a failure's wait is the header's,
\* and without a failure the snapshot is the document's.
Accounted(sub, answer, vendor) ==
    answer # Nil =>
        /\ answer.at \in Int
        /\ sub.lastError # Nil =>
              /\ answer.header.form \in {"seconds", "date"} => answer.header.value \in Int
              /\ sub.lastError.retryAfter = ParseRetryAfter(answer.header, answer.at)
        /\ sub.lastError = Nil =>
              /\ sub.snapshot # Nil
              /\ vendor = "openai" =>
                    /\ answer.doc \in Optional(OpenaiDocument)
                    /\ sub.snapshot = decodeOpenai(answer.doc, answer.at)

Readings ==
    /\ subs = [p \in 1 .. 2 |-> subs[p]]
    /\ heard = [p \in 1 .. 2 |-> heard[p]]
    /\ now \in Int
    /\ cfg \in Settings
    /\ \A p \in 1 .. 2 : IsSub(subs[p], Vendors[p]) /\ Accounted(subs[p], heard[p], Vendors[p])

LEMMA TwoVendors ==
    DOMAIN Vendors = 1 .. 2 /\ Vendors[1] = "anthropic" /\ Vendors[2] = "openai"
  BY DEF Vendors

LEMMA SettingsTyped ==
    ASSUME NEW c \in Settings
    PROVE  /\ c.lang \in Languages /\ c.warn \in Int /\ c.crit \in Int /\ c.interval \in Int
           /\ c.warn < c.crit
  BY MenuConstants

LEMMA ReadingsInit == Init => Readings
<1> SUFFICES ASSUME Init PROVE Readings
  OBVIOUS
<1>1. /\ subs = [p \in 1 .. 2 |-> Waiting(Vendors[p])] /\ heard = [p \in 1 .. 2 |-> Nil]
      /\ now = 0 /\ cfg \in Settings
  BY TwoVendors, MenuConstants DEF Init
<1>2. ASSUME NEW p \in 1 .. 2
      PROVE  IsSub(subs[p], Vendors[p]) /\ Accounted(subs[p], heard[p], Vendors[p])
  <2>1. subs[p] = Waiting(Vendors[p]) /\ heard[p] = Nil
    BY <1>1
  <2>2. QED
    BY <2>1 DEF Waiting, IsSub, Accounted
<1>3. QED
  BY <1>1, <1>2 DEF Readings

\* What a poll leaves in State, and nothing of another provider's.
LEMMA RecordEffect ==
    ASSUME Readings, NEW p \in 1 .. 2, NEW state, NEW answer, Record(p, state, answer)
    PROVE  /\ subs' = [q \in 1 .. 2 |-> subs'[q]] /\ heard' = [q \in 1 .. 2 |-> heard'[q]]
           /\ \A q \in 1 .. 2 : q # p => subs'[q] = subs[q] /\ heard'[q] = heard[q]
           /\ heard'[p] = answer
           /\ subs'[p] = [vendor |-> Vendors[p], snapshot |-> state.snapshot,
                          updatedAt |-> state.updatedAt, lastError |-> state.lastError,
                          nextPollAt |-> now + cfg.interval, account |-> subs[p].account,
                          preferences |-> subs[p].preferences]
           /\ now' = now /\ cfg' = cfg
<1> DEFINE s == subs[p]
<1>1. s = [vendor |-> Vendors[p], snapshot |-> s.snapshot, updatedAt |-> s.updatedAt,
           lastError |-> s.lastError, nextPollAt |-> s.nextPollAt, account |-> s.account,
           preferences |-> s.preferences]
  BY DEF Readings, IsSub
<1>2. subs = [q \in 1 .. 2 |-> subs[q]] /\ heard = [q \in 1 .. 2 |-> heard[q]]
  BY DEF Readings
<1>3. subs' = [subs EXCEPT ![p] = [vendor |-> Vendors[p], snapshot |-> state.snapshot,
                          updatedAt |-> state.updatedAt, lastError |-> state.lastError,
                          nextPollAt |-> now + cfg.interval, account |-> subs[p].account,
                          preferences |-> subs[p].preferences]]
  <2>1. [s EXCEPT !.snapshot = state.snapshot, !.updatedAt = state.updatedAt,
                  !.lastError = state.lastError, !.nextPollAt = now + cfg.interval]
            = [vendor |-> Vendors[p], snapshot |-> state.snapshot,
               updatedAt |-> state.updatedAt, lastError |-> state.lastError,
               nextPollAt |-> now + cfg.interval, account |-> s.account,
               preferences |-> s.preferences]
    <3> DEFINE r == [s EXCEPT !.snapshot = state.snapshot]
               u == [r EXCEPT !.updatedAt = state.updatedAt]
               e == [u EXCEPT !.lastError = state.lastError]
               n == [e EXCEPT !.nextPollAt = now + cfg.interval]
    <3>1. [s EXCEPT !.snapshot = state.snapshot, !.updatedAt = state.updatedAt,
                    !.lastError = state.lastError, !.nextPollAt = now + cfg.interval] = n
      OBVIOUS
    <3>2. \A x : x = n => x = [vendor |-> Vendors[p], snapshot |-> state.snapshot,
               updatedAt |-> state.updatedAt, lastError |-> state.lastError,
               nextPollAt |-> now + cfg.interval, account |-> s.account,
               preferences |-> s.preferences]
      <4> HIDE DEF s
      <4>1. \A x : x = r => x = [vendor |-> Vendors[p], snapshot |-> state.snapshot,
                 updatedAt |-> s.updatedAt, lastError |-> s.lastError,
                 nextPollAt |-> s.nextPollAt, account |-> s.account,
                 preferences |-> s.preferences]
        BY <1>1
      <4> HIDE DEF r
      <4>2. \A x : x = u => x = [vendor |-> Vendors[p], snapshot |-> state.snapshot,
                 updatedAt |-> state.updatedAt, lastError |-> s.lastError,
                 nextPollAt |-> s.nextPollAt, account |-> s.account,
                 preferences |-> s.preferences]
        BY <4>1
      <4> HIDE DEF u
      <4>3. \A x : x = e => x = [vendor |-> Vendors[p], snapshot |-> state.snapshot,
                 updatedAt |-> state.updatedAt, lastError |-> state.lastError,
                 nextPollAt |-> s.nextPollAt, account |-> s.account,
                 preferences |-> s.preferences]
        BY <4>2
      <4> HIDE DEF e
      <4>4. QED
        BY <4>3
    <3> HIDE DEF n
    <3>3. QED
      BY <3>1, <3>2
  <2>2. QED
    BY <1>2, <2>1 DEF Record
<1>4. heard' = [heard EXCEPT ![p] = answer] /\ now' = now /\ cfg' = cfg
  BY DEF Record
<1>5. QED
  BY <1>2, <1>3, <1>4

LEMMA RecordReadings ==
    ASSUME Readings, NEW p \in 1 .. 2, NEW state, NEW answer, Record(p, state, answer),
           state.snapshot # Nil => IsSnapshot(state.snapshot) /\ state.updatedAt \in Int,
           state.lastError # Nil => IsError(state.lastError),
           Accounted(state, answer, Vendors[p])
    PROVE  Readings'
<1>1. now \in Int /\ cfg \in Settings /\ IsSub(subs[p], Vendors[p])
  BY DEF Readings
<1>2. now + cfg.interval \in Int
  BY <1>1, SettingsTyped
<1> DEFINE s == [vendor |-> Vendors[p], snapshot |-> state.snapshot,
                 updatedAt |-> state.updatedAt, lastError |-> state.lastError,
                 nextPollAt |-> now + cfg.interval, account |-> subs[p].account,
                 preferences |-> subs[p].preferences]
<1>3. IsSub(s, Vendors[p])
  <2>1. subs[p].account # Nil => IsWord(subs[p].account.name) /\ IsWord(subs[p].account.email)
                                     /\ IsWord(subs[p].account.organization)
    BY <1>1 DEF IsSub
  <2>2. subs[p].preferences # Nil =>
            IsWord(subs[p].preferences.model) /\ IsWord(subs[p].preferences.effort)
    BY <1>1 DEF IsSub
  <2>3. QED
    BY <1>2, <2>1, <2>2 DEF IsSub
<1>4. Accounted(s, answer, Vendors[p])
  BY DEF Accounted
<1>5. /\ subs' = [q \in 1 .. 2 |-> subs'[q]] /\ heard' = [q \in 1 .. 2 |-> heard'[q]]
      /\ \A q \in 1 .. 2 : q # p => subs'[q] = subs[q] /\ heard'[q] = heard[q]
      /\ heard'[p] = answer /\ subs'[p] = s /\ now' = now /\ cfg' = cfg
  BY RecordEffect
<1> HIDE DEF s
<1>6. ASSUME NEW q \in 1 .. 2
      PROVE  IsSub(subs'[q], Vendors[q]) /\ Accounted(subs'[q], heard'[q], Vendors[q])
  <2>1. CASE q = p
    BY <1>3, <1>4, <1>5, <2>1
  <2>2. CASE q # p
    BY <1>5, <2>2 DEF Readings
  <2>3. QED
    BY <2>1, <2>2
<1>7. QED
  BY <1>1, <1>5, <1>6 DEF Readings

\* An error is an error, and told from none.
LEMMA FailedIsError ==
    ASSUME Readings, NEW p \in 1 .. 2, NEW kind \in Kinds, NEW header,
           header.form \in {"seconds", "date"} => header.value \in Int,
           NEW state, state = Failed(p, kind, header)
    PROVE  /\ state.snapshot = subs[p].snapshot /\ state.updatedAt = subs[p].updatedAt
           /\ state.lastError # Nil /\ IsError(state.lastError)
           /\ state.lastError.retryAfter = ParseRetryAfter(header, now)
<1> DEFINE e == [kind |-> kind, renewHint |-> IF kind = "Unauthorized" THEN RenewHint ELSE <<>>,
                 retryAfter |-> ParseRetryAfter(header, now)]
<1>1. now \in Int
  BY DEF Readings
<1>2. ParseRetryAfter(header, now) \in Int
  <2>1. ParseRetryAfter(header, now) \in 0 .. Day /\ Day \in Nat
    BY <1>1, RetryAfterBounded, QuotaConstants
  <2>2. QED
    BY <2>1
<1>3. e \in [kind : Kinds, renewHint : {<<>>, RenewHint}, retryAfter : Int]
  BY <1>2
<1>4. e # Nil
  BY <1>3, MenuInputs
<1>5. IsWord(<<>>)
  BY SeqEmpty DEF IsWord
<1>6. IsWord(RenewHint)
  BY WordIsWord, MenuInputs
<1>7. IsError(e)
  BY <1>2, <1>5, <1>6 DEF IsError
<1>8. /\ state.snapshot = subs[p].snapshot /\ state.updatedAt = subs[p].updatedAt
      /\ state.lastError = e
  BY DEF Failed
<1>9. QED
  BY <1>4, <1>7, <1>8

LEMMA AnsweredReadings ==
    ASSUME Readings, NEW p \in 1 .. 2, NEW doc \in Usage[Vendors[p]], NEW plan \in Plans,
           Answered(p, doc, plan)
    PROVE  Readings'
<1> DEFINE snapshot == IF Vendors[p] = "anthropic" THEN decodeAnthropic(doc, plan, now)
                       ELSE decodeOpenai(doc, now)
           answer == [doc |-> doc, header |-> NoHeader, at |-> now]
<1>1. now \in Int
  BY DEF Readings
<1>2. NoHeader.form \notin {"seconds", "date"}
  BY DEF NoHeader
<1>3. plan \in Word
  BY MenuInputs
<1>4. CASE snapshot = Nil
  <2> DEFINE state == Failed(p, "Protocol", NoHeader)
  <2>1. Record(p, state, answer)
    BY <1>4 DEF Answered
  <2>2. /\ state.snapshot = subs[p].snapshot /\ state.updatedAt = subs[p].updatedAt
        /\ state.lastError # Nil /\ IsError(state.lastError)
        /\ state.lastError.retryAfter = ParseRetryAfter(NoHeader, now)
    BY <1>2, FailedIsError DEF Kinds
  <2> HIDE DEF state
  <2>3. state.snapshot # Nil => IsSnapshot(state.snapshot) /\ state.updatedAt \in Int
    BY <2>2 DEF Readings, IsSub
  <2>4. Accounted(state, answer, Vendors[p])
    BY <1>1, <1>2, <2>2 DEF Accounted
  <2>5. QED
    BY <2>1, <2>2, <2>3, <2>4, RecordReadings
<1>5. CASE snapshot # Nil
  <2> DEFINE state == Observed(snapshot)
  <2>1. Record(p, state, answer)
    BY <1>5 DEF Answered
  <2>2. state.snapshot = snapshot /\ state.updatedAt = now /\ state.lastError = Nil
    BY DEF Observed
  <2>3. CASE p = 1
    <3>1. Vendors[p] = "anthropic" /\ doc \in Optional(AnthropicDocument)
      BY <2>3, TwoVendors, MenuInputs
    <3>2. IsSnapshot(snapshot)
      BY <1>1, <1>3, <1>5, <3>1, AnthropicSnapshot
    <3>3. Accounted(state, answer, Vendors[p])
      BY <1>1, <1>5, <2>2, <3>1 DEF Accounted
    <3> HIDE DEF state, snapshot
    <3>4. QED
      BY <1>1, <2>1, <2>2, <3>2, <3>3, RecordReadings
  <2>4. CASE p = 2
    <3>1. Vendors[p] = "openai" /\ doc \in Optional(OpenaiDocument) /\ snapshot = decodeOpenai(doc, now)
      BY <2>4, TwoVendors, MenuInputs
    <3> HIDE DEF snapshot
    <3>2. IsSnapshot(snapshot)
      BY <1>1, <1>5, <3>1, OpenaiSnapshot
    <3>3. Accounted(state, answer, Vendors[p])
      BY <1>1, <1>5, <2>2, <3>1 DEF Accounted
    <3> HIDE DEF state
    <3>4. QED
      BY <1>1, <2>1, <2>2, <3>2, <3>3, RecordReadings
  <2>5. p = 1 \/ p = 2
    OBVIOUS
  <2>6. QED
    BY <2>3, <2>4, <2>5
<1>6. QED
  BY <1>4, <1>5

LEMMA RefusedReadings ==
    ASSUME Readings, NEW p \in 1 .. 2, NEW f \in Failures, Refused(p, f.kind, f.header)
    PROVE  Readings'
<1> DEFINE state == Failed(p, f.kind, f.header)
           answer == [doc |-> Nil, header |-> f.header, at |-> now]
<1>1. f.kind \in Kinds /\ (f.header.form \in {"seconds", "date"} => f.header.value \in Int)
  BY MenuInputs
<1>2. Record(p, state, answer)
  BY DEF Refused
<1>3. /\ state.snapshot = subs[p].snapshot /\ state.updatedAt = subs[p].updatedAt
      /\ state.lastError # Nil /\ IsError(state.lastError)
      /\ state.lastError.retryAfter = ParseRetryAfter(f.header, now)
  BY <1>1, FailedIsError
<1> HIDE DEF state
<1>4. state.snapshot # Nil => IsSnapshot(state.snapshot) /\ state.updatedAt \in Int
  BY <1>3 DEF Readings, IsSub
<1>5. Accounted(state, answer, Vendors[p])
  BY <1>1, <1>3 DEF Accounted, Readings
<1>6. QED
  BY <1>2, <1>3, <1>4, <1>5, RecordReadings

\* What State returns is accounted for, after every step.
LEMMA ReadingsStep == Readings /\ [Next]_vars => Readings'
<1> SUFFICES ASSUME Readings, [Next]_vars PROVE Readings'
  OBVIOUS
<1>1. ASSUME NEW p \in DOMAIN Vendors, NEW doc \in Usage[Vendors[p]], NEW plan \in Plans,
             Answered(p, doc, plan)
      PROVE  Readings'
  BY <1>1, TwoVendors, AnsweredReadings
<1>2. ASSUME NEW p \in DOMAIN Vendors, NEW f \in Failures, Refused(p, f.kind, f.header)
      PROVE  Readings'
  BY <1>2, TwoVendors, RefusedReadings
<1>3. ASSUME NEW account \in Accounts, NEW preferences \in Preferences,
             DocumentsRead(account, preferences)
      PROVE  Readings'
  <2> DEFINE s == subs[1]
             r == [s EXCEPT !.account = account]
             n == [r EXCEPT !.preferences = preferences]
  <2>1. /\ subs = [p \in 1 .. 2 |-> subs[p]] /\ now \in Int /\ cfg \in Settings
        /\ IsSub(s, Vendors[1])
    BY DEF Readings
  <2>2. subs' = [subs EXCEPT ![1] = n]
    BY <1>3, <2>1 DEF DocumentsRead
  <2>3. s = [vendor |-> Vendors[1], snapshot |-> s.snapshot, updatedAt |-> s.updatedAt,
             lastError |-> s.lastError, nextPollAt |-> s.nextPollAt, account |-> s.account,
             preferences |-> s.preferences]
    BY <2>1 DEF IsSub
  <2> HIDE DEF s
  <2>4. \A x : x = r => x = [vendor |-> Vendors[1], snapshot |-> s.snapshot,
             updatedAt |-> s.updatedAt, lastError |-> s.lastError,
             nextPollAt |-> s.nextPollAt, account |-> account, preferences |-> s.preferences]
    BY <2>3
  <2> HIDE DEF r
  <2>5. \A x : x = n => x = [vendor |-> Vendors[1], snapshot |-> s.snapshot,
             updatedAt |-> s.updatedAt, lastError |-> s.lastError,
             nextPollAt |-> s.nextPollAt, account |-> account, preferences |-> preferences]
    BY <2>4
  <2> HIDE DEF n
  <2>6. /\ account # Nil => IsWord(account.name) /\ IsWord(account.email)
                                /\ IsWord(account.organization)
        /\ preferences # Nil => IsWord(preferences.model) /\ IsWord(preferences.effort)
    <3>1. account \in Optional([name : Word, email : Word, organization : Word])
          /\ preferences \in Optional([model : Word, effort : Word])
      BY MenuInputs
    <3>2. account # Nil => account.name \in Word /\ account.email \in Word
                               /\ account.organization \in Word
      BY <3>1 DEF Optional
    <3>3. preferences # Nil => preferences.model \in Word /\ preferences.effort \in Word
      BY <3>1 DEF Optional
    <3>4. QED
      BY <3>2, <3>3, WordIsWord
  <2>7. /\ s.snapshot # Nil => IsSnapshot(s.snapshot) /\ s.updatedAt \in Int /\ s.nextPollAt \in Int
        /\ s.lastError # Nil => IsError(s.lastError)
    BY <2>1 DEF IsSub
  <2>8. PICK x : x = n
    OBVIOUS
  <2>9. /\ IsSub(x, Vendors[1]) /\ x.snapshot = s.snapshot /\ x.lastError = s.lastError
    <3>1. x = [vendor |-> Vendors[1], snapshot |-> s.snapshot,
             updatedAt |-> s.updatedAt, lastError |-> s.lastError,
             nextPollAt |-> s.nextPollAt, account |-> account, preferences |-> preferences]
      BY <2>5, <2>8
    <3>2. QED
      BY <2>6, <2>7, <3>1 DEF IsSub
  <2>10. subs' = [p \in 1 .. 2 |-> subs'[p]] /\ subs'[1] = x /\ subs'[2] = subs[2]
    <3>1. subs = [p \in 1 .. 2 |-> subs[p]]
      BY <2>1
    <3>2. subs' = [subs EXCEPT ![1] = x]
      BY <2>2, <2>8
    <3>3. 1 \in 1 .. 2 /\ 2 \in 1 .. 2
      OBVIOUS
    <3>4. subs' = [p \in 1 .. 2 |-> IF p = 1 THEN x ELSE subs[p]]
      BY <3>1, <3>2
    <3>5. QED
      BY <3>3, <3>4
  <2>11. heard' = heard /\ now' = now /\ cfg' = cfg
    BY <1>3 DEF DocumentsRead
  <2>12. Accounted(x, heard[1], Vendors[1])
    <3>1. Accounted(s, heard[1], Vendors[1])
      BY DEF Readings, s
    <3>2. QED
      BY <2>9, <3>1 DEF Accounted
  <2>13. ASSUME NEW p \in 1 .. 2
         PROVE  IsSub(subs'[p], Vendors[p]) /\ Accounted(subs'[p], heard'[p], Vendors[p])
    <3>1. CASE p = 1
      BY <2>9, <2>10, <2>11, <2>12, <3>1
    <3>2. CASE p = 2
      BY <2>10, <2>11, <3>2 DEF Readings
    <3>3. QED
      BY <3>1, <3>2
  <2>14. QED
    BY <2>10, <2>11, <2>13 DEF Readings
<1>4. ASSUME NEW step \in Steps, Tick(step)
      PROVE  Readings'
  <2>1. now' \in Int
    BY <1>4, MenuConstants DEF Tick, Readings
  <2>2. QED
    BY <1>4, <2>1 DEF Tick, Readings
<1>5. CASE Apply
  BY <1>5 DEF Apply, Readings
<1>6. ASSUME NEW changed \in Settings, ChangeSettings(changed)
      PROVE  Readings'
  BY <1>6 DEF ChangeSettings, Readings
<1>7. ASSUME NEW key, Notify(key)
      PROVE  Readings'
  BY <1>7 DEF Notify, Readings
<1>8. CASE UNCHANGED vars
  BY <1>8 DEF vars, Readings
<1>9. QED
  BY <1>1, <1>2, <1>3, <1>4, <1>5, <1>6, <1>7, <1>8 DEF Next

LEMMA ReadingsAlways == Spec => []Readings
<1>1. QED
  BY ReadingsInit, ReadingsStep, PTL DEF Spec

LEMMA SnapshotMeters ==
    ASSUME NEW s, IsSnapshot(s)
    PROVE  /\ IsSeq(s.meters) /\ Len(s.meters) \in Nat /\ DOMAIN s.meters = 1 .. Len(s.meters)
           /\ \A m \in Range(s.meters) : m # Nil /\ IsMeter(m)
           /\ \A i \in 1 .. Len(s.meters) : s.meters[i] # Nil /\ IsMeter(s.meters[i])
<1>1. AreMeters(s.meters)
  BY DEF IsSnapshot
<1>2. IsSeq(s.meters)
  BY <1>1 DEF AreMeters
<1>3. \A m \in Range(s.meters) : m # Nil /\ IsMeter(m)
  BY <1>1, <1>2, MetersByRange
<1>4. Len(s.meters) \in Nat /\ DOMAIN s.meters = 1 .. Len(s.meters)
  BY <1>2, SeqIsFunction
<1>5. QED
  BY <1>1, <1>2, <1>3, <1>4 DEF AreMeters

LEMMA ReadingsExact == Readings => NumbersExact
<1> SUFFICES ASSUME Readings PROVE NumbersExact
  OBVIOUS
<1> DEFINE Exact(m) ==
               LET f == Figures(m)
               IN  /\ f.whole >= 0 /\ f.rest \in 0 .. tenTo[f.places] - 1
                   /\ (IF f.negative THEN -1 ELSE 1) * (f.whole * tenTo[f.places] + f.rest) = m.minor
                   /\ m.exponent <= MaxMoneyExponent => f.places = m.exponent
           WaitKept(p) ==
               LET header == heard[p].header
                   wait == subs[p].lastError.retryAfter
               IN  (heard[p] # Nil /\ subs[p].lastError # Nil) =>
                       /\ header.form = "date" =>
                             wait = Max({0, Min({Day, header.value - heard[p].at})})
                       /\ (header.form = "seconds" /\ header.value < Half) =>
                             wait = Max({0, Min({Day, header.value * Second})})
           ResetKept(p, m) ==
               m.shape = "utilization" =>
                   \E s \in StatedWindows(heard[p].doc) :
                       m.name = Kind(s[1]) /\ s[2] # Nil /\ AsStated(m, s[2], heard[p].at)
           BalanceKept(p, m) ==
               m.shape = "balance" =>
                   LET s == heard[p].doc.credits.balance
                       unit == tenTo[IF s.places = Nil THEN 0 ELSE s.places]
                   IN  (IF s.negative THEN -1 ELSE 1) * m.used.minor * unit
                         = (s.whole * unit + (IF s.places = Nil THEN 0 ELSE s.fraction))
                               * tenTo[DollarExponent]
<1>1. ASSUME NEW p \in 1 .. 2, NEW m \in MetersOf(p)
      PROVE  \A a \in {m.used, m.limit} \ {Nil} : Exact(a)
  <2>1. subs[p].snapshot # Nil /\ IsSnapshot(subs[p].snapshot) /\ m \in Range(subs[p].snapshot.meters)
    BY <1>1 DEF Readings, IsSub, MetersOf
  <2>2. IsMeter(m)
    BY <2>1, SnapshotMeters
  <2>3. \A a \in {m.used, m.limit} \ {Nil} : IsAmount(a)
    BY <2>2 DEF IsMeter
  <2>4. \A a : IsAmount(a) => Exact(a)
    BY FiguresExact
  <2> HIDE DEF Exact
  <2>5. QED
    BY <2>3, <2>4
<1>2. ASSUME NEW p \in 1 .. 2
      PROVE  WaitKept(p)
  <2>1. SUFFICES ASSUME heard[p] # Nil, subs[p].lastError # Nil
                 PROVE  WaitKept(p)
    OBVIOUS
  <2>2. /\ heard[p].at \in Int
        /\ heard[p].header.form \in {"seconds", "date"} => heard[p].header.value \in Int
        /\ subs[p].lastError.retryAfter = ParseRetryAfter(heard[p].header, heard[p].at)
    BY <2>1 DEF Readings, Accounted
  <2>3. QED
    BY <2>2, WaitExact
<1>3. ASSUME NEW p \in 1 .. 2, Confirmed(p, "openai"), NEW m \in MetersOf(p)
      PROVE  ResetKept(p, m) /\ BalanceKept(p, m)
  <2> DEFINE doc == heard[p].doc
             t == heard[p].at
             s == subs[p].snapshot
  <2>1. s # Nil /\ t \in Int /\ doc \in Optional(OpenaiDocument) /\ s = decodeOpenai(doc, t)
    BY <1>3 DEF Readings, Accounted, Confirmed
  <2>2. m \in Range(s.meters)
    BY <1>3, <2>1 DEF MetersOf
  <2> HIDE DEF doc, t, s
  <2>3. \/ \E stated \in StatedWindows(doc) : OfWindow(m, stated[1], stated[2], t)
        \/ /\ m.shape = "balance" /\ m.reset = Nil /\ m.limit = Nil
           /\ doc.credits.balance \in dollarText
           /\ parseDollarString(doc.credits.balance) # Nil
           /\ m.used = parseDollarString(doc.credits.balance)
    BY <2>1, <2>2, OpenaiSnapshot
  <2>4. CASE \E stated \in StatedWindows(doc) : OfWindow(m, stated[1], stated[2], t)
    <3>1. PICK stated \in StatedWindows(doc) : OfWindow(m, stated[1], stated[2], t)
      BY <2>4
    <3>2. /\ m.shape = "utilization" /\ m.name = Kind(stated[1]) /\ stated[2] \in window
          /\ stated[2] # Nil /\ m.reset = windowReset(stated[2], t)
      BY <3>1 DEF OfWindow
    <3>3. AsStated(m, stated[2], t)
      BY <2>1, <3>2, WindowResetExact
    <3>4. ResetKept(p, m)
      BY <3>1, <3>2, <3>3 DEF doc, t
    <3>5. BalanceKept(p, m)
      BY <3>2
    <3>6. QED
      BY <3>4, <3>5
  <2>5. CASE /\ m.shape = "balance"
             /\ doc.credits.balance \in dollarText
             /\ parseDollarString(doc.credits.balance) # Nil
             /\ m.used = parseDollarString(doc.credits.balance)
    <3>1. ResetKept(p, m)
      BY <2>5
    <3> HIDE DEF ResetKept
    <3>2. BalanceKept(p, m)
      BY <2>5, DollarsExact DEF doc
    <3>3. QED
      BY <3>1, <3>2
  <2>6. QED
    BY <2>3, <2>4, <2>5
<1>4. DOMAIN subs = 1 .. 2
  BY DEF Readings
<1> HIDE DEF Exact, WaitKept, ResetKept, BalanceKept
<1>5. \A p \in DOMAIN subs :
          /\ \A m \in MetersOf(p) : \A a \in {m.used, m.limit} \ {Nil} : Exact(a)
          /\ WaitKept(p)
          /\ Confirmed(p, "openai") => \A m \in MetersOf(p) : ResetKept(p, m) /\ BalanceKept(p, m)
  BY <1>1, <1>2, <1>3, <1>4
<1>6. QED
  BY <1>5 DEF NumbersExact, Exact, WaitKept, ResetKept, BalanceKept, AsStated

\* Whatever the documents, the headers and the widths of the integers: a window's meter
\* empties when the window says, if an int64 of seconds from the zero time reaches that
\* far; a wait that an int64 of seconds states is the one taken, within a day; a balance
\* is the one spelled; and an amount prints as its minor units, with the point where the
\* vendor has it up to the places the code prints.
THEOREM NumbersStayExact == Spec => []NumbersExact
<1>1. QED
  BY ReadingsAlways, ReadingsExact, PTL

-------------------------------------------------------------------------------
(* What a draw leaves in the widgets *)

IsItem(x) == "shown" \in DOMAIN x
AreItems(items, n) == DOMAIN items = 1 .. n /\ \A i \in 1 .. n : IsItem(items[i])

\* An item reads as a row when it shows the row's title, or nothing for none.
Reads(item, row) ==
    IF MenuRowTitle(row) = <<>> THEN item.shown = FALSE
    ELSE item.shown = TRUE /\ item.title = MenuRowTitle(row)

ReadRows(items, rows) ==
    \A i \in DOMAIN items :
        IF i > Len(rows) THEN items[i].shown = FALSE ELSE Reads(items[i], rows[i])

Widgets(m) ==
    /\ DOMAIN m = {"header", "provider", "prefs", "meters", "status", "providersMenu",
                   "entries", "commands", "settings", "intervals", "lastIcon", "icon", "tooltip"}
    /\ IsItem(m.header) /\ IsItem(m.provider) /\ IsItem(m.prefs)
    /\ AreItems(m.meters, MaxMeterRows)
    /\ DOMAIN m.entries = 1 .. 2
    /\ \A p \in 1 .. 2 : /\ IsItem(m.entries[p].prefs)
                         /\ AreItems(m.entries[p].meters, MaxMeterRows)
                         /\ AreItems(m.entries[p].accounts, 3)
    /\ m.icon = m.lastIcon

EntryShows(e, c, sub, at) ==
    /\ e.row = [shown |-> TRUE, title |-> MenuRowTitle(ProviderListRow(sub))]
    /\ e.row.title # <<>>
    /\ e.context = MenuRowTitle(ProviderRow(sub))
    /\ Reads(e.prefs, PreferencesRow(c.lang, sub))
    /\ ReadRows(e.meters, MeterRows(c.lang, sub, at))
    /\ e.status = [shown |-> TRUE, title |-> StatusText(c.lang, sub, at)]
    /\ ReadRows(e.accounts, AccountRows(c.lang, sub))

Shows(m, c, all, at) ==
    /\ Reads(m.header, HeaderRow)
    /\ Reads(m.provider, ProviderRow(all[1]))
    /\ Reads(m.prefs, PreferencesRow(c.lang, all[1]))
    /\ ReadRows(m.meters, MeterRows(c.lang, all[1], at))
    /\ \A p \in 1 .. 2 : EntryShows(m.entries[p], c, all[p], at)
    /\ m.providersMenu
    /\ m.icon = Render(IconState(c, all[1]))
    /\ m.tooltip = Tooltip(c.lang, all[1], at)

Titled(m, c) ==
    /\ m.settings = [i \in 1 .. 5 |-> MenuRowTitle(SettingsRows(c)[i])]
    /\ m.commands = newMenuView(c).commands
    /\ m.intervals = newMenuView(c).intervals

AreSubs(all) == DOMAIN all = 1 .. 2 /\ \A p \in 1 .. 2 : IsSub(all[p], Vendors[p])

LEMMA SetReadout ==
    ASSUME NEW item, IsItem(item), NEW row, NEW x, x = setReadout(item, row)
    PROVE  IsItem(x) /\ Reads(x, row)
<1>1. CASE MenuRowTitle(row) = <<>>
  <2>1. x = [item EXCEPT !.shown = FALSE]
    BY <1>1 DEF setReadout
  <2>2. "shown" \in DOMAIN x /\ x.shown = FALSE
    BY <2>1 DEF IsItem
  <2>3. QED
    BY <1>1, <2>2 DEF IsItem, Reads
<1>2. CASE MenuRowTitle(row) # <<>>
  <2>1. x = [shown |-> TRUE, title |-> MenuRowTitle(row)]
    BY <1>2 DEF setReadout
  <2>2. "shown" \in DOMAIN x /\ x.shown = TRUE /\ x.title = MenuRowTitle(row)
    BY <2>1
  <2>3. QED
    BY <1>2, <2>2 DEF IsItem, Reads
<1>3. QED
  BY <1>1, <1>2

LEMMA ApplyRows ==
    ASSUME NEW n \in Nat, NEW items, AreItems(items, n), NEW rows,
           NEW x, x = applyRows(items, rows)
    PROVE  AreItems(x, n) /\ ReadRows(x, rows)
<1>1. /\ DOMAIN x = 1 .. n
      /\ \A i \in 1 .. n : x[i] = IF i > Len(rows) THEN [items[i] EXCEPT !.shown = FALSE]
                                  ELSE setReadout(items[i], rows[i])
  BY DEF applyRows, AreItems
<1>2. ASSUME NEW i \in 1 .. n
      PROVE  /\ IsItem(x[i])
             /\ IF i > Len(rows) THEN x[i].shown = FALSE ELSE Reads(x[i], rows[i])
  <2>1. IsItem(items[i])
    BY DEF AreItems
  <2>2. CASE i > Len(rows)
    <3>1. x[i] = [items[i] EXCEPT !.shown = FALSE]
      BY <1>1, <2>2
    <3>2. QED
      BY <2>1, <2>2, <3>1 DEF IsItem
  <2>3. CASE ~(i > Len(rows))
    <3>1. x[i] = setReadout(items[i], rows[i])
      BY <1>1, <2>3
    <3>2. QED
      BY <2>1, <2>3, <3>1, SetReadout
  <2>4. QED
    BY <2>2, <2>3
<1>3. QED
  BY <1>1, <1>2 DEF AreItems, ReadRows

LEMMA NeutralPlain ==
    ASSUME NEW field, IsSeq(field), \A c \in Range(field) : c \notin {Marker, Control, Format}
    PROVE  neutralized(field) = field
<1> DEFINE ss == [i \in DOMAIN field |-> neutral(field[i])]
<1>1. DOMAIN field = 1 .. Len(field)
  BY SeqIsFunction
<1>2. \A i \in 1 .. Len(field) : ss[i] = <<field[i]>>
  <2>1. \A i \in 1 .. Len(field) : field[i] \notin {Marker, Control, Format}
    BY RangeElement
  <2>2. QED
    BY <1>1, <2>1 DEF neutral
<1>3. neutralized(field) = FlattenSeq(ss)
  BY DEF neutralized
<1>4. ss = [i \in DOMAIN field |-> ss[i]]
  OBVIOUS
<1> HIDE DEF ss
<1>5. IsSeq(ss) /\ Len(ss) = Len(field)
  BY <1>4, SeqMapped
<1>6. QED
  BY <1>2, <1>3, <1>5, FlattenSingles

\* A field without a marker, a control or a format character passes as it is.
LEMMA PlainField ==
    ASSUME NEW field, IsSeq(field), Len(field) <= MaxField,
           \A c \in Range(field) : c \notin {Marker, Control, Format}
    PROVE  sanitizeMenuField(field) = field
  BY NeutralPlain DEF sanitizeMenuField, truncateRunes

LEMMA OneCharacterField ==
    ASSUME NEW c, c \notin {Marker, Control, Format}
    PROVE  sanitizeMenuField(<<c>>) = <<c>>
<1>1. IsSeq(<<c>>) /\ Len(<<c>>) = 1 /\ Range(<<c>>) = {c}
  BY SeqOne DEF Range
<1>2. 1 <= MaxField
  BY PresenterConstants
<1>3. QED
  BY <1>1, <1>2, PlainField

LEMMA EmptyField == sanitizeMenuField(<<>>) = <<>>
<1>1. IsSeq(<<>>) /\ Len(<<>>) = 0 /\ Range(<<>>) = {}
  BY SeqEmpty DEF Range
<1>2. 0 <= MaxField
  BY PresenterConstants
<1>3. QED
  BY <1>1, <1>2, PlainField

LEMMA NeutralIsSeq ==
    ASSUME NEW field, IsSeq(field)
    PROVE  IsSeq(neutralized(field))
<1> DEFINE ss == [i \in DOMAIN field |-> neutral(field[i])]
<1>1. DOMAIN field = 1 .. Len(field)
  BY SeqIsFunction
<1>2. \A c : IsSeq(neutral(c))
  <2>1. \A c, d : IsSeq(<<c, d>>) /\ IsSeq(<<c>>)
    BY SeqTwo, SeqOne
  <2>2. QED
    BY <2>1, SeqEmpty DEF neutral
<1>3. \A i \in 1 .. Len(field) : IsSeq(ss[i])
  BY <1>1, <1>2
<1>4. neutralized(field) = FlattenSeq(ss)
  BY DEF neutralized
<1>5. ss = [i \in DOMAIN field |-> ss[i]]
  OBVIOUS
<1> HIDE DEF ss
<1>6. AllSeqs(ss)
  BY <1>3, <1>5, SeqMapped DEF AllSeqs
<1>7. QED
  BY <1>4, <1>6, FlattenIsSeq

\* A text that is cut is a text of the limit, with an ellipsis at its end.
LEMMA Truncated ==
    ASSUME NEW text, IsSeq(text), NEW limit \in Nat \ {0}
    PROVE  /\ IsSeq(truncateRunes(text, limit))
           /\ Len(truncateRunes(text, limit)) = IF Len(text) <= limit THEN Len(text) ELSE limit
           /\ \A i \in 1 .. Len(truncateRunes(text, limit)) :
                  \/ i <= Len(text) /\ truncateRunes(text, limit)[i] = text[i]
                  \/ Len(text) > limit /\ i = limit /\ truncateRunes(text, limit)[i] = Ellipsis
<1>1. Len(text) \in Nat /\ text \in Seq(Range(text))
  BY SeqIsFunction DEF IsSeq
<1>2. CASE Len(text) <= limit
  BY <1>1, <1>2 DEF truncateRunes
<1>3. CASE Len(text) > limit
  <2> DEFINE head == SubSeq(text, 1, limit - 1)
  <2>1. /\ head \in Seq(Range(text)) /\ Len(head) = limit - 1
        /\ \A i \in 1 .. limit - 1 : head[i] = text[i]
    BY <1>1, <1>3, SubSeqProperties
  <2>2. IsSeq(head)
    BY <2>1, SeqFrom
  <2>3. truncateRunes(text, limit) = head \o <<Ellipsis>>
    BY <1>1, <1>3 DEF truncateRunes
  <2> HIDE DEF head
  <2>4. /\ IsSeq(head \o <<Ellipsis>>) /\ Len(head \o <<Ellipsis>>) = limit
        /\ \A i \in 1 .. limit : (head \o <<Ellipsis>>)[i] =
               IF i <= limit - 1 THEN head[i] ELSE <<Ellipsis>>[i - (limit - 1)]
    BY <2>1, <2>2, SeqOne, SeqConcat
  <2>5. \A i \in 1 .. limit : IF i <= limit - 1 THEN (head \o <<Ellipsis>>)[i] = text[i]
                              ELSE i = limit /\ (head \o <<Ellipsis>>)[i] = Ellipsis
    <3>1. \A i \in 1 .. limit : ~(i <= limit - 1) => i = limit /\ i - (limit - 1) = 1
      OBVIOUS
    <3>2. <<Ellipsis>>[1] = Ellipsis
      OBVIOUS
    <3>3. QED
      BY <2>1, <2>4, <3>1, <3>2
  <2>6. QED
    BY <1>1, <1>3, <2>3, <2>4, <2>5
<1>4. QED
  BY <1>1, <1>2, <1>3

LEMMA FieldIsSeq ==
    ASSUME NEW field, IsSeq(field)
    PROVE  IsSeq(sanitizeMenuField(field)) /\ Len(sanitizeMenuField(field)) <= MaxField
<1>1. IsSeq(neutralized(field)) /\ MaxField \in Nat \ {0}
  BY NeutralIsSeq, PresenterConstants
<1>2. QED
  BY <1>1, Truncated DEF sanitizeMenuField

\* Two texts with what stands between them.
LEMMA JoinedTwo ==
    ASSUME NEW a, NEW b, NEW separator, IsSeq(a), IsSeq(b), IsSeq(separator),
           NEW t, t = Joined(<<a, b>>, separator)
    PROVE  /\ IsSeq(t)
           /\ a = <<>> => t = b
           /\ b = <<>> => t = a
           /\ a # <<>> /\ b # <<>> => t = a \o (separator \o b)
<1> DEFINE texts == <<a, b>>
           leads(i) == \A j \in 1 .. i - 1 : texts[j] = <<>>
           ss == [i \in DOMAIN texts |-> IF leads(i) \/ texts[i] = <<>> THEN texts[i]
                                         ELSE separator \o texts[i]]
           rest == IF a = <<>> \/ b = <<>> THEN b ELSE separator \o b
<1>1. IsSeq(texts) /\ Len(texts) = 2 /\ texts[1] = a /\ texts[2] = b
  BY SeqTwo
<1>2. DOMAIN texts = 1 .. 2
  BY <1>1, SeqIsFunction
<1>3. Joined(texts, separator) = FlattenSeq(ss)
  BY DEF Joined
<1> HIDE DEF texts
<1>4. leads(1) /\ (leads(2) <=> a = <<>>)
  <2>1. 1 .. 1 - 1 = {} /\ 1 .. 2 - 1 = {1}
    OBVIOUS
  <2>2. QED
    BY <1>1, <2>1
<1> HIDE DEF leads
<1>5. ss[1] = a /\ ss[2] = rest /\ ss = [i \in DOMAIN texts |-> ss[i]]
  BY <1>1, <1>2, <1>4
<1> HIDE DEF ss
<1>6. IsSeq(ss) /\ Len(ss) = 2
  BY <1>1, <1>5, SeqMapped
<1>7. IsSeq(separator \o b) /\ IsSeq(rest)
  BY SeqConcat
<1>8. ss = <<a, rest>>
  <2>1. IsSeq(<<a, rest>>) /\ Len(<<a, rest>>) = 2 /\ <<a, rest>>[1] = a /\ <<a, rest>>[2] = rest
    BY SeqTwo
  <2>2. \A i \in 1 .. 2 : i = 1 \/ i = 2
    OBVIOUS
  <2> HIDE DEF rest
  <2>3. QED
    BY <1>5, <1>6, <2>1, <2>2, SeqSame
<1>9. FlattenSeq(ss) = a \o rest /\ IsSeq(a \o rest)
  <2> HIDE DEF rest
  <2>1. QED
    BY <1>7, <1>8, FlattenTwo, SeqConcat
<1>10. /\ a = <<>> => a \o rest = b
       /\ b = <<>> => a \o rest = a
       /\ a # <<>> /\ b # <<>> => a \o rest = a \o (separator \o b)
  <2>1. a \o <<>> = a /\ <<>> \o b = b
    BY SeqUnit
  <2>2. QED
    BY <2>1
<1> HIDE DEF rest
<1>11. QED
  BY <1>3, <1>9, <1>10 DEF texts

\* A title with nothing on the right.
LEMMA TitleOfLabel ==
    ASSUME NEW label
    PROVE  MenuRowTitle(Row(label, <<>>, <<>>)) = sanitizeMenuField(label)
<1> DEFINE separator == <<Space>>
           a == <<>>
<1>1. IsSeq(separator) /\ IsSeq(a) /\ a = <<>> /\ sanitizeMenuField(<<>>) = a
  BY SeqOne, SeqEmpty, EmptyField
<1> HIDE DEF separator, a
<1>2. PICK t : t = Joined(<<a, a>>, separator)
  OBVIOUS
<1>3. t = <<>>
  BY <1>1, <1>2, JoinedTwo
<1>4. QED
  BY <1>1, <1>2, <1>3 DEF MenuRowTitle, Row, separator

LEMMA CapitalOfLetter ==
    ASSUME NEW c, Letter(c) \notin {Marker, Control, Format}
    PROVE  capitalizeFirst(<<Letter(c)>>) = << <<"capital", Letter(c)>> >>
<1>1. <<Letter(c)>> # <<>> /\ <<Letter(c)>>[1] = Letter(c)
  BY SeqOne
<1>2. Tail(<<Letter(c)>>) = <<>>
  BY SeqOne, SeqEmpty, HeadTailProperties
<1>3. capitalizeFirst(<<Letter(c)>>) = << <<"capital", Letter(c)>> >> \o <<>>
  BY <1>1, <1>2 DEF capitalizeFirst
<1>4. QED
  BY <1>3, SeqOne, SeqUnit

\* No other character is one of the three that a field is rid of.
LEMMA OtherCharacters ==
    ASSUME NEW tag, tag # "letter"
    PROVE  /\ \A x : <<tag, x>> \notin {Marker, Control, Format}
           /\ \A x, y : <<tag, x, y>> \notin {Marker, Control, Format}
  BY DEF Marker, Control, Format, Letter

\* Every provider has a name to show.
LEMMA VendorNamed ==
    ASSUME NEW sub, sub.vendor \in {"anthropic", "openai"}
    PROVE  /\ MenuRowTitle(ProviderListRow(sub)) = << <<"capital", Letter(sub.vendor)>> >>
           /\ MenuRowTitle(ProviderListRow(sub)) # <<>>
           /\ providerVendor(sub) = << <<"capital", Letter(sub.vendor)>> >>
<1>1. Letter(sub.vendor) \notin {Marker, Control, Format}
  BY DEF Letter, Marker, Control, Format
<1>2. providerVendor(sub) = << <<"capital", Letter(sub.vendor)>> >>
  BY <1>1, CapitalOfLetter DEF providerVendor
<1>3. <<"capital", Letter(sub.vendor)>> \notin {Marker, Control, Format}
  BY OtherCharacters
<1>4. QED
  BY <1>2, <1>3, TitleOfLabel, OneCharacterField, SeqOne DEF ProviderListRow

LEMMA ApplyProvider ==
    ASSUME NEW entry, IsItem(entry.prefs), AreItems(entry.meters, MaxMeterRows),
           AreItems(entry.accounts, 3), NEW c, NEW sub, sub.vendor \in {"anthropic", "openai"},
           NEW at, NEW e, e = applyProvider(entry, c, sub, at)
    PROVE  /\ IsItem(e.prefs) /\ AreItems(e.meters, MaxMeterRows) /\ AreItems(e.accounts, 3)
           /\ EntryShows(e, c, sub, at)
<1> DEFINE name == MenuRowTitle(ProviderListRow(sub))
<1>1. name # <<>>
  BY VendorNamed
<1>2. /\ e.row = [shown |-> TRUE, title |-> name]
      /\ e.context = MenuRowTitle(ProviderRow(sub))
      /\ e.prefs = setReadout(entry.prefs, PreferencesRow(c.lang, sub))
      /\ e.meters = applyRows(entry.meters, MeterRows(c.lang, sub, at))
      /\ e.status = [shown |-> TRUE, title |-> StatusText(c.lang, sub, at)]
      /\ e.accounts = applyRows(entry.accounts, AccountRows(c.lang, sub))
  BY <1>1 DEF applyProvider
<1>3. IsItem(e.prefs) /\ Reads(e.prefs, PreferencesRow(c.lang, sub))
  BY <1>2, SetReadout
<1>4. AreItems(e.meters, MaxMeterRows) /\ ReadRows(e.meters, MeterRows(c.lang, sub, at))
  BY <1>2, MenuConstants, ApplyRows
<1>5. AreItems(e.accounts, 3) /\ ReadRows(e.accounts, AccountRows(c.lang, sub))
  BY <1>2, ApplyRows
<1>6. e.row.title # <<>>
  BY <1>1, <1>2
<1>7. QED
  BY <1>2, <1>3, <1>4, <1>5, <1>6 DEF EntryShows

\* A draw makes the widgets show the reading, whatever they showed before.
\* The captions a draw leaves alone.
SameTitles(x, m) ==
    x.settings = m.settings /\ x.commands = m.commands /\ x.intervals = m.intervals

LEMMA ApplyShows ==
    ASSUME NEW m, Widgets(m), NEW c, NEW all, AreSubs(all), NEW at, NEW x, x = apply(m, c, all, at)
    PROVE  /\ Widgets(x) /\ Shows(x, c, all, at) /\ SameTitles(x, m)
           /\ x.status = StatusText(c.lang, all[1], at)
<1> DEFINE active == all[1]
           entries == [p \in DOMAIN all |-> applyProvider(m.entries[p], c, all[p], at)]
           icon == Render(IconState(c, active))
<1>1. /\ DOMAIN x = DOMAIN m
      /\ x.header = setReadout(m.header, HeaderRow)
      /\ x.provider = setReadout(m.provider, ProviderRow(active))
      /\ x.prefs = setReadout(m.prefs, PreferencesRow(c.lang, active))
      /\ x.meters = applyRows(m.meters, MeterRows(c.lang, active, at))
      /\ x.status = StatusText(c.lang, active, at)
      /\ x.entries = entries
      /\ x.providersMenu = \E p \in DOMAIN all : entries[p].row.shown
      /\ x.icon = IF icon # m.lastIcon THEN icon ELSE m.icon
      /\ x.lastIcon = icon
      /\ x.tooltip = Tooltip(c.lang, active, at)
      /\ SameTitles(x, m)
  <2> DEFINE r(header, provider, prefs, meters, status, e, shown, i, tip) ==
                 [m EXCEPT !.header = header, !.provider = provider, !.prefs = prefs,
                           !.meters = meters, !.status = status, !.entries = e,
                           !.providersMenu = shown,
                           !.icon = IF i # m.lastIcon THEN i ELSE @, !.lastIcon = i,
                           !.tooltip = tip]
  <2>1. ASSUME NEW header, NEW provider, NEW prefs, NEW meters, NEW status, NEW e, NEW shown,
               NEW i, NEW tip,
               NEW y, y = r(header, provider, prefs, meters, status, e, shown, i, tip)
        PROVE  /\ DOMAIN y = DOMAIN m /\ y.header = header /\ y.provider = provider
               /\ y.prefs = prefs /\ y.meters = meters /\ y.status = status /\ y.entries = e
               /\ y.providersMenu = shown
               /\ y.icon = IF i # m.lastIcon THEN i ELSE m.icon
               /\ y.lastIcon = i /\ y.tooltip = tip /\ SameTitles(y, m)
    <3>1. DOMAIN m = {"header", "provider", "prefs", "meters", "status", "providersMenu",
                      "entries", "commands", "settings", "intervals", "lastIcon", "icon",
                      "tooltip"}
      BY DEF Widgets
    <3>2. QED
      BY <2>1, <3>1 DEF SameTitles
  <2> DEFINE header == setReadout(m.header, HeaderRow)
             provider == setReadout(m.provider, ProviderRow(active))
             prefs == setReadout(m.prefs, PreferencesRow(c.lang, active))
             meters == applyRows(m.meters, MeterRows(c.lang, active, at))
             status == StatusText(c.lang, active, at)
             tip == Tooltip(c.lang, active, at)
             shown == \E p \in DOMAIN all : entries[p].row.shown
  <2>2. x = r(header, provider, prefs, meters, status, entries, shown, icon, tip)
    BY DEF apply
  <2> HIDE DEF r, entries, icon, header, provider, prefs, meters, status, tip, shown
  <2>3. /\ DOMAIN x = DOMAIN m /\ x.header = header /\ x.provider = provider
        /\ x.prefs = prefs /\ x.meters = meters /\ x.status = status /\ x.entries = entries
        /\ x.providersMenu = shown
        /\ x.icon = IF icon # m.lastIcon THEN icon ELSE m.icon
        /\ x.lastIcon = icon /\ x.tooltip = tip /\ SameTitles(x, m)
    BY <2>1, <2>2
  <2>4. QED
    BY <2>3 DEF header, provider, prefs, meters, status, tip, shown
<1>2. IsItem(x.header) /\ Reads(x.header, HeaderRow)
  BY <1>1, SetReadout DEF Widgets
<1>3. IsItem(x.provider) /\ Reads(x.provider, ProviderRow(active))
  BY <1>1, SetReadout DEF Widgets
<1>4. IsItem(x.prefs) /\ Reads(x.prefs, PreferencesRow(c.lang, active))
  BY <1>1, SetReadout DEF Widgets
<1>5. AreItems(x.meters, MaxMeterRows) /\ ReadRows(x.meters, MeterRows(c.lang, active, at))
  BY <1>1, MenuConstants, ApplyRows DEF Widgets
<1>6. x.icon = icon /\ x.lastIcon = icon
  BY <1>1 DEF Widgets
<1>7. DOMAIN x.entries = 1 .. 2 /\ \A p \in 1 .. 2 :
          x.entries[p] = applyProvider(m.entries[p], c, all[p], at)
  BY <1>1 DEF AreSubs
<1>8. ASSUME NEW p \in 1 .. 2
      PROVE  /\ IsItem(x.entries[p].prefs) /\ AreItems(x.entries[p].meters, MaxMeterRows)
             /\ AreItems(x.entries[p].accounts, 3)
             /\ EntryShows(x.entries[p], c, all[p], at)
  <2>1. all[p].vendor \in {"anthropic", "openai"}
    <3>1. all[p].vendor = Vendors[p]
      BY DEF AreSubs, IsSub
    <3>2. p = 1 \/ p = 2
      OBVIOUS
    <3>3. QED
      BY <3>1, <3>2, TwoVendors
  <2>2. /\ IsItem(m.entries[p].prefs) /\ AreItems(m.entries[p].meters, MaxMeterRows)
        /\ AreItems(m.entries[p].accounts, 3)
    BY DEF Widgets
  <2>3. QED
    BY <1>7, <2>1, <2>2, ApplyProvider
<1>9. x.providersMenu
  <2>1. x.entries[1].row.shown = TRUE
    BY <1>8 DEF EntryShows
  <2>2. 1 \in DOMAIN all
    BY DEF AreSubs
  <2>3. QED
    BY <1>1, <2>1, <2>2
<1> HIDE DEF icon, entries
<1>10. Widgets(x)
  BY <1>1, <1>2, <1>3, <1>4, <1>5, <1>6, <1>7, <1>8 DEF Widgets
<1>11. Shows(x, c, all, at)
  BY <1>1, <1>2, <1>3, <1>4, <1>5, <1>6, <1>8, <1>9 DEF Shows, icon
<1>12. QED
  BY <1>1, <1>10, <1>11

Commands(c) ==
    [i \in 1 .. 4 |-> Text(c.lang,
        <<"MenuProviders", "MenuSettings", "MenuRefresh", "MenuQuit">>[i], <<>>)]
Intervals(c) == [i \in DOMAIN Presets |-> IntervalLabel(c.lang, Presets[i])]

\* A change of language alters captions of its own and nothing else.
LEMMA RetitleTitles ==
    ASSUME NEW m, Widgets(m), NEW c, NEW x, x = retitle(m, c)
    PROVE  Widgets(x) /\ Titled(x, c)
<1>1. /\ DOMAIN x = DOMAIN m /\ x.settings = [i \in 1 .. 5 |-> MenuRowTitle(SettingsRows(c)[i])]
      /\ x.commands = Commands(c) /\ x.intervals = Intervals(c)
      /\ x.header = m.header /\ x.provider = m.provider /\ x.prefs = m.prefs
      /\ x.meters = m.meters /\ x.entries = m.entries /\ x.icon = m.icon
      /\ x.lastIcon = m.lastIcon
  <2>1. DOMAIN m = {"header", "provider", "prefs", "meters", "status", "providersMenu",
                    "entries", "commands", "settings", "intervals", "lastIcon", "icon", "tooltip"}
    BY DEF Widgets
  <2>2. QED
    BY <2>1 DEF retitle, Commands, Intervals
<1>2. newMenuView(c).commands = Commands(c) /\ newMenuView(c).intervals = Intervals(c)
  BY DEF newMenuView, retitle, Commands, Intervals
<1>3. QED
  BY <1>1, <1>2 DEF Widgets, Titled

\* The loop's own state: what it drew last, and that this is what the widgets show.
Displays ==
    /\ Widgets(menu)
    /\ AreSubs(drawn.subs) /\ drawn.at \in Int
    /\ Shows(menu, cfg, drawn.subs, drawn.at)
    /\ Titled(menu, cfg)
    /\ ~notice => menu.status = StatusText(cfg.lang, drawn.subs[1], drawn.at)

LEMMA NewMenuWidgets ==
    ASSUME NEW c
    PROVE  Widgets(newMenuView(c)) /\ Titled(newMenuView(c), c)
<1> DEFINE m == [header |-> Item, provider |-> Item, prefs |-> Item,
                 meters |-> Readouts(MaxMeterRows), status |-> <<>>, providersMenu |-> TRUE,
                 entries |-> [p \in DOMAIN Vendors |-> newProviderEntry],
                 commands |-> <<>>, settings |-> <<>>, intervals |-> <<>>,
                 lastIcon |-> Nil, icon |-> Nil, tooltip |-> <<>>]
<1>1. IsItem(Item)
  BY DEF Item, IsItem
<1>2. ASSUME NEW n \in Nat PROVE AreItems(Readouts(n), n)
  BY <1>1 DEF Readouts, AreItems
<1>3. /\ IsItem(newProviderEntry.prefs) /\ AreItems(newProviderEntry.meters, MaxMeterRows)
      /\ AreItems(newProviderEntry.accounts, 3)
  <2>1. /\ newProviderEntry.prefs = Item /\ newProviderEntry.meters = Readouts(MaxMeterRows)
        /\ newProviderEntry.accounts = Readouts(3)
    BY DEF newProviderEntry
  <2>2. QED
    BY <1>1, <1>2, <2>1, MenuConstants
<1>4. /\ DOMAIN m = {"header", "provider", "prefs", "meters", "status", "providersMenu",
                     "entries", "commands", "settings", "intervals", "lastIcon", "icon", "tooltip"}
      /\ m.header = Item /\ m.provider = Item /\ m.prefs = Item
      /\ m.meters = Readouts(MaxMeterRows) /\ m.icon = m.lastIcon
      /\ DOMAIN m.entries = 1 .. 2 /\ \A p \in 1 .. 2 : m.entries[p] = newProviderEntry
  BY TwoVendors
<1>5. newMenuView(c) = retitle(m, c)
  BY DEF newMenuView
<1> HIDE DEF m
<1>6. Widgets(m)
  BY <1>1, <1>2, <1>3, <1>4, MenuConstants DEF Widgets
<1>7. QED
  BY <1>5, <1>6, RetitleTitles

LEMMA DisplaysInit == Init => Displays
<1> SUFFICES ASSUME Init PROVE Displays
  OBVIOUS
<1>1. Readings
  BY ReadingsInit
<1>2. AreSubs(subs)
  BY <1>1 DEF Readings, AreSubs
<1>3. /\ menu = apply(newMenuView(cfg), cfg, subs, now) /\ drawn = [subs |-> subs, at |-> now]
      /\ now = 0
  BY DEF Init
<1>4. Widgets(newMenuView(cfg)) /\ Titled(newMenuView(cfg), cfg)
  BY NewMenuWidgets
<1>5. /\ Widgets(menu) /\ Shows(menu, cfg, subs, now) /\ SameTitles(menu, newMenuView(cfg))
      /\ menu.status = StatusText(cfg.lang, subs[1], now)
  <2> DEFINE m == newMenuView(cfg)
  <2>1. Widgets(m) /\ menu = apply(m, cfg, subs, now)
    BY <1>3, <1>4
  <2> HIDE DEF m
  <2>2. PICK x : x = menu
    OBVIOUS
  <2>3. /\ Widgets(x) /\ Shows(x, cfg, subs, now) /\ SameTitles(x, m)
        /\ x.status = StatusText(cfg.lang, subs[1], now)
    BY <1>2, <2>1, <2>2, ApplyShows
  <2>4. QED
    BY <2>2, <2>3 DEF m
<1>6. drawn.subs = subs /\ drawn.at = now
  BY <1>3
<1>7. QED
  BY <1>2, <1>3, <1>4, <1>5, <1>6 DEF Displays, Titled, SameTitles

LEMMA DisplaysStep == Readings /\ Displays /\ [Next]_vars => Displays'
<1> SUFFICES ASSUME Readings, Displays, [Next]_vars PROVE Displays'
  OBVIOUS
<1>1. AreSubs(subs) /\ now \in Int
  BY DEF Readings, AreSubs
<1>2. CASE UNCHANGED <<cfg, menu, drawn, notice>>
  BY <1>2 DEF Displays
<1>3. CASE Apply
  <2>1. /\ menu' = apply(menu, cfg, subs, now) /\ drawn' = [subs |-> subs, at |-> now]
        /\ cfg' = cfg /\ notice' = FALSE
    BY <1>3 DEF Apply
  <2>2. /\ Widgets(menu') /\ Shows(menu', cfg, subs, now) /\ SameTitles(menu', menu)
        /\ menu'.status = StatusText(cfg.lang, subs[1], now)
    BY <1>1, <2>1, ApplyShows DEF Displays
  <2>3. drawn'.subs = subs /\ drawn'.at = now
    BY <2>1
  <2>4. Titled(menu', cfg)
    BY <2>2 DEF Displays, Titled, SameTitles
  <2>5. QED
    BY <1>1, <2>1, <2>2, <2>3, <2>4 DEF Displays
<1>4. ASSUME NEW changed \in Settings, ChangeSettings(changed)
      PROVE  Displays'
  <2>1. /\ menu' = apply(retitle(menu, changed), changed, subs, now)
        /\ drawn' = [subs |-> subs, at |-> now] /\ cfg' = changed /\ notice' = FALSE
    BY <1>4 DEF ChangeSettings
  <2>2. Widgets(retitle(menu, changed)) /\ Titled(retitle(menu, changed), changed)
    BY RetitleTitles DEF Displays
  <2>3. /\ Widgets(menu') /\ Shows(menu', changed, subs, now)
        /\ SameTitles(menu', retitle(menu, changed))
        /\ menu'.status = StatusText(changed.lang, subs[1], now)
    BY <1>1, <2>1, <2>2, ApplyShows
  <2>4. drawn'.subs = subs /\ drawn'.at = now
    BY <2>1
  <2>5. Titled(menu', changed)
    BY <2>2, <2>3 DEF Titled, SameTitles
  <2>6. QED
    BY <1>1, <2>1, <2>3, <2>4, <2>5 DEF Displays
<1>5. ASSUME NEW key, Notify(key)
      PROVE  Displays'
  <2> DEFINE said == Text(cfg.lang, key, <<>>)
  <2>1. menu' = [menu EXCEPT !.status = said] /\ notice' = TRUE /\ cfg' = cfg /\ drawn' = drawn
    BY <1>5 DEF Notify
  <2> HIDE DEF said
  <2>2. /\ DOMAIN menu' = DOMAIN menu /\ SameTitles(menu', menu)
        /\ menu'.header = menu.header /\ menu'.provider = menu.provider
        /\ menu'.prefs = menu.prefs /\ menu'.meters = menu.meters
        /\ menu'.entries = menu.entries /\ menu'.providersMenu = menu.providersMenu
        /\ menu'.icon = menu.icon /\ menu'.lastIcon = menu.lastIcon
        /\ menu'.tooltip = menu.tooltip
    <3>1. DOMAIN menu = {"header", "provider", "prefs", "meters", "status", "providersMenu",
                         "entries", "commands", "settings", "intervals", "lastIcon", "icon",
                         "tooltip"}
      BY DEF Displays, Widgets
    <3>2. QED
      BY <2>1, <3>1 DEF SameTitles
  <2>3. Widgets(menu')
    BY <2>2 DEF Displays, Widgets
  <2>4. Shows(menu', cfg, drawn.subs, drawn.at)
    BY <2>2 DEF Displays, Shows
  <2>5. QED
    BY <2>1, <2>2, <2>3, <2>4 DEF Displays, Titled, SameTitles
<1>6. CASE \E p \in DOMAIN Vendors :
               \/ \E doc \in Usage[Vendors[p]], plan \in Plans : Answered(p, doc, plan)
               \/ \E f \in Failures : Refused(p, f.kind, f.header)
  BY <1>2, <1>6 DEF Answered, Refused, Record
<1>7. ASSUME NEW account, NEW preferences, DocumentsRead(account, preferences)
      PROVE  Displays'
  BY <1>2, <1>7 DEF DocumentsRead
<1>8. ASSUME NEW step, Tick(step)
      PROVE  Displays'
  BY <1>2, <1>8 DEF Tick
<1>9. CASE UNCHANGED vars
  BY <1>2, <1>9 DEF vars
<1>10. QED
  BY <1>3, <1>4, <1>5, <1>6, <1>7, <1>8, <1>9 DEF Next

LEMMA DisplaysAlways == Spec => [](Readings /\ Displays)
<1>1. Init => Readings /\ Displays
  BY ReadingsInit, DisplaysInit
<1>2. (Readings /\ Displays) /\ [Next]_vars => (Readings /\ Displays)'
  BY ReadingsStep, DisplaysStep
<1>3. QED
  BY <1>1, <1>2, PTL DEF Spec

-------------------------------------------------------------------------------
(* Texts *)

LEMMA RangeOne == ASSUME NEW x PROVE Range(<<x>>) = {x}
  BY DEF Range

LEMMA RangeEmpty == Range(<<>>) = {}
  BY DEF Range

LEMMA RangeTwo == ASSUME NEW x, NEW y PROVE Range(<<x, y>>) = {x, y}
<1>1. Range(<<x>> \o <<y>>) = {x} \cup {y}
  BY SeqOne, RangeOne, RangeConcat
<1>2. QED
  BY <1>1, SeqTwo

LEMMA Widths == MaxField \in Nat /\ MaxField >= 10 /\ MaxTooltip \in Nat /\ MaxTooltip >= 2
  BY PresenterConstants

LEMMA LenZero ==
    ASSUME NEW t, IsSeq(t)
    PROVE  t = <<>> <=> Len(t) = 0
  BY SeqEmpty

LEMMA TextFacts ==
    ASSUME NEW lang, NEW key, NEW args, AllSeqs(args), NEW t, t = Text(lang, key, args)
    PROVE  /\ IsSeq(t) /\ t # <<>> /\ Len(t) = 1 + Len(FlattenSeq(args))
           /\ t[1] = <<"text", lang, key>>
           /\ Range(t) = {<<"text", lang, key>>} \cup UNION {Range(args[i]) : i \in 1 .. Len(args)}
<1> DEFINE head == << <<"text", lang, key>> >>
           rest == FlattenSeq(args)
<1>1. IsSeq(head) /\ Len(head) = 1 /\ head[1] = <<"text", lang, key>>
      /\ Range(head) = {<<"text", lang, key>>}
  BY SeqOne, RangeOne
<1>2. IsSeq(rest) /\ Len(rest) \in Nat
      /\ Range(rest) = UNION {Range(args[i]) : i \in 1 .. Len(args)}
  BY FlattenIsSeq, FlattenRange, SeqIsFunction
<1>3. t = head \o rest
  BY DEF Text
<1> HIDE DEF head, rest
<1>4. /\ IsSeq(t) /\ Len(t) = 1 + Len(rest)
      /\ \A i \in 1 .. 1 + Len(rest) : t[i] = IF i <= 1 THEN head[i] ELSE rest[i - 1]
      /\ Range(t) = Range(head) \cup Range(rest)
  BY <1>1, <1>2, <1>3, SeqConcat, RangeConcat
<1>5. t[1] = head[1] /\ t # <<>>
  BY <1>2, <1>4, SeqEmpty
<1>6. QED
  BY <1>1, <1>2, <1>4, <1>5 DEF rest

LEMMA TextNone ==
    ASSUME NEW lang, NEW key
    PROVE  Text(lang, key, <<>>) = << <<"text", lang, key>> >>
<1>1. IsSeq(<< <<"text", lang, key>> >>)
  BY SeqOne
<1>2. QED
  BY <1>1, FlattenEmpty, SeqUnit DEF Text

LEMMA TextOne ==
    ASSUME NEW lang, NEW key, NEW a, IsSeq(a), NEW t, t = Text(lang, key, <<a>>)
    PROVE  /\ IsSeq(t) /\ t # <<>> /\ Len(t) = 1 + Len(a) /\ t[1] = <<"text", lang, key>>
           /\ Range(t) = {<<"text", lang, key>>} \cup Range(a)
<1>1. AllSeqs(<<a>>) /\ FlattenSeq(<<a>>) = a
  BY SeqOne, FlattenOne DEF AllSeqs
<1>2. Len(<<a>>) = 1 /\ <<a>>[1] = a
  BY SeqOne
<1>3. UNION {Range(<<a>>[i]) : i \in 1 .. 1} = Range(a)
  BY <1>2
<1>4. /\ IsSeq(t) /\ t # <<>> /\ Len(t) = 1 + Len(FlattenSeq(<<a>>))
      /\ t[1] = <<"text", lang, key>>
      /\ Range(t) = {<<"text", lang, key>>} \cup UNION {Range(<<a>>[i]) : i \in 1 .. Len(<<a>>)}
  BY <1>1, TextFacts
<1>5. QED
  BY <1>1, <1>2, <1>3, <1>4

LEMMA TextTwo ==
    ASSUME NEW lang, NEW key, NEW a, NEW b, IsSeq(a), IsSeq(b),
           NEW t, t = Text(lang, key, <<a, b>>)
    PROVE  /\ IsSeq(t) /\ t # <<>> /\ Len(t) = 1 + Len(a) + Len(b)
           /\ t[1] = <<"text", lang, key>>
           /\ Range(t) = {<<"text", lang, key>>} \cup Range(a) \cup Range(b)
<1>1. IsSeq(<<a, b>>) /\ Len(<<a, b>>) = 2 /\ <<a, b>>[1] = a /\ <<a, b>>[2] = b
  BY SeqTwo
<1>2. \A i \in 1 .. 2 : i = 1 \/ i = 2
  OBVIOUS
<1>3. AllSeqs(<<a, b>>)
  BY <1>1, <1>2 DEF AllSeqs
<1>4. FlattenSeq(<<a, b>>) = a \o b /\ Len(a \o b) = Len(a) + Len(b)
      /\ Len(a) \in Nat /\ Len(b) \in Nat
  BY FlattenTwo, SeqConcat, SeqIsFunction
<1>5. UNION {Range(<<a, b>>[i]) : i \in 1 .. 2} = Range(a) \cup Range(b)
  <2>1. 1 .. 2 = {1, 2}
    OBVIOUS
  <2>2. QED
    BY <1>1, <2>1
<1>6. /\ IsSeq(t) /\ t # <<>> /\ Len(t) = 1 + Len(FlattenSeq(<<a, b>>))
      /\ t[1] = <<"text", lang, key>>
      /\ Range(t) = {<<"text", lang, key>>}
                        \cup UNION {Range(<<a, b>>[i]) : i \in 1 .. Len(<<a, b>>)}
  BY <1>3, TextFacts
<1>7. Range(t) = {<<"text", lang, key>>} \cup (Range(a) \cup Range(b))
  BY <1>1, <1>5, <1>6
<1>8. Len(t) = 1 + Len(a) + Len(b)
  <2>1. Len(t) = 1 + Len(a \o b)
    BY <1>4, <1>6
  <2>2. Len(a \o b) = Len(a) + Len(b) /\ Len(a) \in Nat /\ Len(b) \in Nat
    BY <1>4
  <2>3. QED
    BY <2>1, <2>2
<1>9. QED
  BY <1>6, <1>7, <1>8

\* A field has the characters of its text, and three others at most.
LEMMA FieldRange ==
    ASSUME NEW field, IsSeq(field)
    PROVE  Range(sanitizeMenuField(field)) \subseteq Range(field) \cup {Marker, Space, Ellipsis}
<1> DEFINE ss == [i \in DOMAIN field |-> neutral(field[i])]
           whole == neutralized(field)
           cut == truncateRunes(whole, MaxField)
<1>1. DOMAIN field = 1 .. Len(field) /\ Range(field) = {field[i] : i \in 1 .. Len(field)}
  BY SeqIsFunction DEF Range
<1>2. \A c : IsSeq(neutral(c)) /\ Range(neutral(c)) \subseteq {c, Marker, Space}
  <2> SUFFICES ASSUME NEW c PROVE IsSeq(neutral(c)) /\ Range(neutral(c)) \subseteq {c, Marker, Space}
    OBVIOUS
  <2>1. \/ neutral(c) = <<Marker, Marker>>
        \/ neutral(c) = <<Space>>
        \/ neutral(c) = <<>>
        \/ neutral(c) = <<c>>
    BY DEF neutral
  <2>2. IsSeq(<<Marker, Marker>>) /\ Range(<<Marker, Marker>>) = {Marker, Marker}
    BY SeqTwo, RangeTwo
  <2>3. IsSeq(<<Space>>) /\ Range(<<Space>>) = {Space} /\ IsSeq(<<c>>) /\ Range(<<c>>) = {c}
    BY SeqOne, RangeOne
  <2>4. QED
    BY <2>1, <2>2, <2>3, SeqEmpty, RangeEmpty
<1>3. \A i \in 1 .. Len(field) : IsSeq(ss[i]) /\ Range(ss[i]) \subseteq {field[i], Marker, Space}
  BY <1>1, <1>2
<1>4. whole = FlattenSeq(ss)
  BY DEF neutralized
<1>5. ss = [i \in DOMAIN field |-> ss[i]]
  OBVIOUS
<1> HIDE DEF ss
<1>6. AllSeqs(ss) /\ Len(ss) = Len(field)
  BY <1>3, <1>5, SeqMapped DEF AllSeqs
<1>7. IsSeq(whole) /\ Range(whole) = UNION {Range(ss[i]) : i \in 1 .. Len(field)}
  BY <1>4, <1>6, FlattenIsSeq, FlattenRange
<1>8. Range(whole) \subseteq Range(field) \cup {Marker, Space}
  <2>1. ASSUME NEW c \in Range(whole) PROVE c \in Range(field) \cup {Marker, Space}
    <3>1. PICK i \in 1 .. Len(field) : c \in Range(ss[i])
      BY <1>7, <2>1
    <3>2. c \in {field[i], Marker, Space}
      BY <1>3, <3>1
    <3>3. field[i] \in Range(field)
      BY RangeElement
    <3>4. QED
      BY <3>2, <3>3
  <2>2. QED
    BY <2>1
<1> HIDE DEF whole
<1>9. MaxField \in Nat \ {0}
  BY PresenterConstants
<1>10. /\ IsSeq(cut)
       /\ \A i \in 1 .. Len(cut) : (i <= Len(whole) /\ cut[i] = whole[i]) \/ cut[i] = Ellipsis
  BY <1>7, <1>9, Truncated
<1>11. Len(whole) \in Nat /\ Len(cut) \in Nat
  BY <1>7, <1>10, SeqIsFunction
<1> HIDE DEF cut
<1>12. \A i \in 1 .. Len(cut) : cut[i] \in Range(whole) \cup {Ellipsis}
  BY <1>7, <1>10, <1>11, RangeElement
<1>13. Range(cut) \subseteq Range(whole) \cup {Ellipsis}
  BY <1>10, <1>12, RangeElement
<1>14. QED
  BY <1>8, <1>13 DEF sanitizeMenuField, cut, whole

\* What no document says: a cell of a gauge, and a message of the catalogue.
Unsaid(c) == c = Cell(TRUE) \/ \E lang : c = <<"text", lang, "MeterResetSuffix">>

LEMMA SaidOtherwise ==
    /\ \A x : ~Unsaid(Letter(x))
    /\ ~Unsaid(Marker) /\ ~Unsaid(Space) /\ ~Unsaid(Ellipsis) /\ ~Unsaid(Column)
    /\ \A x : ~Unsaid(<<"percent", x>>) /\ ~Unsaid(<<"amount", x>>) /\ ~Unsaid(<<"number", x>>)
    /\ \A x, y : ~Unsaid(<<"label", x, y>>)
    /\ \A x, key : key # "MeterResetSuffix" => ~Unsaid(<<"text", x, key>>)
  BY DEF Unsaid, Letter, Marker, Space, Ellipsis, Column, Cell

\* The figure of a meter is short and plain, and stands in a row as it is.
LEMMA FigureFacts ==
    ASSUME NEW lang, NEW m, IsMeter(m), NEW f, f = figure(lang, m)
    PROVE  /\ IsSeq(f) /\ Len(f) \in 1 .. 3 /\ f # <<>>
           /\ \A c \in Range(f) : ~Unsaid(c)
           /\ sanitizeMenuField(f) = f
<1>1. /\ IsSeq(f) /\ Len(f) \in 1 .. 3
      /\ \A c \in Range(f) : ~Unsaid(c) /\ c \notin {Marker, Control, Format}
  <2> DEFINE a == <<"amount", Figures(m.used)>>
             b == <<"amount", Figures(m.limit)>>
             t == <<"text", lang, "BalanceUsedOfLimit">>
  <2>1. CASE m.shape = "utilization"
    <3>1. f = << <<"percent", m.percent>> >>
      BY <2>1 DEF figure, percentText
    <3>2. /\ ~Unsaid(<<"percent", m.percent>>)
          /\ <<"percent", m.percent>> \notin {Marker, Control, Format}
      BY SaidOtherwise, OtherCharacters
    <3>3. IsSeq(f) /\ Len(f) = 1 /\ Range(f) = {<<"percent", m.percent>>}
      BY <3>1, SeqOne, RangeOne
    <3>4. QED
      BY <3>2, <3>3
  <2>2. CASE m.shape # "utilization" /\ m.limit = Nil
    <3>1. f = <<a>>
      BY <2>2 DEF figure, amount
    <3>2. ~Unsaid(a) /\ a \notin {Marker, Control, Format}
      BY SaidOtherwise, OtherCharacters
    <3> HIDE DEF a
    <3>3. IsSeq(f) /\ Len(f) = 1 /\ Range(f) = {a}
      BY <3>1, SeqOne, RangeOne
    <3>4. QED
      BY <3>2, <3>3
  <2>3. CASE m.shape # "utilization" /\ m.limit # Nil
    <3>1. f = Text(lang, "BalanceUsedOfLimit", <<<<a>>, <<b>>>>)
      BY <2>3 DEF figure, amount
    <3> HIDE DEF a, b
    <3> DEFINE u == <<a>>
               w == <<b>>
    <3>2. IsSeq(u) /\ IsSeq(w) /\ Len(u) = 1 /\ Len(w) = 1 /\ Range(u) = {a} /\ Range(w) = {b}
      BY SeqOne, RangeOne
    <3>3. f = Text(lang, "BalanceUsedOfLimit", <<u, w>>)
      BY <3>1
    <3> HIDE DEF u, w
    <3> DEFINE key == "BalanceUsedOfLimit"
    <3>4. t = <<"text", lang, key>> /\ f = Text(lang, key, <<u, w>>) /\ IsSeq(u) /\ IsSeq(w)
      BY <3>2, <3>3
    <3> HIDE DEF key, t
    <3>5. IsSeq(f) /\ Len(f) = 1 + Len(u) + Len(w) /\ Range(f) = {t} \cup Range(u) \cup Range(w)
      BY <3>4, TextTwo
    <3>6. IsSeq(f) /\ Len(f) = 3 /\ Range(f) = {t, a, b}
      BY <3>2, <3>5
    <3>7. /\ ~Unsaid(a) /\ ~Unsaid(b) /\ ~Unsaid(t)
          /\ a \notin {Marker, Control, Format} /\ b \notin {Marker, Control, Format}
          /\ t \notin {Marker, Control, Format}
      BY SaidOtherwise, OtherCharacters DEF a, b, t
    <3>8. QED
      BY <3>6, <3>7
  <2>4. QED
    BY <2>1, <2>2, <2>3
<1>2. f # <<>>
  BY <1>1, SeqEmpty
<1>3. \A c \in Range(f) : c \notin {Marker, Control, Format}
  BY <1>1
<1>4. Len(f) <= MaxField
  <2>1. Len(f) \in 1 .. 3
    BY <1>1
  <2>2. \A n \in 1 .. 3 : n <= MaxField
    BY Widths
  <2>3. QED
    BY <2>1, <2>2
<1>5. sanitizeMenuField(f) = f
  BY <1>1, <1>3, <1>4, PlainField
<1>6. QED
  BY <1>1, <1>2, <1>5

LEMMA LabelFacts ==
    ASSUME NEW lang, NEW m, IsMeter(m), NEW t, t = MeterLabel(lang, m)
    PROVE  IsSeq(t) /\ \A c \in Range(t) : ~Unsaid(c)
<1>1. CASE m.id \in Translated
  <2>1. t = << <<"label", lang, m.id>> >>
    BY <1>1 DEF MeterLabel
  <2>2. QED
    BY <2>1, SeqOne, RangeOne, SaidOtherwise
<1>2. CASE m.id \notin Translated
  <2>1. t = m.name /\ IsWord(t)
    BY <1>2 DEF MeterLabel, IsMeter
  <2>2. \A c \in Range(t) : \E x : c = Letter(x)
    BY <2>1, RangeElement DEF IsWord
  <2>3. QED
    BY <2>1, <2>2, SaidOtherwise DEF IsWord
<1>3. QED
  BY <1>1, <1>2

\* The gauge of a meter stands in a row as it is.
LEMMA BarFacts ==
    ASSUME NEW m, NEW bar, bar = meterBar(m)
    PROVE  /\ IsSeq(bar) /\ sanitizeMenuField(bar) = bar
           /\ \A lang : \A c \in Range(bar) : c # <<"text", lang, "MeterResetSuffix">>
           /\ bar # <<>> => /\ Len(bar) = 10
                            /\ \A i \in 1 .. 10 : bar[i] = Cell(TRUE) <=> i <= progressBar(m.percent)
<1>1. CASE m.shape = "balance" /\ m.limit = Nil
  <2>1. bar = <<>>
    BY <1>1 DEF meterBar
  <2>2. QED
    BY <2>1, EmptyField, SeqEmpty, RangeEmpty
<1>2. CASE ~(m.shape = "balance" /\ m.limit = Nil)
  <2>1. bar = [i \in 1 .. 10 |-> Cell(i <= progressBar(m.percent))]
    BY <1>2 DEF meterBar
  <2>2. bar = [i \in 1 .. 10 |-> bar[i]]
    BY <2>1
  <2>3. IsSeq(bar) /\ Len(bar) = 10
    BY <2>2, FunctionIsSeq
  <2>4. \A i \in 1 .. 10 : bar[i] = Cell(i <= progressBar(m.percent))
    BY <2>1
  <2>5. \A x : Cell(x) \notin {Marker, Control, Format}
    BY OtherCharacters DEF Cell
  <2>6. \A x, lang : Cell(x) # <<"text", lang, "MeterResetSuffix">>
    BY DEF Cell
  <2>7. ASSUME NEW c \in Range(bar)
        PROVE  c \notin {Marker, Control, Format} /\ \A lang : c # <<"text", lang, "MeterResetSuffix">>
    <3>1. \E i \in 1 .. Len(bar) : bar[i] = c
      BY <2>3, <2>7, RangeElement
    <3>2. PICK i \in 1 .. 10 : bar[i] = c
      BY <2>3, <3>1
    <3>3. c = Cell(i <= progressBar(m.percent))
      BY <2>4, <3>2
    <3>4. QED
      BY <2>5, <2>6, <3>3
  <2>8. sanitizeMenuField(bar) = bar
    BY <2>3, <2>7, PlainField, Widths
  <2>9. ASSUME NEW k \in 1 .. 10
        PROVE  bar[k] = Cell(TRUE) <=> k <= progressBar(m.percent)
    <3> DEFINE n == progressBar(m.percent)
    <3>1. Cell(FALSE) # Cell(TRUE)
      BY DEF Cell
    <3>2. bar[k] = Cell(k <= n)
      BY <2>4
    <3> HIDE DEF n
    <3>3. CASE k <= n
      <4>1. (k <= n) = TRUE
        BY <3>3
      <4>2. bar[k] = Cell(TRUE)
        BY <3>2, <4>1
      <4>3. QED
        BY <3>3, <4>2 DEF n
    <3>4. CASE ~(k <= n)
      <4>1. (k <= n) = FALSE
        BY <3>4
      <4>2. bar[k] = Cell(FALSE)
        BY <3>2, <4>1
      <4>3. QED
        BY <3>1, <3>4, <4>2 DEF n
    <3>5. QED
      BY <3>3, <3>4
  <2>10. QED
    BY <2>3, <2>7, <2>8, <2>9
<1>3. QED
  BY <1>1, <1>2

LEMMA CountdownFacts ==
    ASSUME NEW lang, NEW d \in Int, NEW t, t = countdown(lang, d)
    PROVE  /\ IsSeq(t) /\ t # <<>> /\ \A c \in Range(t) : ~Unsaid(c)
           /\ \A c \in Range(t) : c \notin {Marker, Control, Format}
<1> DEFINE Good(c) == ~Unsaid(c) /\ c \notin {Marker, Control, Format}
           Plain(x) == IsSeq(x) /\ x # <<>> /\ \A c \in Range(x) : Good(c)
           number(n) == << <<"number", n>> >>
<1>1. \A key : key # "MeterResetSuffix" => Good(<<"text", lang, key>>)
  BY SaidOtherwise, OtherCharacters
<1>2. \A n : Good(<<"number", n>>)
  BY SaidOtherwise, OtherCharacters
<1> HIDE DEF Good
<1>3. \A n : IsSeq(number(n)) /\ \A c \in Range(number(n)) : Good(c)
  BY <1>2, SeqOne, RangeOne
<1>4. ASSUME NEW key, key # "MeterResetSuffix" PROVE Plain(Text(lang, key, <<>>))
  BY <1>1, <1>4, TextNone, SeqOne, RangeOne
<1>5. ASSUME NEW key, key # "MeterResetSuffix", NEW n PROVE Plain(Text(lang, key, <<number(n)>>))
  <2> HIDE DEF number
  <2> DEFINE a == number(n)
  <2>1. PICK x : x = Text(lang, key, <<a>>)
    OBVIOUS
  <2>2. IsSeq(a) /\ \A c \in Range(a) : Good(c)
    BY <1>3
  <2> HIDE DEF a
  <2>3. IsSeq(x) /\ x # <<>> /\ Range(x) = {<<"text", lang, key>>} \cup Range(a)
    BY <2>1, <2>2, TextOne
  <2>4. Good(<<"text", lang, key>>)
    BY <1>1, <1>5
  <2>5. Plain(x)
    BY <2>2, <2>3, <2>4
  <2>6. QED
    BY <2>1, <2>5 DEF a
<1>6. ASSUME NEW key, key # "MeterResetSuffix", NEW n, NEW m
      PROVE  Plain(Text(lang, key, <<number(n), number(m)>>))
  <2> HIDE DEF number
  <2>1. PICK x : x = Text(lang, key, <<number(n), number(m)>>)
    OBVIOUS
  <2>2. /\ IsSeq(x) /\ x # <<>>
        /\ Range(x) = {<<"text", lang, key>>} \cup Range(number(n)) \cup Range(number(m))
    BY <1>3, <2>1, TextTwo
  <2>3. /\ Good(<<"text", lang, key>>) /\ \A c \in Range(number(n)) : Good(c)
        /\ \A c \in Range(number(m)) : Good(c)
    BY <1>1, <1>3, <1>6
  <2>4. QED
    BY <2>1, <2>2, <2>3
<1> HIDE DEF Plain
<1>7. /\ Minute \in Nat /\ Hour \in Nat /\ Day \in Nat
  BY QuotaConstants
<1>8. \/ t = Text(lang, "CountdownNow", <<>>)
      \/ t = Text(lang, "CountdownUnderMinute", <<>>)
      \/ t = Text(lang, "CountdownMinutes", <<number(d \div Minute)>>)
      \/ t = Text(lang, "CountdownHours", <<number(d \div Hour), number((d % Hour) \div Minute)>>)
      \/ t = Text(lang, "CountdownDays", <<number(d \div Day), number((d % Day) \div Hour)>>)
  <2> DEFINE a == Text(lang, "CountdownNow", <<>>)
             b == Text(lang, "CountdownUnderMinute", <<>>)
             e == Text(lang, "CountdownMinutes", <<number(d \div Minute)>>)
             f == Text(lang, "CountdownHours", <<number(d \div Hour), number((d % Hour) \div Minute)>>)
             g == Text(lang, "CountdownDays", <<number(d \div Day), number((d % Day) \div Hour)>>)
  <2>1. t = CASE d <= 0 -> a [] d > 0 /\ d < Minute -> b [] d >= Minute /\ d < Hour -> e
              [] d >= Hour /\ d < Day -> f [] d >= Day -> g
    BY DEF countdown
  <2> HIDE DEF a, b, e, f, g
  <2>2. d <= 0 \/ (d > 0 /\ d < Minute) \/ (d >= Minute /\ d < Hour)
            \/ (d >= Hour /\ d < Day) \/ d >= Day
    BY <1>7
  <2>3. t = a \/ t = b \/ t = e \/ t = f \/ t = g
    BY <2>1, <2>2
  <2>4. QED
    BY <2>3 DEF a, b, e, f, g
<1>9. Plain(t)
  BY <1>4, <1>5, <1>6, <1>8
<1>10. QED
  BY <1>9 DEF Plain, Good

LEMMA NeutralConcat ==
    ASSUME NEW s, NEW t, IsSeq(s), IsSeq(t)
    PROVE  neutralized(s \o t) = neutralized(s) \o neutralized(t)
<1> DEFINE ss == [i \in DOMAIN s |-> neutral(s[i])]
           tt == [i \in DOMAIN t |-> neutral(t[i])]
           st == [i \in DOMAIN (s \o t) |-> neutral((s \o t)[i])]
           m == Len(s)
           n == Len(t)
<1>1. /\ m \in Nat /\ n \in Nat /\ IsSeq(s \o t) /\ Len(s \o t) = m + n
      /\ DOMAIN s = 1 .. m /\ DOMAIN t = 1 .. n /\ DOMAIN (s \o t) = 1 .. m + n
      /\ \A i \in 1 .. m + n : (s \o t)[i] = IF i <= m THEN s[i] ELSE t[i - m]
  <2>1. /\ IsSeq(s \o t) /\ Len(s \o t) = m + n
        /\ \A i \in 1 .. m + n : (s \o t)[i] = IF i <= m THEN s[i] ELSE t[i - m]
    BY SeqConcat
  <2>2. m \in Nat /\ n \in Nat /\ DOMAIN s = 1 .. m /\ DOMAIN t = 1 .. n
    BY SeqIsFunction
  <2>3. DOMAIN (s \o t) = 1 .. Len(s \o t)
    BY <2>1, SeqIsFunction
  <2>4. QED
    BY <2>1, <2>2, <2>3
<1>2. /\ \A i \in 1 .. m : ss[i] = neutral(s[i])
      /\ \A i \in 1 .. n : tt[i] = neutral(t[i])
      /\ \A i \in 1 .. m + n : st[i] = neutral((s \o t)[i])
  BY <1>1
<1>3. \A c : IsSeq(neutral(c))
  <2>1. \A c, d : IsSeq(<<c, d>>) /\ IsSeq(<<c>>)
    BY SeqTwo, SeqOne
  <2>2. QED
    BY <2>1, SeqEmpty DEF neutral
<1>4. /\ neutralized(s) = FlattenSeq(ss) /\ neutralized(t) = FlattenSeq(tt)
      /\ neutralized(s \o t) = FlattenSeq(st)
  BY DEF neutralized
<1>5. /\ ss = [i \in DOMAIN s |-> ss[i]] /\ tt = [i \in DOMAIN t |-> tt[i]]
      /\ st = [i \in DOMAIN (s \o t) |-> st[i]]
  OBVIOUS
<1> HIDE DEF ss, tt, st
<1>6. IsSeq(ss) /\ Len(ss) = m /\ IsSeq(tt) /\ Len(tt) = n /\ IsSeq(st) /\ Len(st) = m + n
  BY <1>1, <1>5, SeqMapped
<1> HIDE DEF m, n
<1>7. AllSeqs(ss) /\ AllSeqs(tt)
  BY <1>2, <1>3, <1>6 DEF AllSeqs
<1>8. st = ss \o tt
  <2>1. /\ IsSeq(ss \o tt) /\ Len(ss \o tt) = m + n
        /\ \A i \in 1 .. m + n : (ss \o tt)[i] = IF i <= m THEN ss[i] ELSE tt[i - m]
    BY <1>6, SeqConcat
  <2>2. ASSUME NEW i \in 1 .. m + n PROVE st[i] = (ss \o tt)[i]
    <3>1. CASE i <= m
      <4>1. i \in 1 .. m
        BY <1>1, <3>1
      <4>2. QED
        BY <1>1, <1>2, <2>1, <3>1, <4>1
    <3>2. CASE ~(i <= m)
      <4>1. PICK j \in 1 .. n : j = i - m
        BY <1>1, <3>2
      <4>2. (s \o t)[i] = t[j] /\ (ss \o tt)[i] = tt[j]
        BY <1>1, <2>1, <3>2, <4>1
      <4>3. QED
        BY <1>2, <4>2
    <3>3. QED
      BY <3>1, <3>2
  <2>3. QED
    BY <1>6, <2>1, <2>2, SeqSame
<1>9. QED
  BY <1>4, <1>7, <1>8, FlattenConcat

-------------------------------------------------------------------------------
(* The row of a meter *)

ResetTail(lang, meters, i, at) ==
    Text(lang, "MeterResetSuffix", <<countdown(lang, Sub(meters[i].reset, at))>>)

LEMMA ResetTailFacts ==
    ASSUME NEW lang, NEW meters, AreMeters(meters), NEW i \in 1 .. Len(meters), NEW at \in Int,
           statesReset(meters, i), NEW x, x = ResetTail(lang, meters, i, at)
    PROVE  /\ IsSeq(x) /\ x # <<>> /\ x[1] = <<"text", lang, "MeterResetSuffix">>
           /\ \A c \in Range(x) : c # Cell(TRUE) /\ c \notin {Marker, Control, Format}
<1> DEFINE left == countdown(lang, Sub(meters[i].reset, at))
           key == "MeterResetSuffix"
<1>1. meters[i].reset \in Int
  <2>1. IsMeter(meters[i]) /\ meters[i].reset # Nil
    BY DEF AreMeters, statesReset
  <2>2. QED
    BY <2>1, OptionalMember DEF IsMeter
<1>2. Sub(meters[i].reset, at) \in Int
  BY <1>1, QuotaConstants DEF Sub
<1>3. /\ IsSeq(left) /\ \A c \in Range(left) : ~Unsaid(c) /\ c \notin {Marker, Control, Format}
  BY <1>2, CountdownFacts
<1>4. x = Text(lang, key, <<left>>)
  BY DEF ResetTail
<1>5. <<"text", lang, key>> # Cell(TRUE) /\ <<"text", lang, key>> \notin {Marker, Control, Format}
  BY OtherCharacters DEF Cell
<1> HIDE DEF left, key
<1>6. IsSeq(x) /\ x # <<>> /\ x[1] = <<"text", lang, key>>
      /\ Range(x) = {<<"text", lang, key>>} \cup Range(left)
  BY <1>3, <1>4, TextOne
<1>7. \A c : c = Cell(TRUE) => Unsaid(c)
  BY DEF Unsaid
<1>8. QED
  BY <1>3, <1>5, <1>6, <1>7 DEF key

\* The label of a row: what it can contain, and that it says when its meter resets
\* where it should and the name leaves room for that.
LEMMA RowLabelFacts ==
    ASSUME NEW lang, NEW meters, AreMeters(meters), NEW i \in 1 .. Len(meters), NEW at \in Int,
           NEW t, t = sanitizeMenuField(meterTitle(lang, meters, i, at))
    PROVE  /\ IsSeq(t)
           /\ \A c \in Range(t) : c # Cell(TRUE)
           /\ ~statesReset(meters, i) => \A c \in Range(t) : ~Unsaid(c)
           /\ statesReset(meters, i)
                 /\ Len(neutralized(MeterLabel(lang, meters[i]))) + 5 <= MaxField
                     => <<"text", lang, "MeterResetSuffix">> \in Range(t)
<1> DEFINE whole == meterTitle(lang, meters, i, at)
           name == MeterLabel(lang, meters[i])
           x == ResetTail(lang, meters, i, at)
           suffix == <<"text", lang, "MeterResetSuffix">>
<1>1. IsSeq(name) /\ \A c \in Range(name) : ~Unsaid(c)
  <2>1. IsMeter(meters[i])
    BY DEF AreMeters
  <2>2. QED
    BY <2>1, LabelFacts
<1>2. ~Unsaid(Marker) /\ ~Unsaid(Space) /\ ~Unsaid(Ellipsis) /\ \A c : c = Cell(TRUE) => Unsaid(c)
  BY SaidOtherwise DEF Unsaid
<1>3. CASE ~statesReset(meters, i)
  <2>1. t = sanitizeMenuField(name)
    BY <1>3 DEF meterTitle
  <2> HIDE DEF name
  <2>2. IsSeq(t) /\ Range(t) \subseteq Range(name) \cup {Marker, Space, Ellipsis}
    BY <1>1, <2>1, FieldIsSeq, FieldRange
  <2>3. \A c \in Range(t) : ~Unsaid(c)
    BY <1>1, <1>2, <2>2
  <2>4. QED
    BY <1>2, <1>3, <2>2, <2>3
<1>4. CASE statesReset(meters, i)
  <2>1. whole = name \o <<Space>> \o x
    BY <1>4 DEF meterTitle, ResetTail
  <2>2. /\ IsSeq(x) /\ x # <<>> /\ x[1] = suffix
        /\ \A c \in Range(x) : c # Cell(TRUE) /\ c \notin {Marker, Control, Format}
    BY <1>4, ResetTailFacts
  <2>3. IsSeq(<<Space>>) /\ Len(<<Space>>) = 1 /\ Range(<<Space>>) = {Space}
    BY SeqOne, RangeOne
  <2> HIDE DEF name, x, whole, suffix
  <2>4. IsSeq(name \o <<Space>>) /\ IsSeq(whole)
        /\ Range(whole) = Range(name) \cup {Space} \cup Range(x)
    BY <1>1, <2>1, <2>2, <2>3, SeqConcat, RangeConcat
  <2>5. IsSeq(t) /\ Range(t) \subseteq Range(whole) \cup {Marker, Space, Ellipsis}
    BY <2>4, FieldIsSeq, FieldRange DEF whole
  <2>6. \A c \in Range(t) : c # Cell(TRUE)
    BY <1>1, <1>2, <2>2, <2>4, <2>5
  <2>7. ASSUME Len(neutralized(name)) + 5 <= MaxField
        PROVE  suffix \in Range(t)
    <3> DEFINE a == neutralized(name)
               b == a \o <<Space>>
               n == b \o x
               p == Len(a) + 2
    <3>1. neutralized(whole) = n
      <4>1. neutralized(name \o <<Space>>) = a \o neutralized(<<Space>>)
        BY <1>1, <2>3, NeutralConcat
      <4>2. neutralized(<<Space>>) = <<Space>>
        <5>1. Space \notin {Marker, Control, Format}
          BY DEF Space, Marker, Control, Format, Letter
        <5>2. QED
          BY <2>3, <5>1, NeutralPlain
      <4>3. neutralized(x) = x
        BY <2>2, NeutralPlain
      <4>4. neutralized(whole) = neutralized(name \o <<Space>>) \o neutralized(x)
        BY <2>1, <2>2, <2>4, NeutralConcat
      <4>5. QED
        BY <4>1, <4>2, <4>3, <4>4
    <3>2. IsSeq(a) /\ Len(a) \in Nat
      BY <1>1, NeutralIsSeq, SeqIsFunction
    <3> HIDE DEF a
    <3>3. IsSeq(b) /\ Len(b) = Len(a) + 1
      BY <2>3, <3>2, SeqConcat
    <3>4. Len(x) \in Nat /\ Len(x) >= 1
      BY <2>2, SeqIsFunction, SeqEmpty
    <3> HIDE DEF b
    <3>5. /\ IsSeq(n) /\ Len(n) = Len(b) + Len(x)
          /\ \A k \in 1 .. Len(b) + Len(x) : n[k] = IF k <= Len(b) THEN b[k] ELSE x[k - Len(b)]
      BY <2>2, <3>3, SeqConcat
    <3> HIDE DEF n
    <3>6. p \in 1 .. Len(n) /\ p - Len(b) = 1 /\ ~(p <= Len(b))
      BY <3>2, <3>3, <3>4, <3>5
    <3>7. n[p] = suffix
      BY <2>2, <3>5, <3>6
    <3>8. t = truncateRunes(n, MaxField)
      BY <3>1 DEF sanitizeMenuField, whole
    <3>9. MaxField \in Nat \ {0}
      BY Widths
    <3>10. /\ IsSeq(t) /\ Len(t) = IF Len(n) <= MaxField THEN Len(n) ELSE MaxField
           /\ \A k \in 1 .. Len(t) : \/ k <= Len(n) /\ t[k] = n[k]
                                     \/ Len(n) > MaxField /\ k = MaxField /\ t[k] = Ellipsis
      BY <3>5, <3>8, <3>9, Truncated
    <3>11. p < MaxField
      BY <2>7, <3>2, <3>9 DEF a
    <3> HIDE DEF p
    <3>12. Len(n) \in Nat
      BY <3>5, SeqIsFunction
    <3>13. p \in 1 .. Len(t) /\ p # MaxField
      BY <3>6, <3>9, <3>10, <3>11, <3>12
    <3>14. t[p] = n[p]
      BY <3>10, <3>13
    <3>15. QED
      BY <3>7, <3>10, <3>13, <3>14, RangeElement
  <2>8. QED
    BY <1>4, <2>5, <2>6, <2>7 DEF name, suffix
<1>5. QED
  BY <1>3, <1>4

\* A figure, and the gauge behind it where there is one.
LEMMA RightSide ==
    ASSUME NEW f, IsSeq(f), f # <<>>, NEW bar, IsSeq(bar),
           NEW right, right = IF bar = <<>> THEN f ELSE f \o (<<Space>> \o bar)
    PROVE  IsSeq(right) /\ right # <<>> /\ Joined(<<f, bar>>, <<Space>>) = right
<1> DEFINE separator == <<Space>>
<1>1. IsSeq(separator)
  BY SeqOne
<1>2. right = IF bar = <<>> THEN f ELSE f \o (separator \o bar)
  OBVIOUS
<1> HIDE DEF separator
<1>3. PICK t : t = Joined(<<f, bar>>, separator)
  OBVIOUS
<1>4. IsSeq(t)
  BY <1>1, <1>3, JoinedTwo
<1>5. bar = <<>> => t = f
  BY <1>1, <1>3, JoinedTwo
<1>6. bar # <<>> => t = f \o (separator \o bar)
  BY <1>1, <1>3, JoinedTwo
<1>7. t = right
  BY <1>2, <1>5, <1>6
<1>8. bar # <<>> => f \o (separator \o bar) # <<>>
  <2>1. IsSeq(separator \o bar) /\ Len(f) \in Nat /\ Len(f) # 0
    BY <1>1, SeqConcat, SeqEmpty, SeqIsFunction
  <2>2. Len(separator \o bar) \in Nat
    BY <2>1, SeqIsFunction
  <2>3. Len(f \o (separator \o bar)) = Len(f) + Len(separator \o bar)
    BY <2>1, SeqConcat
  <2>4. Len(f \o (separator \o bar)) # 0
    BY <2>1, <2>2, <2>3
  <2>5. QED
    BY <2>4, SeqEmpty
<1>9. t # <<>>
  BY <1>5, <1>6, <1>8
<1>10. QED
  BY <1>3, <1>4, <1>7, <1>9 DEF separator

RowLabel(lang, meters, i, at) == sanitizeMenuField(meterTitle(lang, meters, i, at))
RowLeft(lang, meters, i, at) == RowLabel(lang, meters, i, at) \o <<Column>>
RowRight(lang, m) ==
    IF meterBar(m) = <<>> THEN figure(lang, m) ELSE figure(lang, m) \o (<<Space>> \o meterBar(m))

\* The title of a row: its label, a column break, the figure and the gauge.
LEMMA RowTitleFacts ==
    ASSUME NEW lang, NEW sub, sub.snapshot # Nil, IsSnapshot(sub.snapshot), NEW at \in Int,
           NEW i \in 1 .. Len(sub.snapshot.meters)
    PROVE  LET meters == sub.snapshot.meters
               left == RowLeft(lang, meters, i, at)
               right == RowRight(lang, meters[i])
               title == MenuRowTitle(MeterRows(lang, sub, at)[i])
           IN  /\ IsSeq(left) /\ Len(left) = Len(RowLabel(lang, meters, i, at)) + 1
               /\ IsSeq(right) /\ right # <<>>
               /\ title = left \o right
               /\ title # <<>>
<1> DEFINE meters == sub.snapshot.meters
           label == RowLabel(lang, meters, i, at)
           f == figure(lang, meters[i])
           bar == meterBar(meters[i])
           left == RowLeft(lang, meters, i, at)
           right == RowRight(lang, meters[i])
           row == Row(meterTitle(lang, meters, i, at), f, bar)
<1>1. AreMeters(meters) /\ IsMeter(meters[i]) /\ DOMAIN meters = 1 .. Len(meters)
  BY SnapshotMeters DEF IsSnapshot
<1>2. MeterRows(lang, sub, at)[i] = row
  BY <1>1 DEF MeterRows
<1>3. IsSeq(f) /\ f # <<>> /\ sanitizeMenuField(f) = f
  BY <1>1, FigureFacts
<1>4. IsSeq(bar) /\ sanitizeMenuField(bar) = bar
  BY BarFacts
<1>5. row.label = meterTitle(lang, meters, i, at) /\ row.detail = f /\ row.bar = bar
  BY DEF Row
<1>6. IsSeq(right) /\ right # <<>> /\ Joined(<<f, bar>>, <<Space>>) = right
  <2>1. right = IF bar = <<>> THEN f ELSE f \o (<<Space>> \o bar)
    BY DEF RowRight
  <2> HIDE DEF f, bar, right
  <2>2. QED
    BY <1>3, <1>4, <2>1, RightSide
<1>7. MenuRowTitle(row) = left \o right
  <2>1. left = sanitizeMenuField(meterTitle(lang, meters, i, at)) \o <<Column>>
    BY DEF RowLeft, RowLabel
  <2> HIDE DEF row, f, bar, left, right
  <2>2. QED
    BY <1>3, <1>4, <1>5, <1>6, <2>1 DEF MenuRowTitle
<1>8. IsSeq(label)
  <2>1. label = sanitizeMenuField(meterTitle(lang, meters, i, at))
    BY DEF RowLabel
  <2> HIDE DEF label
  <2>2. QED
    BY <1>1, <2>1, RowLabelFacts
<1>9. IsSeq(left) /\ Len(left) = Len(label) + 1
  BY <1>8, SeqOne, SeqConcat DEF RowLeft
<1> HIDE DEF left, right, label
<1>10. left \o right # <<>>
  <2>1. Len(left \o right) = Len(left) + Len(right)
    BY <1>6, <1>9, SeqConcat
  <2>2. Len(label) \in Nat /\ Len(right) \in Nat
    BY <1>6, <1>8, SeqIsFunction
  <2>3. QED
    BY <1>9, <2>1, <2>2, SeqEmpty
<1>11. QED
  BY <1>2, <1>6, <1>7, <1>9, <1>10 DEF left, right, label

Gaugeless(t) == IsSeq(t) /\ \A c \in Range(t) : c # Cell(TRUE)
Gauge(bar, n) ==
    IsSeq(bar) /\ Len(bar) = 10 /\ \A i \in 1 .. 10 : bar[i] = Cell(TRUE) <=> i <= n
Filled(title) == Cardinality({k \in DOMAIN title : title[k] = Cell(TRUE)})

LEMMA GaugelessConcat ==
    ASSUME NEW s, NEW t, Gaugeless(s), Gaugeless(t)
    PROVE  Gaugeless(s \o t)
<1>1. IsSeq(s) /\ IsSeq(t)
  BY DEF Gaugeless
<1>2. IsSeq(s \o t) /\ Range(s \o t) = Range(s) \cup Range(t)
  BY <1>1, SeqConcat, RangeConcat
<1>3. QED
  BY <1>2 DEF Gaugeless

LEMMA FilledCells ==
    ASSUME NEW pre, Gaugeless(pre), NEW n \in 0 .. 10, NEW bar, Gauge(bar, n),
           NEW title, title = pre \o bar
    PROVE  Filled(title) = n
<1> USE DEF Gaugeless, Gauge
<1> DEFINE l == Len(pre)
<1>1. l \in Nat
  BY SeqIsFunction
<1>2. /\ IsSeq(title) /\ DOMAIN title = 1 .. l + 10
      /\ \A i \in 1 .. l + 10 : title[i] = IF i <= l THEN pre[i] ELSE bar[i - l]
  <2>1. /\ IsSeq(title) /\ Len(title) = Len(pre) + Len(bar)
        /\ \A i \in 1 .. Len(pre) + Len(bar) :
               title[i] = IF i <= Len(pre) THEN pre[i] ELSE bar[i - Len(pre)]
    BY SeqConcat
  <2>2. QED
    BY <2>1, SeqIsFunction
<1>3. \A i \in 1 .. l : pre[i] # Cell(TRUE)
  BY RangeElement
<1> HIDE DEF l
<1>4. ASSUME NEW k \in 1 .. l + 10
      PROVE  title[k] = Cell(TRUE) <=> k \in l + 1 .. l + n
  <2>1. CASE k <= l
    <3>1. k \in 1 .. l /\ title[k] = pre[k] /\ k \notin l + 1 .. l + n
      BY <1>1, <1>2, <2>1
    <3>2. QED
      BY <1>3, <3>1
  <2>2. CASE ~(k <= l)
    <3>1. PICK i \in 1 .. 10 : i = k - l
      BY <1>1, <2>2
    <3>2. title[k] = bar[i]
      BY <1>2, <2>2, <3>1
    <3>3. k \in l + 1 .. l + n <=> i <= n
      BY <1>1, <2>2, <3>1
    <3>4. QED
      BY <3>2, <3>3
  <2>3. QED
    BY <2>1, <2>2
<1>5. {k \in DOMAIN title : title[k] = Cell(TRUE)} = l + 1 .. l + n
  <2>1. l + 1 .. l + n \subseteq 1 .. l + 10
    BY <1>1
  <2>2. DOMAIN title = 1 .. l + 10
    BY <1>2
  <2>3. QED
    BY <1>4, <2>1, <2>2
<1>6. Cardinality(l + 1 .. l + n) = n
  <2>1. l + 1 \in Int /\ l + n \in Int
    BY <1>1
  <2>2. QED
    BY <1>1, <2>1, FS_Interval
<1>7. QED
  BY <1>5, <1>6 DEF Filled

\* The rows of a subscription are its meters', one for each.
LEMMA RowsOfMeters ==
    ASSUME NEW lang, NEW sub, sub.snapshot # Nil, IsSnapshot(sub.snapshot), NEW at
    PROVE  IsSeq(MeterRows(lang, sub, at)) /\ Len(MeterRows(lang, sub, at)) = Len(sub.snapshot.meters)
<1> DEFINE meters == sub.snapshot.meters
           rows == [i \in DOMAIN meters |->
                       Row(meterTitle(lang, meters, i, at), figure(lang, meters[i]),
                           meterBar(meters[i]))]
<1>1. MeterRows(lang, sub, at) = rows
  BY DEF MeterRows
<1>2. IsSeq(meters) /\ rows = [i \in DOMAIN meters |-> rows[i]]
  BY SnapshotMeters
<1> HIDE DEF rows
<1>3. QED
  BY <1>1, <1>2, SeqMapped

\* A meter's item shows the title of its row.
LEMMA ItemOfMeter ==
    ASSUME NEW lang, NEW sub, sub.snapshot # Nil, IsSnapshot(sub.snapshot), NEW at \in Int,
           NEW items, ReadRows(items, MeterRows(lang, sub, at)),
           NEW i \in 1 .. Len(sub.snapshot.meters), i \in DOMAIN items
    PROVE  items[i].shown = TRUE /\ items[i].title = MenuRowTitle(MeterRows(lang, sub, at)[i])
<1> DEFINE row == MeterRows(lang, sub, at)[i]
<1>1. MenuRowTitle(row) # <<>>
  BY RowTitleFacts
<1>2. ~(i > Len(MeterRows(lang, sub, at)))
  <2>1. /\ Len(MeterRows(lang, sub, at)) = Len(sub.snapshot.meters)
        /\ Len(sub.snapshot.meters) \in Nat
    BY RowsOfMeters, SnapshotMeters
  <2>2. QED
    BY <2>1
<1>3. Reads(items[i], row)
  BY <1>2 DEF ReadRows
<1> HIDE DEF row
<1>4. QED
  BY <1>1, <1>3 DEF Reads, row

-------------------------------------------------------------------------------
(* The icon *)

\* The icon is the primary meter's, grey or as severe as any of its judges has it.
LEMMA IconOfPrimary ==
    ASSUME NEW c \in Settings, NEW sub, sub.snapshot # Nil, NEW m, m # Nil, IsMeter(m),
           m = Primary(sub.snapshot.meters), NEW icon, icon = Render(IconState(c, sub))
    PROVE  /\ icon.rows = fillHeight(m.percent)
           /\ icon.rows # 0 => (icon.colour = "grey" <=> sub.lastError # Nil)
           /\ m.percent >= c.warn => icon.colour # "green"
           /\ m.percent >= c.crit => icon.colour # "amber"
           /\ m.level >= SeverityWarning => icon.colour # "green"
           /\ m.level = SeverityCritical => icon.colour # "amber"
<1> DEFINE level == SeverityFor(c, m.percent, m.level)
           stale == sub.lastError # Nil
           state == [percent |-> m.percent, level |-> level, stale |-> stale]
<1>1. c.warn \in Int /\ c.crit \in Int /\ c.warn < c.crit /\ m.percent \in Int /\ m.level \in 1 .. 3
  BY SettingsTyped DEF IsMeter, Severity
<1>2. IconState(c, sub) = state
  BY DEF IconState
<1>3. icon.rows = fillHeight(m.percent)
      /\ icon.colour = IF fillHeight(m.percent) = 0 THEN "none" ELSE fillColor(level, stale)
  BY <1>2 DEF Render
<1>4. /\ level \in 1 .. 3
      /\ m.percent >= c.warn => level # 1
      /\ m.percent >= c.crit => level = 3
      /\ m.level >= 2 => level # 1
      /\ m.level = 3 => level = 3
  BY <1>1 DEF SeverityFor, SeverityNormal, SeverityWarning, SeverityCritical
<1> HIDE DEF level
<1>5. fillColor(level, TRUE) = "grey"
  BY DEF fillColor
<1>6. /\ fillColor(level, FALSE) # "grey"
      /\ level # 1 => fillColor(level, FALSE) # "green"
      /\ level = 3 => fillColor(level, FALSE) # "amber"
  BY <1>4 DEF fillColor, SeverityNormal, SeverityWarning, SeverityCritical
<1>7. CASE sub.lastError # Nil
  <2>1. stale = TRUE
    BY <1>7
  <2>2. QED
    BY <1>3, <1>5, <1>7, <2>1
<1>8. CASE sub.lastError = Nil
  <2>1. stale = FALSE
    BY <1>8
  <2> HIDE DEF stale
  <2>2. icon.colour = IF fillHeight(m.percent) = 0 THEN "none" ELSE fillColor(level, FALSE)
    BY <1>3, <2>1
  <2>3. QED
    BY <1>3, <1>4, <1>6, <1>8, <2>2 DEF SeverityWarning, SeverityCritical
<1>9. QED
  BY <1>7, <1>8

InOrder(left, f, space, bar) == left \o (f \o (space \o bar))

LEMMA RowCells ==
    ASSUME NEW left, Gaugeless(left), NEW f, Gaugeless(f), NEW space, Gaugeless(space),
           NEW n \in 0 .. 10, NEW bar, Gauge(bar, n)
    PROVE  Filled(InOrder(left, f, space, bar)) = n
<1> DEFINE end == f \o space
           pre == left \o end
<1>1. IsSeq(left) /\ IsSeq(f) /\ IsSeq(space) /\ IsSeq(bar)
  BY DEF Gaugeless, Gauge
<1>2. Gaugeless(end)
  BY GaugelessConcat
<1>3. (f \o space) \o bar = f \o (space \o bar)
  BY <1>1, SeqAssociative
<1>4. InOrder(left, f, space, bar) = left \o (end \o bar)
  BY <1>3 DEF InOrder
<1> HIDE DEF end
<1>5. Gaugeless(pre)
  BY <1>2, GaugelessConcat
<1>6. IsSeq(end)
  BY <1>2 DEF Gaugeless
<1>7. (left \o end) \o bar = left \o (end \o bar)
  BY <1>1, <1>6, SeqAssociative
<1>8. InOrder(left, f, space, bar) = pre \o bar
  BY <1>4, <1>7
<1> HIDE DEF pre
<1>9. QED
  BY <1>5, <1>8, FilledCells

\* The gauge of a row has as many filled cells as the percentage asks for.
LEMMA CellsOfRow ==
    ASSUME NEW lang, NEW sub, sub.snapshot # Nil, IsSnapshot(sub.snapshot), NEW at \in Int,
           NEW i \in 1 .. Len(sub.snapshot.meters), meterBar(sub.snapshot.meters[i]) # <<>>
    PROVE  Filled(MenuRowTitle(MeterRows(lang, sub, at)[i]))
               = progressBar(sub.snapshot.meters[i].percent)
<1> DEFINE meters == sub.snapshot.meters
           title == MenuRowTitle(MeterRows(lang, sub, at)[i])
           m == meters[i]
           label == RowLabel(lang, meters, i, at)
           left == RowLeft(lang, meters, i, at)
           right == RowRight(lang, m)
           f == figure(lang, m)
           bar == meterBar(m)
           space == <<Space>>
           n == progressBar(m.percent)
<1>1. AreMeters(meters) /\ IsMeter(m)
  BY SnapshotMeters DEF IsSnapshot
<1>2. title = left \o right
  BY RowTitleFacts
<1>3. Gaugeless(f)
  <2>1. IsSeq(f) /\ \A c \in Range(f) : ~Unsaid(c)
    BY <1>1, FigureFacts
  <2> HIDE DEF f
  <2>2. QED
    BY <2>1 DEF Unsaid, Gaugeless
<1>4. Gauge(bar, n)
  BY BarFacts DEF Gauge
<1>5. n \in 0 .. 10
  BY <1>1, GaugesAgree DEF IsMeter
<1>6. Gaugeless(space)
  <2>1. IsSeq(space) /\ Range(space) = {Space}
    BY SeqOne, RangeOne
  <2>2. Space # Cell(TRUE)
    BY DEF Space, Letter, Cell
  <2> HIDE DEF space
  <2>3. QED
    BY <2>1, <2>2 DEF Gaugeless
<1>7. Gaugeless(left)
  <2> DEFINE column == <<Column>>
  <2>1. label = sanitizeMenuField(meterTitle(lang, meters, i, at))
    BY DEF RowLabel
  <2>2. left = label \o column
    BY DEF RowLeft
  <2>3. IsSeq(column) /\ Range(column) = {Column}
    BY SeqOne, RangeOne
  <2>4. Column # Cell(TRUE)
    BY DEF Column, Letter, Cell
  <2> HIDE DEF label, left, column
  <2>5. Gaugeless(label)
    BY <1>1, <2>1, RowLabelFacts DEF Gaugeless
  <2>6. Gaugeless(column)
    BY <2>3, <2>4 DEF Gaugeless
  <2>7. QED
    BY <2>2, <2>5, <2>6, GaugelessConcat
<1>8. right = f \o (space \o bar)
  BY DEF RowRight
<1> HIDE DEF title, label, left, right, f, bar, space, n
<1>9. title = InOrder(left, f, space, bar)
  BY <1>2, <1>8 DEF InOrder
<1>10. Filled(InOrder(left, f, space, bar)) = n
  BY <1>3, <1>4, <1>5, <1>6, <1>7, RowCells
<1>11. QED
  BY <1>9, <1>10 DEF n, title

\* Of two meters the one that outranks a third, or is not outranked by it.
LEMMA Ranked ==
    ASSUME NEW a, NEW b, NEW c, IsMeter(a), IsMeter(b), IsMeter(c)
    PROVE  /\ ~Outranks(a, a)
           /\ Outranks(a, b) => ~Outranks(b, a)
           /\ Outranks(a, b) /\ ~Outranks(c, b) => Outranks(a, c)
  BY DEF IsMeter, Meter, Outranks

\* Some meter is the first that nothing outranks, so Primary is one of the meters.
LEMMA PrimaryIsOne ==
    ASSUME NEW s, AreMeters(s), s # <<>>
    PROVE  \E i \in 1 .. Len(s) : Primary(s) = s[i]
<1> DEFINE Best(i, n) == /\ \A j \in 1 .. n : ~Outranks(s[j], s[i])
                         /\ \A j \in 1 .. i - 1 : Outranks(s[i], s[j])
           Q == {n \in Nat : n \in 1 .. Len(s) => \E i \in 1 .. n : Best(i, n)}
<1>1. /\ Len(s) \in Nat \ {0} /\ DOMAIN s = 1 .. Len(s)
      /\ \A i \in 1 .. Len(s) : IsMeter(s[i])
  BY SeqIsFunction, SeqEmpty DEF AreMeters
<1>2. 0 \in Q
  OBVIOUS
<1>3. ASSUME NEW n \in Nat, n \in Q PROVE n + 1 \in Q
  <2>1. PICK l \in Nat : l = n + 1
    OBVIOUS
  <2>2. SUFFICES ASSUME l \in 1 .. Len(s) PROVE \E i \in 1 .. l : Best(i, l)
    BY <2>1
  <2>3. CASE n = 0
    <3>1. Best(1, 1) /\ l = 1
      BY <1>1, <2>1, <2>2, <2>3, Ranked
    <3>2. QED
      BY <3>1
  <2>4. CASE n # 0
    <3>1. PICK i \in 1 .. n : Best(i, n)
      BY <1>1, <1>3, <2>1, <2>2, <2>4
    <3>2. \A j \in 1 .. l : j \in 1 .. n \/ j = l
      BY <2>1
    <3>3. 1 .. n \subseteq 1 .. Len(s) /\ n = l - 1
      BY <1>1, <2>1, <2>2
    <3>4. CASE Outranks(s[l], s[i])
      <4>1. \A j \in 1 .. n : Outranks(s[l], s[j])
        BY <1>1, <2>2, <3>1, <3>3, <3>4, Ranked
      <4>2. \A j \in 1 .. l : ~Outranks(s[j], s[l])
        BY <1>1, <2>2, <3>2, <3>3, <4>1, Ranked
      <4>3. Best(l, l) /\ l \in 1 .. l
        BY <2>2, <3>3, <4>1, <4>2
      <4>4. QED
        BY <4>3
    <3>5. CASE ~Outranks(s[l], s[i])
      <4>1. Best(i, l) /\ i \in 1 .. l
        BY <2>1, <3>1, <3>2, <3>5
      <4>2. QED
        BY <4>1
    <3>6. QED
      BY <3>4, <3>5
  <2>5. QED
    BY <2>3, <2>4
<1> HIDE DEF Q
<1>4. \A n \in Nat : n \in Q
  BY <1>2, <1>3, Induction
<1>5. \E i \in DOMAIN s : Best(i, Len(s))
  BY <1>1, <1>4 DEF Q
<1> DEFINE First(i) == /\ \A j \in DOMAIN s : ~Outranks(s[j], s[i])
                       /\ \A j \in 1 .. i - 1 : Outranks(s[i], s[j])
<1>6. \E i \in DOMAIN s : First(i)
  BY <1>1, <1>5
<1> DEFINE first == CHOOSE i \in DOMAIN s : First(i)
<1>7. first \in DOMAIN s
  BY <1>6
<1>8. Primary(s) = s[first]
  BY DEF Primary
<1> HIDE DEF first
<1>9. QED
  BY <1>1, <1>7, <1>8

LEMMA IconReads == Readings /\ Displays => IconAgreesWithMenu
<1> SUFFICES ASSUME Readings, Displays PROVE IconAgreesWithMenu
  OBVIOUS
<1> DEFINE sub == drawn.subs[1]
           Cells(item) == Cardinality({k \in DOMAIN item.title : item.title[k] = Cell(TRUE)})
           Agree(cells) == /\ 24 * cells - 10 * menu.icon.rows \in -23 .. 23
                           /\ cells = 0 <=> menu.icon.rows = 0
<1>1. cfg \in Settings /\ drawn.at \in Int /\ IsSub(sub, Vendors[1])
  BY DEF Readings, Displays, AreSubs
<1>2. /\ ReadRows(menu.meters, MeterRows(cfg.lang, sub, drawn.at))
      /\ menu.icon = Render(IconState(cfg, sub))
  BY DEF Displays, Shows
<1>3. CASE ActiveMeters = <<>>
  <2>1. sub.snapshot = Nil \/ sub.snapshot.meters = <<>>
    BY <1>3 DEF ActiveMeters
  <2>2. IconState(cfg, sub) = [percent |-> 0, level |-> SeverityNormal, stale |-> TRUE]
    BY <2>1 DEF IconState, Primary
  <2>3. menu.icon.rows = 0
    BY <1>2, <2>2 DEF Render, fillHeight
  <2>4. QED
    BY <1>3, <2>3 DEF IconAgreesWithMenu
<1>4. CASE ActiveMeters # <<>>
  <2> DEFINE m == Primary(sub.snapshot.meters)
  <2>1. sub.snapshot # Nil /\ ActiveMeters = sub.snapshot.meters
    BY <1>4 DEF ActiveMeters
  <2>2. IsSnapshot(sub.snapshot)
    BY <1>1, <2>1 DEF IsSub
  <2>3. m # Nil /\ IsMeter(m)
    <3>1. PICK i \in 1 .. Len(sub.snapshot.meters) : m = sub.snapshot.meters[i]
      BY <1>4, <2>1, <2>2, PrimaryIsOne DEF IsSnapshot
    <3>2. QED
      BY <2>2, <3>1, SnapshotMeters
  <2>4. /\ menu.icon.rows = fillHeight(m.percent)
        /\ menu.icon.rows # 0 => (menu.icon.colour = "grey" <=> sub.lastError # Nil)
        /\ m.percent >= cfg.warn => menu.icon.colour # "green"
        /\ m.percent >= cfg.crit => menu.icon.colour # "amber"
        /\ m.level >= SeverityWarning => menu.icon.colour # "green"
        /\ m.level = SeverityCritical => menu.icon.colour # "amber"
    BY <1>1, <1>2, <2>1, <2>3, IconOfPrimary
  <2>5. Agree(progressBar(m.percent))
    BY <2>3, <2>4, GaugesAgree DEF IsMeter
  <2>6. ASSUME NEW i \in DOMAIN menu.meters \cap DOMAIN ActiveMeters,
               ActiveMeters[i] = m, meterBar(m) # <<>>
        PROVE  Cells(menu.meters[i]) = progressBar(m.percent)
    <3> DEFINE at == drawn.at
               lang == cfg.lang
               items == menu.meters
    <3>1. Cells(menu.meters[i]) = Filled(items[i].title) /\ i \in DOMAIN items
      BY DEF Filled
    <3>2. m = sub.snapshot.meters[i] /\ i \in 1 .. Len(sub.snapshot.meters)
      BY <2>1, <2>2, <2>6, SnapshotMeters
    <3>3. ReadRows(items, MeterRows(lang, sub, at)) /\ at \in Int
      BY <1>1, <1>2
    <3>4. meterBar(sub.snapshot.meters[i]) # <<>>
      BY <2>6, <3>2
    <3> HIDE DEF sub, Cells, at, lang, items, m
    <3>5. items[i].title = MenuRowTitle(MeterRows(lang, sub, at)[i])
      BY <2>1, <2>2, <3>1, <3>2, <3>3, ItemOfMeter
    <3>6. Filled(MenuRowTitle(MeterRows(lang, sub, at)[i]))
              = progressBar(sub.snapshot.meters[i].percent)
      BY <2>1, <2>2, <3>2, <3>3, <3>4, CellsOfRow
    <3>7. QED
      BY <3>1, <3>2, <3>5, <3>6
  <2>7. m = Primary(ActiveMeters)
    BY <2>1
  <2> HIDE DEF m
  <2>8. QED
    BY <1>4, <2>4, <2>5, <2>6, <2>7 DEF IconAgreesWithMenu
<1>5. QED
  BY <1>3, <1>4

\* The icon and the gauge of the menu agree, and the icon is never milder than its
\* judges: menuView.apply, which sets the icon only when it changed.
THEOREM IconAlwaysAgrees == Spec => []IconAgreesWithMenu
  BY DisplaysAlways, IconReads, PTL

-------------------------------------------------------------------------------
(* The resets *)

RangeOfRow(left, f, space, bar) == Range(left) \cup Range(f) \cup Range(space) \cup Range(bar)

LEMMA RowRange ==
    ASSUME NEW left, IsSeq(left), NEW f, IsSeq(f), NEW space, IsSeq(space), NEW bar, IsSeq(bar)
    PROVE  /\ Range(InOrder(left, f, space, bar)) = RangeOfRow(left, f, space, bar)
           /\ Range(left \o f) = Range(left) \cup Range(f)
<1> DEFINE end == space \o bar
           right == f \o end
<1>1. IsSeq(end) /\ Range(end) = Range(space) \cup Range(bar)
  BY SeqConcat, RangeConcat
<1>2. InOrder(left, f, space, bar) = left \o right
  BY DEF InOrder
<1> HIDE DEF end
<1>3. IsSeq(right) /\ Range(right) = Range(f) \cup Range(end)
  BY <1>1, SeqConcat, RangeConcat
<1> HIDE DEF right
<1>4. Range(left \o right) = Range(left) \cup Range(right)
  BY <1>3, RangeConcat
<1>5. Range(left \o f) = Range(left) \cup Range(f)
  BY RangeConcat
<1>6. QED
  BY <1>1, <1>2, <1>3, <1>4, <1>5 DEF RangeOfRow

\* A row says when its meter resets where it should, if the name leaves room for it.
LEMMA RowSays ==
    ASSUME NEW lang, NEW sub, sub.snapshot # Nil, IsSnapshot(sub.snapshot), NEW at \in Int,
           NEW i \in 1 .. Len(sub.snapshot.meters)
    PROVE  LET meters == sub.snapshot.meters
               said == Range(MenuRowTitle(MeterRows(lang, sub, at)[i]))
               suffix == <<"text", lang, "MeterResetSuffix">>
           IN  /\ ~statesReset(meters, i) => suffix \notin said
               /\ statesReset(meters, i)
                     /\ Len(neutralized(MeterLabel(lang, meters[i]))) + 5 <= MaxField
                         => suffix \in said
<1> DEFINE meters == sub.snapshot.meters
           suffix == <<"text", lang, "MeterResetSuffix">>
           title == MenuRowTitle(MeterRows(lang, sub, at)[i])
           m == meters[i]
           label == RowLabel(lang, meters, i, at)
           left == RowLeft(lang, meters, i, at)
           right == RowRight(lang, m)
           f == figure(lang, m)
           bar == meterBar(m)
           space == <<Space>>
           column == <<Column>>
           room == Len(neutralized(MeterLabel(lang, m))) + 5 <= MaxField
<1>1. AreMeters(meters) /\ IsMeter(m)
  BY SnapshotMeters DEF IsSnapshot
<1>2. IsSeq(left) /\ title = left \o right
  BY RowTitleFacts
<1>3. IsSeq(f) /\ suffix \notin Range(f)
  <2>1. IsSeq(f) /\ \A c \in Range(f) : ~Unsaid(c)
    BY <1>1, FigureFacts
  <2> HIDE DEF f
  <2>2. QED
    BY <2>1 DEF Unsaid
<1>4. IsSeq(bar) /\ suffix \notin Range(bar)
  BY BarFacts
<1>5. IsSeq(space) /\ suffix \notin Range(space)
  <2>1. IsSeq(space) /\ Range(space) = {Space}
    BY SeqOne, RangeOne
  <2>2. Space # suffix
    BY DEF Space, Letter
  <2> HIDE DEF space, suffix
  <2>3. QED
    BY <2>1, <2>2
<1>6. IsSeq(column) /\ Range(column) = {Column} /\ Column # suffix
  <2>1. IsSeq(column) /\ Range(column) = {Column}
    BY SeqOne, RangeOne
  <2>2. Column # suffix
    BY DEF Column, Letter
  <2>3. QED
    BY <2>1, <2>2
<1>7. /\ IsSeq(label)
      /\ ~statesReset(meters, i) => suffix \notin Range(label)
      /\ statesReset(meters, i) /\ room => suffix \in Range(label)
  <2>1. label = sanitizeMenuField(meterTitle(lang, meters, i, at))
    BY DEF RowLabel
  <2> HIDE DEF label
  <2>2. IsSeq(label)
    BY <1>1, <2>1, RowLabelFacts
  <2>3. ~statesReset(meters, i) => \A c \in Range(label) : ~Unsaid(c)
    BY <1>1, <2>1, RowLabelFacts
  <2>4. statesReset(meters, i) /\ room => suffix \in Range(label)
    BY <1>1, <2>1, RowLabelFacts
  <2>5. Unsaid(suffix)
    BY DEF Unsaid
  <2> HIDE DEF suffix, room
  <2>6. QED
    BY <2>2, <2>3, <2>4, <2>5
<1>8. Range(left) = Range(label) \cup {Column}
  <2>1. left = label \o column
    BY DEF RowLeft
  <2> HIDE DEF label, left, column
  <2>2. Range(left) = Range(label) \cup Range(column)
    BY <1>6, <1>7, <2>1, RangeConcat
  <2>3. QED
    BY <1>6, <2>2
<1>9. right = IF bar = <<>> THEN f ELSE f \o (space \o bar)
  BY DEF RowRight
<1> HIDE DEF label, left, right, f, bar, space, column, suffix, title, room
<1>10. Range(title) = Range(left) \cup Range(f)
       \/ Range(title) = RangeOfRow(left, f, space, bar)
  <2>1. CASE bar = <<>>
    BY <1>2, <1>3, <1>4, <1>5, <1>9, <2>1, RowRange
  <2>2. CASE bar # <<>>
    <3>1. title = InOrder(left, f, space, bar)
      BY <1>2, <1>9, <2>2 DEF InOrder
    <3>2. QED
      BY <1>2, <1>3, <1>4, <1>5, <3>1, RowRange
  <2>3. QED
    BY <2>1, <2>2
<1>11. suffix \in Range(title) <=> suffix \in Range(label)
  BY <1>3, <1>4, <1>5, <1>6, <1>8, <1>10 DEF RangeOfRow
<1>12. QED
  BY <1>7, <1>11 DEF title, suffix, room

\* Where every row that should says its meter's reset, the nearest row above that says
\* one says this meter's.
LEMMA NearestReset ==
    ASSUME NEW meters, NEW n \in Nat, NEW says,
           \A i \in 1 .. n : ~statesReset(meters, i) => i \notin says,
           \A i \in 1 .. n : statesReset(meters, i) => i \in says,
           n \in 1 .. n => meters[n].reset # Nil
    PROVE  n \in 1 .. n =>
               \E j \in 1 .. n : /\ j \in says
                                 /\ \A k \in j .. n : meters[k].reset = meters[n].reset
                                 /\ \A k \in j + 1 .. n : k \notin says
<1> DEFINE Nearest(i) == \E j \in 1 .. i : /\ j \in says
                                           /\ \A k \in j .. i : meters[k].reset = meters[i].reset
                                           /\ \A k \in j + 1 .. i : k \notin says
           Q == {i \in Nat : i \in 1 .. n /\ meters[i].reset # Nil => Nearest(i)}
<1>1. 0 \in Q
  OBVIOUS
<1>2. ASSUME NEW i \in Nat, i \in Q PROVE i + 1 \in Q
  <2>1. PICK l \in Nat : l = i + 1
    OBVIOUS
  <2>2. SUFFICES ASSUME l \in 1 .. n, meters[l].reset # Nil PROVE Nearest(l)
    BY <2>1
  <2>3. CASE statesReset(meters, l)
    <3>1. l \in says /\ l + 1 .. l = {} /\ l .. l = {l} /\ l \in 1 .. l
      BY <2>2, <2>3
    <3>2. QED
      BY <3>1
  <2>4. CASE ~statesReset(meters, l)
    <3>1. l > 1 /\ meters[l].reset = meters[l - 1].reset
      BY <2>2, <2>4 DEF statesReset
    <3>2. i \in 1 .. n /\ meters[i].reset = meters[l].reset
      BY <2>1, <2>2, <3>1
    <3>3. PICK j \in 1 .. i : /\ j \in says
                              /\ \A k \in j .. i : meters[k].reset = meters[i].reset
                              /\ \A k \in j + 1 .. i : k \notin says
      BY <1>2, <2>2, <3>2
    <3>4. l \notin says
      BY <2>2, <2>4
    <3>5. \A k \in j + 1 .. l : k \notin says
      <4>1. \A k \in j + 1 .. l : k \in j + 1 .. i \/ k = l
        BY <2>1
      <4>2. QED
        BY <3>3, <3>4, <4>1
    <3>6. \A k \in j .. l : meters[k].reset = meters[l].reset
      <4>1. \A k \in j .. l : k \in j .. i \/ k = l
        BY <2>1
      <4>2. QED
        BY <3>2, <3>3, <4>1
    <3>7. j \in 1 .. l
      BY <2>1
    <3>8. QED
      BY <3>3, <3>5, <3>6, <3>7
  <2>5. QED
    BY <2>3, <2>4
<1> HIDE DEF Q
<1>3. \A i \in Nat : i \in Q
  BY <1>1, <1>2, Induction
<1>4. n \in Q
  BY <1>3
<1>5. QED
  BY <1>4 DEF Q

\* Row i or the nearest row above that says a reset says the one of row i, which all
\* rows from there on share.
NamedAbove(items, meters, i, suffix) ==
    \E j \in 1 .. i : /\ suffix \in Range(items[j].title)
                      /\ \A k \in j .. i : meters[k].reset = meters[i].reset
                      /\ \A k \in j + 1 .. i : suffix \notin Range(items[k].title)

LEMMA ResetsOfItems ==
    ASSUME NEW lang, NEW sub, sub.snapshot # Nil, IsSnapshot(sub.snapshot), NEW at \in Int,
           NEW items, NEW size \in Nat, DOMAIN items = 1 .. size,
           ReadRows(items, MeterRows(lang, sub, at)),
           NEW i \in 1 .. Len(sub.snapshot.meters), i \in 1 .. size,
           sub.snapshot.meters[i].reset # Nil,
           \A j \in 1 .. i :
               Len(neutralized(MeterLabel(lang, sub.snapshot.meters[j]))) + 5 <= MaxField
    PROVE  NamedAbove(items, sub.snapshot.meters, i, <<"text", lang, "MeterResetSuffix">>)
<1> DEFINE meters == sub.snapshot.meters
           suffix == <<"text", lang, "MeterResetSuffix">>
           says == {j \in 1 .. i : suffix \in Range(items[j].title)}
<1>1. Len(meters) \in Nat /\ i \in Nat
  BY SnapshotMeters
<1>2. ASSUME NEW j \in 1 .. i
      PROVE  /\ ~statesReset(meters, j) => suffix \notin Range(items[j].title)
             /\ statesReset(meters, j) => suffix \in Range(items[j].title)
  <2>1. j \in 1 .. Len(sub.snapshot.meters) /\ j \in DOMAIN items
    BY <1>1
  <2>2. items[j].title = MenuRowTitle(MeterRows(lang, sub, at)[j])
    BY <2>1, ItemOfMeter
  <2>3. Len(neutralized(MeterLabel(lang, meters[j]))) + 5 <= MaxField
    OBVIOUS
  <2> DEFINE said == Range(MenuRowTitle(MeterRows(lang, sub, at)[j]))
             room == Len(neutralized(MeterLabel(lang, meters[j]))) + 5 <= MaxField
  <2>4. /\ ~statesReset(meters, j) => suffix \notin said
        /\ statesReset(meters, j) /\ room => suffix \in said
    BY <2>1, RowSays
  <2>5. said = Range(items[j].title)
    BY <2>2
  <2> HIDE DEF said
  <2>6. QED
    BY <2>3, <2>4, <2>5
<1> HIDE DEF suffix
<1>3. /\ \A j \in 1 .. i : ~statesReset(meters, j) => j \notin says
      /\ \A j \in 1 .. i : statesReset(meters, j) => j \in says
  BY <1>2
<1>4. i \in 1 .. i /\ \A j \in 1 .. i : \A k \in j + 1 .. i : k \in 1 .. i
  BY <1>1
<1>5. meters[i].reset # Nil
  OBVIOUS
<1> HIDE DEF says, meters
<1>6. \E j \in 1 .. i : /\ j \in says
                        /\ \A k \in j .. i : meters[k].reset = meters[i].reset
                        /\ \A k \in j + 1 .. i : k \notin says
  BY <1>1, <1>3, <1>4, <1>5, NearestReset
<1>7. QED
  BY <1>4, <1>6 DEF says, meters, suffix, NamedAbove

LEMMA ResetsRead == Readings /\ Displays => ResetsReadable
<1> SUFFICES ASSUME Readings, Displays PROVE ResetsReadable
  OBVIOUS
<1> DEFINE Fits(meter) == Len(neutralized(MeterLabel(cfg.lang, meter))) + 5 <= MaxField
           Says(item) == \E k \in DOMAIN item.title :
                             item.title[k] = <<"text", cfg.lang, "MeterResetSuffix">>
           Readable(items, meters) ==
               \A i \in DOMAIN items \cap DOMAIN meters :
                   (meters[i].reset # Nil /\ \A j \in 1 .. i : Fits(meters[j])) =>
                       \E j \in 1 .. i :
                           /\ Says(items[j])
                           /\ \A k \in j .. i : meters[k].reset = meters[i].reset
                           /\ \A k \in j + 1 .. i : ~Says(items[k])
<1>1. ASSUME NEW p \in 1 .. 2, NEW items, AreItems(items, MaxMeterRows),
             ReadRows(items, MeterRows(cfg.lang, drawn.subs[p], drawn.at)),
             drawn.subs[p].snapshot # Nil
      PROVE  Readable(items, drawn.subs[p].snapshot.meters)
  <2> DEFINE sub == drawn.subs[p]
             meters == sub.snapshot.meters
             lang == cfg.lang
             at == drawn.at
             suffix == <<"text", lang, "MeterResetSuffix">>
  <2>1. IsSnapshot(sub.snapshot) /\ at \in Int
    BY <1>1 DEF Displays, AreSubs, IsSub
  <2>2. DOMAIN meters = 1 .. Len(meters) /\ DOMAIN items = 1 .. MaxMeterRows /\ MaxMeterRows \in Nat
    BY <1>1, <2>1, SnapshotMeters, MenuConstants DEF AreItems
  <2>3. \A item : Says(item) <=> suffix \in Range(item.title)
    BY DEF Range
  <2>4. \A meter : Fits(meter) <=> Len(neutralized(MeterLabel(lang, meter))) + 5 <= MaxField
    OBVIOUS
  <2>5. sub.snapshot # Nil /\ ReadRows(items, MeterRows(lang, sub, at))
    BY <1>1
  <2> HIDE DEF sub, lang, at, suffix, Says, Fits
  <2>6. ASSUME NEW i \in 1 .. Len(meters), i \in 1 .. MaxMeterRows, meters[i].reset # Nil,
               \A j \in 1 .. i : Fits(meters[j])
        PROVE  \E j \in 1 .. i :
                   /\ suffix \in Range(items[j].title)
                   /\ \A k \in j .. i : meters[k].reset = meters[i].reset
                   /\ \A k \in j + 1 .. i : suffix \notin Range(items[k].title)
    <3>1. \A j \in 1 .. i : Len(neutralized(MeterLabel(lang, meters[j]))) + 5 <= MaxField
      BY <2>4, <2>6
    <3>2. i \in 1 .. Len(sub.snapshot.meters) /\ sub.snapshot.meters[i].reset # Nil
      BY <2>6 DEF meters
    <3>3. NamedAbove(items, sub.snapshot.meters, i, <<"text", lang, "MeterResetSuffix">>)
      BY <2>1, <2>2, <2>5, <2>6, <3>1, <3>2, ResetsOfItems
    <3>4. QED
      BY <3>3 DEF suffix, meters, NamedAbove
  <2>7. QED
    BY <2>2, <2>3, <2>6 DEF sub
<1>2. ASSUME NEW p \in 1 .. 2, drawn.subs[p].snapshot # Nil
      PROVE  /\ Readable(menu.entries[p].meters, drawn.subs[p].snapshot.meters)
             /\ p = 1 => Readable(menu.meters, drawn.subs[p].snapshot.meters)
  <2> HIDE DEF Readable
  <2>1. /\ AreItems(menu.meters, MaxMeterRows)
        /\ ReadRows(menu.meters, MeterRows(cfg.lang, drawn.subs[1], drawn.at))
    BY DEF Displays, Widgets, Shows
  <2>2. /\ AreItems(menu.entries[p].meters, MaxMeterRows)
        /\ ReadRows(menu.entries[p].meters, MeterRows(cfg.lang, drawn.subs[p], drawn.at))
    BY DEF Displays, Widgets, Shows, EntryShows
  <2>3. QED
    BY <1>1, <1>2, <2>1, <2>2
<1>3. DOMAIN drawn.subs = 1 .. 2
  BY DEF Displays, AreSubs
<1> HIDE DEF Readable
<1>4. QED
  BY <1>2, <1>3 DEF ResetsReadable, Readable, Says, Fits

\* A reset that a row leaves out is the one the nearest row above names.
THEOREM ResetsAlwaysReadable == Spec => []ResetsReadable
  BY DisplaysAlways, ResetsRead, PTL

-------------------------------------------------------------------------------
(* The status line *)

LEMMA SeqLists ==
    /\ AllSeqs(<<>>)
    /\ \A a : IsSeq(a) => AllSeqs(<<a>>)
    /\ \A a, b : IsSeq(a) /\ IsSeq(b) => AllSeqs(<<a, b>>)
<1>1. AllSeqs(<<>>)
  BY SeqEmpty DEF AllSeqs
<1>2. ASSUME NEW a, IsSeq(a) PROVE AllSeqs(<<a>>)
  <2>1. IsSeq(<<a>>) /\ Len(<<a>>) = 1 /\ <<a>>[1] = a
    BY SeqOne
  <2>2. QED
    BY <1>2, <2>1 DEF AllSeqs
<1>3. ASSUME NEW a, NEW b, IsSeq(a), IsSeq(b) PROVE AllSeqs(<<a, b>>)
  <2>1. IsSeq(<<a, b>>) /\ Len(<<a, b>>) = 2 /\ <<a, b>>[1] = a /\ <<a, b>>[2] = b
    BY SeqTwo
  <2>2. \A i \in 1 .. 2 : i = 1 \/ i = 2
    OBVIOUS
  <2>3. QED
    BY <1>3, <2>1, <2>2 DEF AllSeqs
<1>4. QED
  BY <1>1, <1>2, <1>3

Said(t) == IsSeq(t) /\ t # <<>>

LEMMA TextSaid ==
    ASSUME NEW lang, NEW key
    PROVE  /\ Said(Text(lang, key, <<>>))
           /\ \A a : IsSeq(a) => Said(Text(lang, key, <<a>>))
           /\ \A a, b : IsSeq(a) /\ IsSeq(b) => Said(Text(lang, key, <<a, b>>))
<1>1. \A args : AllSeqs(args) => Said(Text(lang, key, args))
  BY TextFacts DEF Said
<1>2. QED
  BY <1>1, SeqLists

LEMMA CountdownSaid ==
    ASSUME NEW lang, NEW a \in Int, NEW b \in Int
    PROVE  Said(countdown(lang, Sub(a, b)))
<1>1. Sub(a, b) \in Int
  BY QuotaConstants DEF Sub
<1>2. QED
  BY <1>1, CountdownFacts DEF Said

LEMMA ErrorSaid ==
    ASSUME NEW lang, NEW e, IsError(e)
    PROVE  Said(humanizeError(lang, e))
<1>1. IsSeq(e.renewHint) /\ e.kind \in Kinds
  BY DEF IsError, IsWord
<1>2. \A key : Said(Text(lang, key, <<>>)) /\ Said(Text(lang, key, <<e.renewHint>>))
  BY <1>1, TextSaid
<1>3. CASE e.kind = "Unauthorized"
  <2>1. humanizeError(lang, e) = Text(lang, "ErrorUnauthorized", <<e.renewHint>>)
    BY <1>3 DEF humanizeError
  <2>2. QED
    BY <1>2, <2>1
<1>4. CASE e.kind # "Unauthorized"
  <2>1. \/ humanizeError(lang, e) = Text(lang, "ErrorRateLimited", <<>>)
        \/ humanizeError(lang, e) = Text(lang, "ErrorTransient", <<>>)
        \/ humanizeError(lang, e) = Text(lang, "ErrorProtocol", <<>>)
    BY <1>1, <1>4 DEF humanizeError, Kinds
  <2>2. QED
    BY <1>2, <2>1
<1>5. QED
  BY <1>3, <1>4

LEMMA JoinedSaid ==
    ASSUME NEW a, NEW b, Said(a), IsSeq(b), NEW c
    PROVE  Said(Joined(<<a, b>>, <<c>>))
<1> DEFINE separator == <<c>>
           end == separator \o b
<1>1. IsSeq(separator)
  BY SeqOne
<1> HIDE DEF separator
<1>2. PICK t : t = Joined(<<a, b>>, separator)
  OBVIOUS
<1>3. IsSeq(a) /\ a # <<>>
  BY DEF Said
<1>4. IsSeq(t)
  BY <1>1, <1>2, <1>3, JoinedTwo
<1>5. b = <<>> => t = a
  BY <1>1, <1>2, <1>3, JoinedTwo
<1>6. b # <<>> => t = a \o end
  BY <1>1, <1>2, <1>3, JoinedTwo
<1>7. IsSeq(end)
  BY <1>1, SeqConcat
<1> HIDE DEF end
<1>8. a \o end # <<>>
  <2>1. Len(a) \in Nat /\ Len(a) # 0 /\ Len(end) \in Nat
    BY <1>3, <1>7, SeqEmpty, SeqIsFunction
  <2>2. Len(a \o end) = Len(a) + Len(end)
    BY <1>3, <1>7, SeqConcat
  <2>3. Len(a \o end) # 0
    BY <2>1, <2>2
  <2>4. QED
    BY <2>3, SeqEmpty
<1>9. t # <<>>
  BY <1>3, <1>5, <1>6, <1>8
<1>10. QED
  BY <1>2, <1>4, <1>9 DEF Said, separator

\* A status line is never empty.
LEMMA StatusSaid ==
    ASSUME NEW lang, NEW vendor, NEW sub, IsSub(sub, vendor), NEW at \in Int
    PROVE  Said(StatusText(lang, sub, at)) /\ Said(tooltipStatus(lang, sub, at))
<1> DEFINE age == countdown(lang, Sub(at, sub.updatedAt))
           next == countdown(lang, Sub(sub.nextPollAt, at))
           stale == Text(lang, "StatusStale", <<age>>)
           error == humanizeError(lang, sub.lastError)
<1>1. sub.snapshot # Nil => Said(age) /\ Said(next) /\ IsSeq(age) /\ IsSeq(next)
  <2>1. sub.snapshot # Nil => sub.updatedAt \in Int /\ sub.nextPollAt \in Int
    BY DEF IsSub
  <2>2. sub.snapshot # Nil => Said(age) /\ Said(next)
    BY <2>1, CountdownSaid
  <2> HIDE DEF age, next
  <2>3. QED
    BY <2>2 DEF Said
<1>2. sub.snapshot # Nil => IsSeq(stale)
  <2> HIDE DEF age
  <2>1. sub.snapshot # Nil => Said(stale)
    BY <1>1, TextSaid
  <2>2. QED
    BY <2>1 DEF Said
<1>3. sub.lastError # Nil => Said(error)
  <2>1. sub.lastError # Nil => IsError(sub.lastError)
    BY DEF IsSub
  <2>2. QED
    BY <2>1, ErrorSaid
<1>4. Said(Text(lang, "StatusFirstPoll", <<>>))
  BY TextSaid
<1>5. sub.snapshot # Nil => Said(Text(lang, "StatusUpdated", <<age, next>>))
                                /\ Said(Text(lang, "StatusUpdatedBrief", <<age>>))
  <2> HIDE DEF age, next
  <2>1. QED
    BY <1>1, TextSaid
<1>6. CASE sub.lastError # Nil
  <2> DEFINE second == IF sub.snapshot = Nil THEN <<>> ELSE stale
  <2>1. StatusText(lang, sub, at) = Joined(<<error, second>>, <<Space>>)
    BY <1>6 DEF StatusText
  <2>2. tooltipStatus(lang, sub, at) = StatusText(lang, sub, at)
    BY <1>6 DEF tooltipStatus
  <2> HIDE DEF stale, error
  <2>3. IsSeq(second)
    BY <1>2, SeqEmpty
  <2> HIDE DEF second
  <2>4. QED
    BY <1>3, <1>6, <2>1, <2>2, <2>3, JoinedSaid
<1>7. CASE sub.lastError = Nil /\ sub.snapshot = Nil
  <2>1. /\ StatusText(lang, sub, at) = Text(lang, "StatusFirstPoll", <<>>)
        /\ tooltipStatus(lang, sub, at) = StatusText(lang, sub, at)
    BY <1>7 DEF StatusText, tooltipStatus
  <2>2. QED
    BY <1>4, <2>1
<1>8. CASE sub.lastError = Nil /\ sub.snapshot # Nil
  <2>1. /\ StatusText(lang, sub, at) = Text(lang, "StatusUpdated", <<age, next>>)
        /\ tooltipStatus(lang, sub, at) = Text(lang, "StatusUpdatedBrief", <<age>>)
    BY <1>8 DEF StatusText, tooltipStatus
  <2> HIDE DEF age, next
  <2>2. QED
    BY <1>5, <1>8, <2>1
<1>9. QED
  BY <1>6, <1>7, <1>8

-------------------------------------------------------------------------------
(* The tooltip *)

LEMMA Greatest ==
    ASSUME NEW n \in Nat, NEW S, S \subseteq 0 .. n, 0 \in S
    PROVE  Max(S) \in S /\ \A y \in S : y <= Max(S)
<1> DEFINE R == {k \in Nat : n - k \in S}
<1>1. n \in R
  OBVIOUS
<1>2. PICK k \in R : \A j \in R : <<j, k>> \notin OpToRel(<, Nat)
  BY <1>1, NatLessThanWellFounded, WFMin
<1>3. \A y \in S : n - y \in R /\ y \in Int
  <2>1. \A y \in S : y \in 0 .. n
    OBVIOUS
  <2>2. \A y \in S : n - y \in Nat /\ n - (n - y) = y
    BY <2>1
  <2>3. QED
    BY <2>1, <2>2
<1>4. ASSUME NEW y \in S PROVE n - k >= y
  <2>1. n - y \in Nat /\ k \in Nat /\ ~(n - y < k)
    BY <1>2, <1>3 DEF OpToRel
  <2>2. QED
    BY <1>3, <2>1
<1>5. n - k \in S /\ \A y \in S : n - k >= y
  BY <1>4
<1>6. Max(S) \in S /\ \A y \in S : Max(S) >= y
  BY <1>5 DEF Max
<1>7. QED
  BY <1>3, <1>6

LEMMA JoinedIsSeq ==
    ASSUME NEW texts, AllSeqs(texts), NEW separator, IsSeq(separator)
    PROVE  /\ IsSeq(Joined(texts, separator))
           /\ Len(texts) = 0 => Joined(texts, separator) = <<>>
<1> DEFINE leads(i) == \A j \in 1 .. i - 1 : texts[j] = <<>>
           ss == [i \in DOMAIN texts |-> IF leads(i) \/ texts[i] = <<>> THEN texts[i]
                                         ELSE separator \o texts[i]]
<1>1. Joined(texts, separator) = FlattenSeq(ss)
  BY DEF Joined
<1>2. IsSeq(texts) /\ DOMAIN texts = 1 .. Len(texts)
  BY SeqIsFunction DEF AllSeqs
<1> HIDE DEF leads
<1>3. ASSUME NEW i \in 1 .. Len(texts) PROVE IsSeq(ss[i])
  <2> DEFINE x == texts[i]
             y == separator \o x
  <2>1. IsSeq(x)
    BY DEF AllSeqs
  <2>2. ss[i] = x \/ ss[i] = y
    BY <1>2
  <2> HIDE DEF x, ss
  <2>3. IsSeq(y)
    BY <2>1, SeqConcat
  <2>4. QED
    BY <2>1, <2>2, <2>3
<1>4. ss = [i \in DOMAIN texts |-> ss[i]]
  OBVIOUS
<1> HIDE DEF ss
<1>5. IsSeq(ss) /\ Len(ss) = Len(texts)
  BY <1>2, <1>4, SeqMapped
<1>6. AllSeqs(ss)
  BY <1>3, <1>5 DEF AllSeqs
<1>7. Len(texts) = 0 => ss = <<>>
  BY <1>5, SeqEmpty
<1>8. QED
  BY <1>1, <1>6, <1>7, FlattenIsSeq, FlattenEmpty

LEMMA PrefixMapped ==
    ASSUME NEW s, IsSeq(s), NEW n \in 0 .. Len(s)
    PROVE  SubSeq(s, 1, n) = [i \in 1 .. n |-> s[i]]
<1> DEFINE t == [i \in 1 .. n |-> s[i]]
<1>1. s \in Seq(Range(s)) /\ Len(s) \in Nat
  BY SeqIsFunction DEF IsSeq
<1>2. \A i \in 1 .. n : i \in 1 .. Len(s)
  BY <1>1
<1>3. /\ SubSeq(s, 1, n) \in Seq(Range(s)) /\ Len(SubSeq(s, 1, n)) = n
      /\ \A i \in 1 .. n : SubSeq(s, 1, n)[i] = s[i]
  <2>1. 1 \in 1 .. Len(s) + 1
    BY <1>1
  <2>2. n \in 1 - 1 .. Len(s)
    OBVIOUS
  <2>3. QED
    BY <1>1, <2>1, <2>2, SubSeqProperties
<1>4. IsSeq(SubSeq(s, 1, n))
  BY <1>3, SeqFrom
<1>5. t = [i \in 1 .. n |-> t[i]] /\ \A i \in 1 .. n : t[i] = s[i]
  OBVIOUS
<1> HIDE DEF t
<1>6. IsSeq(t) /\ Len(t) = n
  BY <1>5, FunctionIsSeq
<1>7. SubSeq(s, 1, n) = t
  BY <1>3, <1>4, <1>5, <1>6, SeqSame
<1>8. QED
  BY <1>7 DEF t

First(lines, n) == Joined([i \in 1 .. n |-> lines[i]], <<Newline>>)

LEMMA FirstLines ==
    ASSUME NEW lines, AllSeqs(lines), NEW n \in 0 .. Len(lines)
    PROVE  /\ Joined(SubSeq(lines, 1, n), <<Newline>>) = First(lines, n)
           /\ IsSeq(First(lines, n))
           /\ n = 0 => First(lines, n) = <<>>
<1> DEFINE t == [i \in 1 .. n |-> lines[i]]
           separator == <<Newline>>
<1>1. IsSeq(lines) /\ Len(lines) \in Nat
  BY SeqIsFunction DEF AllSeqs
<1>2. SubSeq(lines, 1, n) = t
  <2>1. n \in 0 .. Len(lines)
    OBVIOUS
  <2>2. SubSeq(lines, 1, n) = [i \in 1 .. n |-> lines[i]]
    BY ONLY <1>1, <2>1, PrefixMapped
  <2>3. QED
    BY <2>2
<1>3. t = [i \in 1 .. n |-> t[i]] /\ \A i \in 1 .. n : t[i] = lines[i]
  OBVIOUS
<1>4. First(lines, n) = Joined(t, separator) /\ IsSeq(separator)
  BY SeqOne DEF First
<1>5. Joined(SubSeq(lines, 1, n), <<Newline>>) = First(lines, n)
  BY <1>2, <1>4
<1> HIDE DEF t, separator
<1>6. IsSeq(t) /\ Len(t) = n
  BY <1>3, FunctionIsSeq
<1>7. AllSeqs(t)
  <2>1. \A i \in 1 .. n : i \in 1 .. Len(lines)
    BY <1>1
  <2>2. \A i \in 1 .. n : IsSeq(t[i])
    BY <1>3, <2>1 DEF AllSeqs
  <2>3. QED
    BY <1>6, <2>2 DEF AllSeqs
<1>8. QED
  BY <1>4, <1>5, <1>6, <1>7, JoinedIsSeq

LEMMA JoinedLength ==
    ASSUME NEW a, NEW b, IsSeq(a), IsSeq(b), NEW c, NEW t, t = Joined(<<a, b>>, <<c>>)
    PROVE  /\ b = <<>> => t = a
           /\ Len(t) = IF a = <<>> THEN Len(b) ELSE IF b = <<>> THEN Len(a) ELSE Len(a) + 1 + Len(b)
<1> DEFINE separator == <<c>>
           end == separator \o b
<1>1. IsSeq(separator) /\ Len(separator) = 1
  BY SeqOne
<1>2. t = Joined(<<a, b>>, separator)
  OBVIOUS
<1> HIDE DEF separator
<1>3. /\ a = <<>> => t = b
      /\ b = <<>> => t = a
      /\ a # <<>> /\ b # <<>> => t = a \o end
  <2>1. a = <<>> => t = b
    BY <1>1, <1>2, JoinedTwo
  <2>2. b = <<>> => t = a
    BY <1>1, <1>2, JoinedTwo
  <2>3. a # <<>> /\ b # <<>> => t = a \o end
    BY <1>1, <1>2, JoinedTwo
  <2>4. QED
    BY <2>1, <2>2, <2>3
<1>4. IsSeq(end) /\ Len(end) = 1 + Len(b) /\ Len(a) \in Nat /\ Len(b) \in Nat
  BY <1>1, SeqConcat, SeqIsFunction
<1> HIDE DEF end
<1>5. Len(a \o end) = Len(a) + 1 + Len(b)
  BY <1>4, SeqConcat
<1>6. QED
  BY <1>3, <1>5

LEMMA WithinBudget ==
    ASSUME NEW lines, AllSeqs(lines), NEW trailing, IsSeq(trailing), NEW limit \in Nat, limit >= 2,
           NEW tip, tip = joinWithinBudget(lines, trailing, limit)
    PROVE  /\ Len(tip) <= limit
           /\ \E n \in 0 .. Len(lines), room \in 1 .. limit :
                 /\ tip = Joined(<<First(lines, n), IF room < 2 THEN <<>>
                                                    ELSE truncateRunes(trailing, room)>>, <<Newline>>)
                 /\ n < Len(lines) => Len(First(lines, n + 1)) > limit
                 /\ room < 2 => Len(First(lines, n)) + 3 > limit
<1> DEFINE first(n) == Joined(SubSeq(lines, 1, n), <<Newline>>)
           S == {n \in 0 .. Len(lines) : Len(first(n)) <= limit}
           fit == Max(S)
           head == First(lines, fit)
           room == limit - Len(first(fit)) - (IF fit > 0 THEN 1 ELSE 0)
           cut == truncateRunes(trailing, room)
<1>1. tip = IF room < 2 THEN first(fit) ELSE Joined(<<first(fit), cut>>, <<Newline>>)
  BY DEF joinWithinBudget
<1>2. \A n \in 0 .. Len(lines) : first(n) = First(lines, n) /\ IsSeq(First(lines, n))
  BY FirstLines
<1>3. first(0) = <<>> /\ Len(<<>>) = 0 /\ 0 \in 0 .. Len(lines) /\ Len(lines) \in Nat
  BY FirstLines, SeqIsFunction, SeqEmpty DEF AllSeqs
<1>4. S \subseteq 0 .. Len(lines) /\ 0 \in S
  BY <1>3
<1> HIDE DEF first
<1>5. fit \in S /\ \A y \in S : y <= fit
  <2> HIDE DEF S
  <2>1. QED
    BY <1>3, <1>4, Greatest
<1>6. fit \in 0 .. Len(lines) /\ Len(first(fit)) <= limit
  BY <1>5
<1>7. fit < Len(lines) => Len(First(lines, fit + 1)) > limit
  <2> SUFFICES ASSUME fit < Len(lines) PROVE Len(First(lines, fit + 1)) > limit
    OBVIOUS
  <2>1. fit + 1 \in 0 .. Len(lines) /\ ~(fit + 1 <= fit)
    BY <1>3, <1>6
  <2>2. fit + 1 \notin S
    BY <1>5, <2>1
  <2> HIDE DEF fit
  <2>3. ~(Len(first(fit + 1)) <= limit)
    BY <2>1, <2>2
  <2>4. first(fit + 1) = First(lines, fit + 1) /\ Len(First(lines, fit + 1)) \in Nat
    BY <1>2, <2>1, SeqIsFunction
  <2>5. QED
    BY <2>3, <2>4
<1> HIDE DEF S, fit
<1>8. head = first(fit) /\ IsSeq(head) /\ Len(head) \in Nat /\ Len(head) <= limit
  BY <1>2, <1>6, SeqIsFunction
<1>9. fit = 0 => head = <<>> /\ Len(head) = 0
  BY <1>3, <1>8
<1>10. room = limit - Len(head) - (IF fit > 0 THEN 1 ELSE 0)
  BY <1>8
<1>11. tip = IF room < 2 THEN head ELSE Joined(<<head, cut>>, <<Newline>>)
  BY <1>1, <1>8
<1> HIDE DEF head, room, cut
<1>12. room \in Int /\ room <= limit /\ (room < 2 => fit > 0 /\ Len(head) + 3 > limit)
       /\ (fit > 0 => Len(head) + 1 + room = limit)
  BY <1>6, <1>8, <1>9, <1>10
<1>13. CASE room < 2
  <2>1. tip = head
    BY <1>11, <1>13
  <2>2. PICK t : t = Joined(<<head, <<>> >>, <<Newline>>)
    OBVIOUS
  <2> DEFINE none == <<>>
  <2>3. IsSeq(none) /\ none = <<>>
    BY SeqEmpty
  <2>4. t = Joined(<<head, none>>, <<Newline>>)
    BY <2>2
  <2> HIDE DEF none
  <2>5. t = head
    BY <1>8, <2>3, <2>4, JoinedLength
  <2>6. tip = Joined(<<head, IF 1 < 2 THEN <<>> ELSE truncateRunes(trailing, 1)>>, <<Newline>>)
    BY <2>1, <2>2, <2>5
  <2>7. 1 \in 1 .. limit
    OBVIOUS
  <2>8. QED
    BY <1>6, <1>7, <1>8, <1>12, <1>13, <2>1, <2>6, <2>7 DEF head
<1>14. CASE ~(room < 2)
  <2>1. tip = Joined(<<head, cut>>, <<Newline>>) /\ room \in 1 .. limit /\ room \in Nat \ {0}
    BY <1>11, <1>12, <1>14
  <2>2. IsSeq(cut) /\ Len(cut) = IF Len(trailing) <= room THEN Len(trailing) ELSE room
    BY <2>1, Truncated DEF cut
  <2>3. Len(trailing) \in Nat /\ Len(cut) \in Nat
    BY <2>2, SeqIsFunction
  <2>4. Len(cut) <= room
    BY <2>1, <2>2, <2>3
  <2>5. Len(tip) = IF head = <<>> THEN Len(cut)
                   ELSE IF cut = <<>> THEN Len(head) ELSE Len(head) + 1 + Len(cut)
    <3>1. PICK t : t = Joined(<<head, cut>>, <<Newline>>)
      OBVIOUS
    <3>2. IsSeq(head) /\ IsSeq(cut)
      BY <1>8, <2>2
    <3>3. Len(t) = IF head = <<>> THEN Len(cut)
                   ELSE IF cut = <<>> THEN Len(head) ELSE Len(head) + 1 + Len(cut)
      BY ONLY <3>1, <3>2, JoinedLength
    <3>4. QED
      BY <2>1, <3>1, <3>3
  <2>6. head # <<>> => fit > 0
    BY <1>6, <1>9
  <2>7. Len(tip) <= limit
    BY <1>8, <1>12, <2>1, <2>3, <2>4, <2>5, <2>6
  <2>8. tip = Joined(<<head, IF room < 2 THEN <<>> ELSE truncateRunes(trailing, room)>>, <<Newline>>)
    BY <1>14, <2>1 DEF cut
  <2>9. QED
    BY <1>6, <1>7, <1>14, <2>1, <2>7, <2>8 DEF head
<1>15. QED
  BY <1>13, <1>14

LEMMA Section ==
    ASSUME NEW s, IsSeq(s), NEW l \in 1 .. Len(s) + 1, NEW r \in l - 1 .. Len(s)
    PROVE  /\ IsSeq(SubSeq(s, l, r)) /\ Len(SubSeq(s, l, r)) = r - l + 1
           /\ \A i \in 1 .. r - l + 1 : SubSeq(s, l, r)[i] = s[l + i - 1]
<1>1. s \in Seq(Range(s)) /\ Len(s) \in Nat
  BY SeqIsFunction DEF IsSeq
<1>2. /\ SubSeq(s, l, r) \in Seq(Range(s))
      /\ Len(SubSeq(s, l, r)) = IF l <= r THEN r - l + 1 ELSE 0
      /\ \A i \in 1 .. r - l + 1 : SubSeq(s, l, r)[i] = s[l + i - 1]
  BY <1>1, SubSeqProperties
<1>3. (IF l <= r THEN r - l + 1 ELSE 0) = r - l + 1
  BY <1>1
<1>4. QED
  BY <1>2, <1>3, SeqFrom

WithColumn(label, c, f, end) == (label \o <<c>>) \o (f \o end)
StandsAfter(title, c, f) ==
    \E k \in DOMAIN title : title[k] = c /\ SubSeq(title, k + 1, k + Len(f)) = f

\* What follows a column break can be read from the row it stands in.
LEMMA AfterColumn ==
    ASSUME NEW label, IsSeq(label), NEW f, IsSeq(f), NEW end, IsSeq(end), NEW c
    PROVE  StandsAfter(WithColumn(label, c, f, end), c, f)
<1>1. PICK left, right, title :
         /\ left = label \o <<c>> /\ right = f \o end /\ title = left \o right
         /\ title = WithColumn(label, c, f, end)
  BY DEF WithColumn
<1> DEFINE l == Len(label)
           n == Len(f)
           k == l + 1
           part == SubSeq(title, k + 1, k + n)
           column == <<c>>
<1>2. IsSeq(column) /\ Len(column) = 1 /\ column[1] = c
  BY SeqOne
<1>3. left = label \o column
  BY <1>1
<1> HIDE DEF column
<1>4. l \in Nat /\ n \in Nat /\ Len(end) \in Nat
  BY SeqIsFunction
<1>5. IsSeq(left) /\ Len(left) = k /\ left[k] = c
  <2>1. /\ IsSeq(left) /\ Len(left) = l + 1
        /\ \A i \in 1 .. l + 1 : left[i] = IF i <= l THEN label[i] ELSE column[i - l]
    BY <1>2, <1>3, SeqConcat
  <2>2. k \in 1 .. l + 1 /\ ~(k <= l) /\ k - l = 1
    BY <1>4
  <2>3. QED
    BY <1>2, <2>1, <2>2
<1>6. /\ IsSeq(right) /\ Len(right) = n + Len(end)
      /\ \A i \in 1 .. n + Len(end) : right[i] = IF i <= n THEN f[i] ELSE end[i - n]
  BY <1>1, SeqConcat
<1>7. /\ IsSeq(title) /\ Len(title) = Len(left) + Len(right)
      /\ \A i \in 1 .. Len(left) + Len(right) :
             title[i] = IF i <= Len(left) THEN left[i] ELSE right[i - Len(left)]
  BY <1>1, <1>5, <1>6, SeqConcat
<1>8. k \in Nat \ {0} /\ Len(title) = k + n + Len(end) /\ DOMAIN title = 1 .. Len(title)
  BY <1>4, <1>5, <1>6, <1>7, SeqIsFunction
<1>9. k \in DOMAIN title /\ title[k] = c
  <2>1. k \in 1 .. Len(left) + Len(right) /\ k <= Len(left)
    BY <1>4, <1>5, <1>6
  <2>2. QED
    BY <1>4, <1>5, <1>7, <1>8, <2>1
<1>10. \A i \in 1 .. n : title[k + 1 + i - 1] = f[i]
  <2> SUFFICES ASSUME NEW i \in 1 .. n PROVE title[k + 1 + i - 1] = f[i]
    OBVIOUS
  <2> DEFINE j == k + 1 + i - 1
  <2>1. j \in 1 .. Len(left) + Len(right) /\ ~(j <= Len(left)) /\ j - Len(left) = i
    BY <1>4, <1>5, <1>6
  <2>2. i \in 1 .. n + Len(end) /\ i <= n
    BY <1>4
  <2> HIDE DEF j
  <2>3. title[j] = right[i]
    BY <1>7, <2>1
  <2>4. right[i] = f[i]
    BY <1>6, <2>2
  <2>5. QED
    BY <2>3, <2>4 DEF j
<1>11. part = f
  <2>1. PICK from \in 1 .. Len(title) + 1 : from = k + 1
    BY <1>4, <1>8
  <2>2. PICK to \in from - 1 .. Len(title) : to = k + n
    BY <1>4, <1>8, <2>1
  <2>3. to - from + 1 = n /\ part = SubSeq(title, from, to)
    BY <1>4, <2>1, <2>2
  <2>4. IsSeq(title)
    BY <1>7
  <2>5. /\ IsSeq(part) /\ Len(part) = n
        /\ \A i \in 1 .. n : part[i] = title[from + i - 1]
    <3>1. /\ IsSeq(SubSeq(title, from, to)) /\ Len(SubSeq(title, from, to)) = to - from + 1
          /\ \A i \in 1 .. to - from + 1 : SubSeq(title, from, to)[i] = title[from + i - 1]
      BY ONLY <2>4, Section, from \in 1 .. Len(title) + 1, to \in from - 1 .. Len(title)
    <3> HIDE DEF part, n
    <3>2. QED
      BY <2>3, <3>1
  <2> HIDE DEF part, n
  <2>6. \A i \in 1 .. n : part[i] = f[i]
    BY <1>10, <2>5, <2>1
  <2>7. QED
    BY <2>5, <2>6, SeqSame DEF n
<1>12. QED
  BY <1>1, <1>9, <1>11 DEF StandsAfter

\* The figure of a meter stands in its row, behind the column break.
LEMMA FigureInRow ==
    ASSUME NEW lang, NEW sub, sub.snapshot # Nil, IsSnapshot(sub.snapshot), NEW at \in Int,
           NEW i \in 1 .. Len(sub.snapshot.meters),
           NEW f, f = figure(lang, sub.snapshot.meters[i]),
           NEW title, title = MenuRowTitle(MeterRows(lang, sub, at)[i])
    PROVE  StandsAfter(title, Column, f)
<1> DEFINE meters == sub.snapshot.meters
           m == meters[i]
           label == RowLabel(lang, meters, i, at)
           left == RowLeft(lang, meters, i, at)
           right == RowRight(lang, m)
           bar == meterBar(m)
           gap == <<Space>> \o bar
           end == IF bar = <<>> THEN <<>> ELSE gap
<1>1. AreMeters(meters) /\ IsMeter(m)
  BY SnapshotMeters DEF IsSnapshot
<1>2. title = left \o right
  BY RowTitleFacts
<1>3. IsSeq(f)
  BY <1>1, FigureFacts
<1>4. right = IF bar = <<>> THEN f ELSE f \o gap
  BY DEF RowRight
<1>5. IsSeq(bar)
  BY BarFacts
<1>6. IsSeq(gap)
  <2> HIDE DEF bar
  <2>1. QED
    BY <1>5, SeqOne, SeqConcat
<1>7. label = sanitizeMenuField(meterTitle(lang, meters, i, at))
  BY DEF RowLabel
<1>8. left = label \o <<Column>>
  BY DEF RowLeft
<1> HIDE DEF label, left, right, bar, gap
<1>9. IsSeq(end)
  BY <1>6, SeqEmpty
<1>10. right = f \o end
  <2>1. f \o <<>> = f
    BY <1>3, SeqUnit
  <2>2. QED
    BY <1>4, <2>1
<1>11. IsSeq(label)
  BY <1>1, <1>7, RowLabelFacts
<1> HIDE DEF end
<1>12. title = WithColumn(label, Column, f, end)
  BY <1>2, <1>8, <1>10 DEF WithColumn
<1>13. StandsAfter(WithColumn(label, Column, f, end), Column, f)
  BY <1>3, <1>9, <1>11, AfterColumn
<1>14. QED
  BY <1>12, <1>13

TooltipLine(lang, m) == MeterLabel(lang, m) \o <<Space>> \o figure(lang, m)
TooltipMeters(sub) == IF sub.snapshot = Nil THEN <<>> ELSE sub.snapshot.meters
TooltipLines(lang, meters) == [i \in DOMAIN meters |-> TooltipLine(lang, meters[i])]
Block(lang, meters, n) == Joined([i \in 1 .. n |-> TooltipLine(lang, meters[i])], <<Newline>>)

\* The lines of the tooltip are texts, one for each meter.
LEMMA TooltipLinesSaid ==
    ASSUME NEW lang, NEW meters, AreMeters(meters)
    PROVE  /\ AllSeqs(TooltipLines(lang, meters))
           /\ Len(TooltipLines(lang, meters)) = Len(meters) /\ Len(meters) \in Nat
           /\ \A n \in 0 .. Len(meters) :
                  First(TooltipLines(lang, meters), n) = Block(lang, meters, n)
<1> DEFINE lines == TooltipLines(lang, meters)
<1>1. IsSeq(meters) /\ Len(meters) \in Nat /\ DOMAIN meters = 1 .. Len(meters)
  BY SeqIsFunction DEF AreMeters
<1>2. lines = [i \in DOMAIN meters |-> lines[i]]
      /\ \A i \in 1 .. Len(meters) : lines[i] = TooltipLine(lang, meters[i])
  BY <1>1 DEF TooltipLines
<1> HIDE DEF lines
<1>3. IsSeq(lines) /\ Len(lines) = Len(meters)
  BY <1>1, <1>2, SeqMapped
<1>4. ASSUME NEW i \in 1 .. Len(meters) PROVE IsSeq(lines[i])
  <2> DEFINE name == MeterLabel(lang, meters[i])
             f == figure(lang, meters[i])
             space == <<Space>>
             head == name \o space
  <2>1. IsMeter(meters[i])
    BY DEF AreMeters
  <2>2. IsSeq(name) /\ IsSeq(f) /\ IsSeq(space)
    BY <2>1, LabelFacts, FigureFacts, SeqOne
  <2>3. lines[i] = head \o f
    BY <1>2 DEF TooltipLine
  <2> HIDE DEF name, f, space
  <2>4. IsSeq(head)
    BY <2>2, SeqConcat
  <2> HIDE DEF head
  <2>5. IsSeq(head \o f)
    BY <2>2, <2>4, SeqConcat
  <2>6. QED
    BY <2>3, <2>5
<1>5. AllSeqs(lines)
  BY <1>3, <1>4 DEF AllSeqs
<1>6. ASSUME NEW n \in 0 .. Len(meters) PROVE First(lines, n) = Block(lang, meters, n)
  <2>1. \A i \in 1 .. n : i \in 1 .. Len(meters)
    BY <1>1
  <2>2. \A i \in 1 .. n : lines[i] = TooltipLine(lang, meters[i])
    BY <1>2, <2>1
  <2>3. [i \in 1 .. n |-> lines[i]] = [i \in 1 .. n |-> TooltipLine(lang, meters[i])]
    BY <2>2
  <2>4. QED
    BY <2>3 DEF First, Block
<1>7. QED
  BY <1>1, <1>3, <1>5, <1>6 DEF lines

LEMMA MetersOfTooltip ==
    ASSUME NEW vendor, NEW sub, IsSub(sub, vendor)
    PROVE  AreMeters(TooltipMeters(sub))
<1>1. AreMeters(<<>>)
  BY SeqEmpty DEF AreMeters
<1>2. sub.snapshot # Nil => AreMeters(sub.snapshot.meters)
  BY DEF IsSub, IsSnapshot
<1>3. QED
  BY <1>1, <1>2 DEF TooltipMeters

Trailing(lang, sub, at, room) ==
    IF room < 2 THEN <<>> ELSE truncateRunes(tooltipStatus(lang, sub, at), room)

\* The tooltip is the blocks of its first lines and as much of the status as fits.
LEMMA TooltipParts ==
    ASSUME NEW lang, NEW vendor, NEW sub, IsSub(sub, vendor), NEW at \in Int,
           NEW meters, meters = TooltipMeters(sub), NEW tip, tip = Tooltip(lang, sub, at)
    PROVE  /\ Len(tip) <= MaxTooltip
           /\ \E n \in 0 .. Len(meters), room \in 1 .. MaxTooltip :
                 /\ tip = Joined(<<Block(lang, meters, n), Trailing(lang, sub, at, room)>>, <<Newline>>)
                 /\ n < Len(meters) => Len(Block(lang, meters, n + 1)) > MaxTooltip
                 /\ room < 2 => Len(Block(lang, meters, n)) + 3 > MaxTooltip
<1> DEFINE lines == TooltipLines(lang, meters)
           trailing == tooltipStatus(lang, sub, at)
<1>1. tip = joinWithinBudget(lines, trailing, MaxTooltip)
  <2>1. lines = [i \in DOMAIN meters |-> MeterLabel(lang, meters[i]) \o <<Space>> \o figure(lang, meters[i])]
    BY DEF TooltipLines, TooltipLine
  <2> HIDE DEF lines
  <2>2. QED
    BY <2>1 DEF Tooltip, TooltipMeters
<1>2. AreMeters(meters)
  BY MetersOfTooltip
<1>3. /\ AllSeqs(lines) /\ Len(lines) = Len(meters) /\ Len(meters) \in Nat
      /\ \A n \in 0 .. Len(meters) : First(lines, n) = Block(lang, meters, n)
  BY <1>2, TooltipLinesSaid
<1>4. IsSeq(trailing)
  BY StatusSaid DEF Said
<1>5. MaxTooltip \in Nat /\ MaxTooltip >= 2
  BY Widths
<1>6. \A room : Trailing(lang, sub, at, room)
                    = IF room < 2 THEN <<>> ELSE truncateRunes(trailing, room)
  BY DEF Trailing
<1> HIDE DEF lines, trailing
<1>7. Len(tip) <= MaxTooltip
  BY <1>1, <1>3, <1>4, <1>5, WithinBudget
<1>8. PICK n \in 0 .. Len(lines), room \in 1 .. MaxTooltip :
         /\ tip = Joined(<<First(lines, n), IF room < 2 THEN <<>>
                                            ELSE truncateRunes(trailing, room)>>, <<Newline>>)
         /\ n < Len(lines) => Len(First(lines, n + 1)) > MaxTooltip
         /\ room < 2 => Len(First(lines, n)) + 3 > MaxTooltip
  BY <1>1, <1>3, <1>4, <1>5, WithinBudget
<1>9. n \in 0 .. Len(meters) /\ First(lines, n) = Block(lang, meters, n)
      /\ (n < Len(meters) => First(lines, n + 1) = Block(lang, meters, n + 1))
  <2>1. n \in 0 .. Len(meters) /\ (n < Len(meters) => n + 1 \in 0 .. Len(meters))
    BY <1>3, <1>8
  <2>2. QED
    BY <1>3, <2>1
<1>10. tip = Joined(<<Block(lang, meters, n), Trailing(lang, sub, at, room)>>, <<Newline>>)
  BY <1>6, <1>8, <1>9
<1>11. /\ n < Len(meters) => Len(Block(lang, meters, n + 1)) > MaxTooltip
       /\ room < 2 => Len(Block(lang, meters, n)) + 3 > MaxTooltip
  BY <1>3, <1>8, <1>9
<1>12. QED
  BY <1>7, <1>8, <1>9, <1>10, <1>11

LEMMA TooltipReads == Readings /\ Displays => TooltipWhole
<1> SUFFICES ASSUME Readings, Displays PROVE TooltipWhole
  OBVIOUS
<1> DEFINE sub == drawn.subs[1]
           meters == ActiveMeters
           lang == cfg.lang
           at == drawn.at
           tip == menu.tooltip
           InRow(i) == \E k \in DOMAIN menu.meters[i].title :
                           /\ menu.meters[i].title[k] = Column
                           /\ SubSeq(menu.meters[i].title, k + 1,
                                     k + Len(figure(lang, meters[i]))) = figure(lang, meters[i])
<1>1. IsSub(sub, Vendors[1]) /\ at \in Int
  BY DEF Displays, AreSubs
<1>2. tip = Tooltip(lang, sub, at) /\ ReadRows(menu.meters, MeterRows(lang, sub, at))
  BY DEF Displays, Shows
<1>3. meters = TooltipMeters(sub)
  BY DEF ActiveMeters, TooltipMeters
<1>4. DOMAIN menu.meters = 1 .. MaxMeterRows /\ MaxMeterRows \in Nat
  BY MenuConstants DEF Displays, Widgets, AreItems
<1>5. Len(meters) \in Nat
  BY <1>1, <1>3, MetersOfTooltip, SeqIsFunction DEF AreMeters
<1>6. ASSUME NEW i \in 1 .. Len(meters), i <= MaxMeterRows
      PROVE  InRow(i)
  <2> DEFINE items == menu.meters
             f == figure(lang, meters[i])
             title == items[i].title
  <2>1. sub.snapshot # Nil /\ meters = sub.snapshot.meters
    <3>1. CASE sub.snapshot = Nil
      <4>1. meters = <<>> /\ Len(<<>>) = 0
        BY <1>3, <3>1, SeqEmpty DEF TooltipMeters
      <4>2. QED
        BY <4>1
    <3>2. QED
      BY <1>3, <3>1 DEF TooltipMeters
  <2>2. IsSnapshot(sub.snapshot)
    BY <1>1, <2>1 DEF IsSub
  <2>3. i \in DOMAIN items /\ i \in 1 .. Len(sub.snapshot.meters)
    BY <1>4, <1>5, <1>6, <2>1
  <2>4. ReadRows(items, MeterRows(lang, sub, at))
    BY <1>2
  <2> HIDE DEF sub, lang, at, items
  <2>5. title = MenuRowTitle(MeterRows(lang, sub, at)[i])
    BY <1>1, <2>1, <2>2, <2>3, <2>4, ItemOfMeter
  <2>6. f = figure(lang, sub.snapshot.meters[i])
    BY <2>1
  <2> HIDE DEF title, f, meters
  <2>7. StandsAfter(title, Column, f)
    BY <1>1, <2>1, <2>2, <2>3, <2>5, <2>6, FigureInRow
  <2>8. QED
    BY <2>7 DEF StandsAfter, title, f, items
<1>7. /\ Len(tip) <= MaxTooltip
      /\ \E n \in 0 .. Len(meters), room \in 1 .. MaxTooltip :
            /\ tip = Joined(<<Block(lang, meters, n), Trailing(lang, sub, at, room)>>, <<Newline>>)
            /\ n < Len(meters) => Len(Block(lang, meters, n + 1)) > MaxTooltip
            /\ room < 2 => Len(Block(lang, meters, n)) + 3 > MaxTooltip
  <2> HIDE DEF sub, meters, lang, at, tip
  <2>1. QED
    BY <1>1, <1>2, <1>3, TooltipParts
<1>8. \A n \in 0 .. Len(meters) : \A i \in 1 .. n : i <= MaxMeterRows => InRow(i)
  <2> HIDE DEF InRow, meters
  <2>1. \A n \in 0 .. Len(meters) : \A i \in 1 .. n : i \in 1 .. Len(meters)
    BY <1>5
  <2>2. QED
    BY <1>6, <2>1
<1> HIDE DEF InRow
<1>9. \E n \in 0 .. Len(meters), room \in 1 .. MaxTooltip :
         /\ tip = Joined(<<Block(lang, meters, n), Trailing(lang, sub, at, room)>>, <<Newline>>)
         /\ n < Len(meters) => Len(Block(lang, meters, n + 1)) > MaxTooltip
         /\ room < 2 => Len(Block(lang, meters, n)) + 3 > MaxTooltip
         /\ \A i \in 1 .. n : i <= MaxMeterRows => InRow(i)
  <2> HIDE DEF tip, meters, lang, at, sub
  <2>1. QED
    BY <1>7, <1>8
<1>10. QED
  BY <1>7, <1>9 DEF TooltipWhole, Block, Trailing, TooltipLine, InRow

\* The tooltip keeps to its budget and cuts nothing but the status: Tooltip and
\* joinWithinBudget, for texts of any length.
THEOREM TooltipAlwaysWhole == Spec => []TooltipWhole
  BY DisplaysAlways, TooltipReads, PTL

-------------------------------------------------------------------------------
(* The menu against the terminal *)

Kept(caption) == IF caption = <<>> THEN <<>> ELSE <<caption>>
Shown(row) == Kept(MenuRowTitle(row))
ShownRows(rows) == FlattenSeq([i \in DOMAIN rows |-> Shown(rows[i])])

LEMMA KeptIsSeq == \A caption : IsSeq(Kept(caption))
  BY SeqEmpty, SeqOne DEF Kept

\* A sequence of lists made item by item from a sequence.
LEMMA ListsMapped ==
    ASSUME NEW s, IsSeq(s), NEW ss, ss = [i \in DOMAIN s |-> ss[i]],
           \A i \in 1 .. Len(s) : IsSeq(ss[i])
    PROVE  AllSeqs(ss) /\ Len(ss) = Len(s)
<1>1. IsSeq(ss) /\ Len(ss) = Len(s)
  BY SeqMapped
<1>2. QED
  BY <1>1 DEF AllSeqs

LEMMA LegibleLists ==
    ASSUME NEW captions, IsSeq(captions),
           NEW ss, ss = [i \in DOMAIN captions |-> Kept(captions[i])]
    PROVE  /\ AllSeqs(ss) /\ Len(ss) = Len(captions)
           /\ \A i \in 1 .. Len(captions) : ss[i] = Kept(captions[i])
           /\ Legible(captions) = FlattenSeq(ss) /\ IsSeq(Legible(captions))
<1>1. DOMAIN captions = 1 .. Len(captions)
  BY SeqIsFunction
<1>2. \A i \in 1 .. Len(captions) : ss[i] = Kept(captions[i]) /\ IsSeq(ss[i])
  BY <1>1, KeptIsSeq
<1>3. Legible(captions) = FlattenSeq(ss)
  BY DEF Legible, Kept
<1>4. ss = [i \in DOMAIN captions |-> ss[i]]
  OBVIOUS
<1>5. AllSeqs(ss) /\ Len(ss) = Len(captions)
  BY <1>2, <1>4, ListsMapped
<1>6. QED
  BY <1>2, <1>3, <1>5, FlattenIsSeq

LEMMA LegibleNone == Legible(<<>>) = <<>>
<1> DEFINE none == <<>>
           ss == [i \in DOMAIN none |-> Kept(none[i])]
<1>1. IsSeq(none) /\ Len(none) = 0 /\ none = <<>>
  BY SeqEmpty
<1> HIDE DEF none
<1>2. AllSeqs(ss) /\ Len(ss) = 0 /\ Legible(none) = FlattenSeq(ss)
  BY <1>1, LegibleLists
<1> HIDE DEF ss
<1>3. ss = <<>>
  BY <1>2, SeqEmpty DEF AllSeqs
<1>4. QED
  BY <1>1, <1>2, <1>3, FlattenEmpty

LEMMA LegibleOne ==
    ASSUME NEW caption
    PROVE  Legible(<<caption>>) = Kept(caption)
<1> DEFINE one == <<caption>>
           ss == [i \in DOMAIN one |-> Kept(one[i])]
           x == Kept(caption)
<1>1. IsSeq(one) /\ Len(one) = 1 /\ one[1] = caption
  BY SeqOne
<1> HIDE DEF one
<1>2. AllSeqs(ss) /\ Len(ss) = 1 /\ ss[1] = Kept(one[1]) /\ Legible(one) = FlattenSeq(ss)
  BY <1>1, LegibleLists
<1> HIDE DEF ss
<1>3. IsSeq(<<x>>) /\ Len(<<x>>) = 1 /\ <<x>>[1] = x /\ IsSeq(x)
  BY SeqOne, KeptIsSeq
<1>4. ss[1] = x
  BY <1>1, <1>2
<1> HIDE DEF x
<1>5. ss = <<x>>
  <2>1. \A i \in 1 .. 1 : i = 1
    OBVIOUS
  <2>2. QED
    BY <1>2, <1>3, <1>4, <2>1, SeqSame DEF AllSeqs
<1>6. FlattenSeq(ss) = x
  BY <1>3, <1>5, FlattenOne
<1>7. QED
  BY <1>2, <1>6 DEF one, x

LEMMA LegibleConcat ==
    ASSUME NEW a, NEW b, IsSeq(a), IsSeq(b)
    PROVE  Legible(a \o b) = Legible(a) \o Legible(b)
<1> DEFINE ab == a \o b
           ss == [i \in DOMAIN a |-> Kept(a[i])]
           tt == [i \in DOMAIN b |-> Kept(b[i])]
           uu == [i \in DOMAIN ab |-> Kept(ab[i])]
           st == ss \o tt
<1>1. /\ IsSeq(ab) /\ Len(ab) = Len(a) + Len(b) /\ Len(a) \in Nat /\ Len(b) \in Nat
      /\ \A i \in 1 .. Len(a) + Len(b) : ab[i] = IF i <= Len(a) THEN a[i] ELSE b[i - Len(a)]
  BY SeqConcat, SeqIsFunction
<1> HIDE DEF ab
<1>2. /\ AllSeqs(ss) /\ Len(ss) = Len(a) /\ Legible(a) = FlattenSeq(ss)
      /\ \A i \in 1 .. Len(a) : ss[i] = Kept(a[i])
  BY LegibleLists
<1>3. /\ AllSeqs(tt) /\ Len(tt) = Len(b) /\ Legible(b) = FlattenSeq(tt)
      /\ \A i \in 1 .. Len(b) : tt[i] = Kept(b[i])
  BY LegibleLists
<1>4. /\ AllSeqs(uu) /\ Len(uu) = Len(ab) /\ Legible(ab) = FlattenSeq(uu)
      /\ \A i \in 1 .. Len(ab) : uu[i] = Kept(ab[i])
  BY <1>1, LegibleLists
<1> HIDE DEF ss, tt, uu
<1>5. /\ IsSeq(st) /\ Len(st) = Len(a) + Len(b)
      /\ \A i \in 1 .. Len(a) + Len(b) : st[i] = IF i <= Len(a) THEN ss[i] ELSE tt[i - Len(a)]
  BY <1>2, <1>3, SeqConcat DEF AllSeqs
<1>6. ASSUME NEW i \in 1 .. Len(a) + Len(b) PROVE uu[i] = st[i]
  <2>1. CASE i <= Len(a)
    <3>1. i \in 1 .. Len(a) /\ i \in 1 .. Len(ab)
      BY <1>1, <2>1
    <3>2. QED
      BY <1>1, <1>2, <1>4, <1>5, <2>1, <3>1
  <2>2. CASE ~(i <= Len(a))
    <3>1. i - Len(a) \in 1 .. Len(b) /\ i \in 1 .. Len(ab)
      BY <1>1, <2>2
    <3>2. QED
      BY <1>1, <1>3, <1>4, <1>5, <2>2, <3>1
  <2>3. QED
    BY <2>1, <2>2
<1>7. uu = st
  <2> HIDE DEF st
  <2>1. QED
    BY <1>1, <1>4, <1>5, <1>6, SeqSame DEF AllSeqs
<1>8. FlattenSeq(st) = FlattenSeq(ss) \o FlattenSeq(tt)
  BY <1>2, <1>3, FlattenConcat
<1>9. QED
  BY <1>2, <1>3, <1>4, <1>7, <1>8 DEF ab

\* What is legible of a text of texts is what is legible of each.
LEMMA LegibleFlatten ==
    ASSUME NEW ss, AllSeqs(ss), NEW tt, tt = [i \in DOMAIN ss |-> Legible(ss[i])]
    PROVE  Legible(FlattenSeq(ss)) = FlattenSeq(tt) /\ AllSeqs(tt) /\ Len(tt) = Len(ss)
<1>1. IsSeq(ss) /\ Len(ss) \in Nat /\ DOMAIN ss = 1 .. Len(ss)
  BY SeqIsFunction DEF AllSeqs
<1>2. \A s : IsSeq(s) => IsSeq(Legible(s))
  BY LegibleLists
<1>3. \A i \in 1 .. Len(ss) : tt[i] = Legible(ss[i]) /\ IsSeq(ss[i]) /\ IsSeq(tt[i])
  BY <1>1, <1>2 DEF AllSeqs
<1>4. AllSeqs(tt) /\ Len(tt) = Len(ss)
  <2>1. tt = [i \in DOMAIN ss |-> tt[i]]
    OBVIOUS
  <2>2. QED
    BY <1>1, <1>3, <2>1, ListsMapped
<1>5. PICK f : Partial(ss, f)
  BY PartialExists
<1> DEFINE g == [i \in 0 .. Len(ss) |-> Legible(f[i])]
<1>6. \A i \in 0 .. Len(ss) : g[i] = Legible(f[i]) /\ IsSeq(f[i]) /\ IsSeq(g[i])
  BY <1>2, <1>5 DEF Partial
<1>7. g[0] = <<>>
  <2>1. f[0] = <<>> /\ 0 \in 0 .. Len(ss)
    BY <1>1, <1>5 DEF Partial
  <2>2. QED
    BY <1>6, <2>1, LegibleNone
<1> HIDE DEF g
<1>8. ASSUME NEW i \in 0 .. Len(ss), NEW j \in 0 .. Len(ss), j = i + 1 PROVE g[j] = g[i] \o tt[j]
  <2> DEFINE x == f[i]
             y == ss[j]
  <2>1. j \in 1 .. Len(ss)
    BY <1>1, <1>8
  <2>2. f[j] = x \o y /\ IsSeq(x) /\ IsSeq(y)
    BY <1>3, <1>5, <1>6, <1>8, <2>1 DEF Partial
  <2>3. g[j] = Legible(f[j]) /\ g[i] = Legible(x) /\ tt[j] = Legible(y)
    BY <1>3, <1>6, <2>1
  <2> HIDE DEF x, y
  <2>4. Legible(x \o y) = Legible(x) \o Legible(y)
    BY <2>2, LegibleConcat
  <2>5. QED
    BY <2>2, <2>3, <2>4
<1>9. Partial(tt, g)
  BY <1>4, <1>6, <1>7, <1>8 DEF Partial
<1>10. FlattenSeq(tt) = g[Len(ss)] /\ FlattenSeq(ss) = f[Len(ss)]
  BY <1>4, <1>5, <1>9, FlattenIsPartial
<1>11. QED
  BY <1>1, <1>4, <1>6, <1>10

LEMMA NoRow == MenuRowTitle(Row(<<>>, <<>>, <<>>)) = <<>>
  BY TitleOfLabel, EmptyField

\* A row is printed as its caption, if it has one.
LEMMA RowPrinted ==
    ASSUME NEW row
    PROVE  IsSeq(writeRow(row)) /\ Legible(writeRow(row)) = Shown(row)
<1>1. CASE row = Row(<<>>, <<>>, <<>>)
  <2>1. writeRow(row) = <<>>
    BY <1>1 DEF writeRow
  <2>2. Shown(row) = <<>>
    BY <1>1, NoRow DEF Shown, Kept
  <2>3. QED
    BY <2>1, <2>2, LegibleNone, SeqEmpty
<1>2. CASE row # Row(<<>>, <<>>, <<>>)
  <2>1. writeRow(row) = <<MenuRowTitle(row)>>
    BY <1>2 DEF writeRow
  <2>2. QED
    BY <2>1, LegibleOne, SeqOne DEF Shown
<1>3. QED
  BY <1>1, <1>2

LEMMA RowsPrinted ==
    ASSUME NEW rows, IsSeq(rows)
    PROVE  /\ IsSeq(writeRows(rows)) /\ Legible(writeRows(rows)) = ShownRows(rows)
           /\ IsSeq(ShownRows(rows))
<1> DEFINE ss == [i \in DOMAIN rows |-> writeRow(rows[i])]
           tt == [i \in DOMAIN ss |-> Legible(ss[i])]
           uu == [i \in DOMAIN rows |-> Shown(rows[i])]
<1>1. DOMAIN rows = 1 .. Len(rows)
  BY SeqIsFunction
<1>2. \A i \in 1 .. Len(rows) : IsSeq(ss[i]) /\ Legible(ss[i]) = Shown(rows[i])
  BY <1>1, RowPrinted
<1>3. AllSeqs(ss) /\ Len(ss) = Len(rows)
  <2>1. ss = [i \in DOMAIN rows |-> ss[i]]
    OBVIOUS
  <2> HIDE DEF ss
  <2>2. QED
    BY <1>2, <2>1, ListsMapped
<1>4. tt = uu
  <2>1. DOMAIN ss = DOMAIN rows
    OBVIOUS
  <2> HIDE DEF ss
  <2>2. QED
    BY <1>1, <1>2, <2>1
<1>5. writeRows(rows) = FlattenSeq(ss) /\ ShownRows(rows) = FlattenSeq(uu)
  BY DEF writeRows, ShownRows
<1> HIDE DEF ss, uu
<1>6. Legible(FlattenSeq(ss)) = FlattenSeq(tt) /\ AllSeqs(tt)
  BY <1>3, LegibleFlatten
<1>7. QED
  BY <1>3, <1>4, <1>5, <1>6, FlattenIsSeq

\* What an item adds to the screen.
Seen(item) == IF item.shown THEN <<item.title>> ELSE <<>>

LEMMA SeenIsShown ==
    ASSUME NEW item, NEW row, Reads(item, row)
    PROVE  Seen(item) = Shown(row)
<1>1. CASE MenuRowTitle(row) = <<>>
  <2>1. item.shown = FALSE
    BY <1>1 DEF Reads
  <2>2. QED
    BY <1>1, <2>1 DEF Seen, Shown, Kept
<1>2. CASE MenuRowTitle(row) # <<>>
  <2>1. item.shown = TRUE /\ item.title = MenuRowTitle(row)
    BY <1>2 DEF Reads
  <2>2. QED
    BY <1>2, <2>1 DEF Seen, Shown, Kept
<1>3. QED
  BY <1>1, <1>2

LEMMA ShownIsSeq == \A row : IsSeq(Shown(row))
  BY KeptIsSeq DEF Shown

LEMMA VisibleOne ==
    ASSUME NEW item
    PROVE  Visible(<<item>>) = Seen(item)
<1> DEFINE one == <<item>>
           ss == [i \in DOMAIN one |-> Seen(one[i])]
<1>1. IsSeq(one) /\ Len(one) = 1 /\ one[1] = item
  BY SeqOne
<1>2. Visible(one) = FlattenSeq(ss)
  BY DEF Visible, Seen
<1>3. DOMAIN one = 1 .. 1
  BY <1>1, SeqIsFunction
<1> HIDE DEF one
<1>4. ss = [i \in 1 .. 1 |-> ss[i]] /\ ss[1] = Seen(item)
  BY <1>1, <1>3
<1> HIDE DEF ss
<1>5. IsSeq(ss) /\ Len(ss) = 1
  BY <1>4, FunctionIsSeq
<1>6. IsSeq(Seen(item))
  BY SeqEmpty, SeqOne DEF Seen
<1>7. ss = <<Seen(item)>>
  <2> DEFINE x == Seen(item)
  <2>1. IsSeq(<<x>>) /\ Len(<<x>>) = 1 /\ <<x>>[1] = x
    BY SeqOne
  <2>2. ss[1] = x
    BY <1>4
  <2>3. \A i \in 1 .. 1 : i = 1
    OBVIOUS
  <2> HIDE DEF x
  <2>4. ss = <<x>>
    BY <1>5, <2>1, <2>2, <2>3, SeqSame
  <2>5. QED
    BY <2>4 DEF x
<1>8. QED
  BY <1>2, <1>6, <1>7, FlattenOne DEF one

\* Items that read as rows put the rows on the screen, the items past them nothing.
LEMMA VisibleRows ==
    ASSUME NEW n \in Nat, NEW items, AreItems(items, n), NEW rows, IsSeq(rows),
           Len(rows) <= n, ReadRows(items, rows)
    PROVE  Visible(items) = ShownRows(rows)
<1> DEFINE k == Len(rows)
           ss == [i \in DOMAIN items |-> Seen(items[i])]
           tt == [i \in DOMAIN rows |-> Shown(rows[i])]
           rest == n - k
           uu == [i \in 1 .. rest |-> <<>>]
           tu == tt \o uu
<1>1. k \in Nat /\ DOMAIN rows = 1 .. k /\ DOMAIN items = 1 .. n /\ rest \in Nat
  BY SeqIsFunction DEF AreItems
<1>2. Visible(items) = FlattenSeq(ss) /\ ShownRows(rows) = FlattenSeq(tt)
  BY DEF Visible, Seen, ShownRows
<1>3. ss = [i \in 1 .. n |-> ss[i]] /\ \A i \in 1 .. n : ss[i] = Seen(items[i])
  BY <1>1
<1>4. tt = [i \in 1 .. k |-> tt[i]] /\ \A i \in 1 .. k : tt[i] = Shown(rows[i])
  BY <1>1
<1>5. uu = [i \in 1 .. rest |-> uu[i]] /\ \A i \in 1 .. rest : uu[i] = <<>>
  OBVIOUS
<1>6. \A i \in 1 .. n : IF i > k THEN items[i].shown = FALSE ELSE Reads(items[i], rows[i])
  BY <1>1 DEF ReadRows
<1> HIDE DEF k, ss, tt, uu
<1>7. IsSeq(ss) /\ Len(ss) = n
  BY <1>3, FunctionIsSeq
<1>8. IsSeq(tt) /\ Len(tt) = k
  BY <1>1, <1>4, FunctionIsSeq
<1>9. IsSeq(uu) /\ Len(uu) = rest
  BY <1>1, <1>5, FunctionIsSeq
<1> HIDE DEF rest
<1>10. /\ IsSeq(tu) /\ Len(tu) = k + rest
       /\ \A i \in 1 .. k + rest : tu[i] = IF i <= k THEN tt[i] ELSE uu[i - k]
  BY <1>8, <1>9, SeqConcat
<1>11. k + rest = n
  BY <1>1 DEF rest
<1>12. ASSUME NEW i \in 1 .. n PROVE ss[i] = tu[i]
  <2>1. CASE i <= k
    <3>1. i \in 1 .. k /\ ~(i > k)
      BY <1>1, <2>1
    <3>2. Reads(items[i], rows[i])
      BY <1>6, <3>1
    <3>3. Seen(items[i]) = Shown(rows[i])
      BY <3>2, SeenIsShown
    <3>4. QED
      BY <1>3, <1>4, <1>10, <1>11, <2>1, <3>1, <3>3
  <2>2. CASE ~(i <= k)
    <3>1. i - k \in 1 .. rest /\ i > k
      BY <1>1, <1>11, <2>2
    <3>2. items[i].shown = FALSE
      BY <1>6, <3>1
    <3>3. Seen(items[i]) = <<>>
      BY <3>2 DEF Seen
    <3>4. QED
      BY <1>3, <1>5, <1>10, <1>11, <2>2, <3>1, <3>3
  <2>3. QED
    BY <2>1, <2>2
<1>13. ss = tu
  <2> HIDE DEF tu
  <2>1. QED
    BY <1>7, <1>10, <1>11, <1>12, SeqSame
<1>14. AllSeqs(tt) /\ AllSeqs(uu)
  <2>1. \A i \in 1 .. k : IsSeq(tt[i])
    BY <1>4, ShownIsSeq
  <2>2. \A i \in 1 .. rest : IsSeq(uu[i])
    BY <1>5, SeqEmpty
  <2>3. QED
    BY <1>8, <1>9, <2>1, <2>2 DEF AllSeqs
<1>15. FlattenSeq(tu) = FlattenSeq(tt) \o FlattenSeq(uu)
  BY <1>14, FlattenConcat
<1>16. FlattenSeq(uu) = <<>>
  BY <1>5, <1>9, FlattenNone
<1>17. FlattenSeq(tt) \o <<>> = FlattenSeq(tt)
  BY <1>14, FlattenIsSeq, SeqUnit
<1>18. QED
  BY <1>2, <1>13, <1>15, <1>16, <1>17

-------------------------------------------------------------------------------
(* What the fixed number of rows leaves *)

Fewer(n) == Min({n, MaxMeterRows})

LEMMA FewerRows ==
    ASSUME NEW n \in Nat
    PROVE  /\ Fewer(n) \in 0 .. n /\ Fewer(n) <= MaxMeterRows
           /\ Fewer(n) = n \/ Fewer(n) = MaxMeterRows
<1> DEFINE a == IF n <= MaxMeterRows THEN n ELSE MaxMeterRows
<1>1. MaxMeterRows \in Nat
  BY MenuConstants
<1>2. a \in {n, MaxMeterRows} /\ \A y \in {n, MaxMeterRows} : a <= y
  BY <1>1
<1>3. Fewer(n) = a
  <2>1. \A z \in {n, MaxMeterRows} : (\A y \in {n, MaxMeterRows} : z <= y) => z = a
    BY <1>1, <1>2
  <2>2. QED
    BY <1>2, <2>1 DEF Min, Fewer
<1>4. QED
  BY <1>1, <1>3

\* The cut reading has the first meters, and everything else of the whole one.
LEMMA CappedFacts ==
    ASSUME NEW vendor, NEW sub, IsSub(sub, vendor), sub.snapshot # Nil,
           NEW x, x = Capped(sub)
    PROVE  /\ x.vendor = sub.vendor /\ x.updatedAt = sub.updatedAt
           /\ x.lastError = sub.lastError /\ x.nextPollAt = sub.nextPollAt
           /\ x.account = sub.account /\ x.preferences = sub.preferences
           /\ x.snapshot # Nil /\ x.snapshot.plan = sub.snapshot.plan
           /\ IsSeq(x.snapshot.meters)
           /\ Len(x.snapshot.meters) = Fewer(Len(sub.snapshot.meters))
           /\ \A i \in 1 .. Fewer(Len(sub.snapshot.meters)) :
                  x.snapshot.meters[i] = sub.snapshot.meters[i]
<1> DEFINE s == sub.snapshot
           k == Fewer(Len(s.meters))
           first == SubSeq(s.meters, 1, k)
           cut == [s EXCEPT !.meters = first]
<1>1. IsSnapshot(s)
  BY DEF IsSub
<1>2. s \in Snapshots /\ IsSeq(s.meters) /\ Len(s.meters) \in Nat
  BY <1>1, SnapshotMeters DEF IsSnapshot
<1>3. k \in 0 .. Len(s.meters)
  BY <1>2, FewerRows
<1>4. s.meters \in Seq(Meter)
  BY <1>2 DEF Snapshots
<1>5. first \in Seq(Meter) /\ Len(first) = k /\ \A i \in 1 .. k : first[i] = s.meters[i]
  <2> DEFINE t == s.meters
             n == Fewer(Len(t))
  <2>1. t \in Seq(Meter) /\ n \in 0 .. Len(t) /\ Len(t) \in Nat
    BY <1>2, <1>3, <1>4
  <2> HIDE DEF t, n
  <2>2. 1 \in 1 .. Len(t) + 1 /\ n \in 1 - 1 .. Len(t)
    BY <2>1
  <2>3. /\ SubSeq(t, 1, n) \in Seq(Meter)
        /\ Len(SubSeq(t, 1, n)) = IF 1 <= n THEN n - 1 + 1 ELSE 0
        /\ \A i \in 1 .. n - 1 + 1 : SubSeq(t, 1, n)[i] = t[1 + i - 1]
    BY <2>1, <2>2, SubSeqProperties
  <2>4. (IF 1 <= n THEN n - 1 + 1 ELSE 0) = n /\ n - 1 + 1 = n
        /\ \A i \in 1 .. n : 1 + i - 1 = i
    BY <2>1
  <2>5. SubSeq(t, 1, n) \in Seq(Meter) /\ Len(SubSeq(t, 1, n)) = n
        /\ \A i \in 1 .. n : SubSeq(t, 1, n)[i] = t[i]
    BY <2>3, <2>4
  <2>6. QED
    BY <2>5 DEF t, n
<1>6. x = [sub EXCEPT !.snapshot = cut]
  BY DEF Capped, Fewer
<1>7. /\ x.vendor = sub.vendor /\ x.updatedAt = sub.updatedAt
      /\ x.lastError = sub.lastError /\ x.nextPollAt = sub.nextPollAt
      /\ x.account = sub.account /\ x.preferences = sub.preferences
      /\ x.snapshot = cut
  <2> HIDE DEF cut
  <2>1. DOMAIN sub = {"vendor", "snapshot", "updatedAt", "lastError", "nextPollAt", "account",
                      "preferences"}
    BY DEF IsSub
  <2>2. QED
    BY <1>6, <2>1
<1> HIDE DEF first, k
<1>8. cut \in Snapshots /\ cut.meters = first /\ cut.plan = s.plan
  BY <1>2, <1>5 DEF Snapshots
<1> HIDE DEF cut
<1>9. cut # Nil
  BY <1>8, MenuInputs
<1>10. IsSeq(first)
  BY <1>5, SeqFrom
<1>11. QED
  BY <1>5, <1>7, <1>8, <1>9, <1>10 DEF k

\* Nothing but the rows of the meters depends on how many there are.
LEMMA CappedRows ==
    ASSUME NEW vendor, NEW sub, IsSub(sub, vendor), NEW lang, NEW at, NEW x, x = Capped(sub)
    PROVE  /\ ProviderListRow(x) = ProviderListRow(sub)
           /\ ProviderRow(x) = ProviderRow(sub)
           /\ PreferencesRow(lang, x) = PreferencesRow(lang, sub)
           /\ AccountRows(lang, x) = AccountRows(lang, sub)
           /\ StatusText(lang, x, at) = StatusText(lang, sub, at)
<1>1. CASE sub.snapshot = Nil
  BY <1>1 DEF Capped
<1>2. CASE sub.snapshot # Nil
  <2>1. /\ x.vendor = sub.vendor /\ x.updatedAt = sub.updatedAt
        /\ x.lastError = sub.lastError /\ x.nextPollAt = sub.nextPollAt
        /\ x.account = sub.account /\ x.preferences = sub.preferences
        /\ x.snapshot # Nil /\ x.snapshot.plan = sub.snapshot.plan
    BY <1>2, CappedFacts
  <2>2. providerVendor(x) = providerVendor(sub) /\ providerPlan(x) = providerPlan(sub)
    BY <1>2, <2>1 DEF providerVendor, providerPlan
  <2>3. ProviderListRow(x) = ProviderListRow(sub) /\ ProviderRow(x) = ProviderRow(sub)
    BY <2>2 DEF ProviderListRow, ProviderRow
  <2>4. PreferencesRow(lang, x) = PreferencesRow(lang, sub)
    BY <2>1 DEF PreferencesRow
  <2>5. AccountRows(lang, x) = AccountRows(lang, sub)
    BY <2>1 DEF AccountRows
  <2>6. StatusText(lang, x, at) = StatusText(lang, sub, at)
    BY <1>2, <2>1 DEF StatusText
  <2>7. QED
    BY <2>3, <2>4, <2>5, <2>6
<1>3. QED
  BY <1>1, <1>2

\* The rows of the cut reading are the first rows of the whole one: what a row says
\* depends on its meter and the one above.
LEMMA CappedMeterRows ==
    ASSUME NEW vendor, NEW sub, IsSub(sub, vendor), NEW lang, NEW at, NEW x, x = Capped(sub)
    PROVE  /\ IsSeq(MeterRows(lang, sub, at)) /\ IsSeq(MeterRows(lang, x, at))
           /\ Len(MeterRows(lang, x, at)) = Fewer(Len(MeterRows(lang, sub, at)))
           /\ \A i \in 1 .. Fewer(Len(MeterRows(lang, sub, at))) :
                  MeterRows(lang, x, at)[i] = MeterRows(lang, sub, at)[i]
<1>1. CASE sub.snapshot = Nil
  <2>1. x = sub /\ MeterRows(lang, sub, at) = <<>>
    BY <1>1 DEF Capped, MeterRows
  <2>2. Fewer(0) = 0 /\ \A i \in 1 .. 0 : FALSE
    BY FewerRows
  <2>3. QED
    BY <2>1, <2>2, SeqEmpty
<1>2. CASE sub.snapshot # Nil
  <2> DEFINE ms == sub.snapshot.meters
             xs == x.snapshot.meters
             k == Fewer(Len(ms))
             rows == MeterRows(lang, sub, at)
             cut == MeterRows(lang, x, at)
  <2>1. IsSnapshot(sub.snapshot)
    BY <1>2 DEF IsSub
  <2>2. IsSeq(ms) /\ Len(ms) \in Nat /\ DOMAIN ms = 1 .. Len(ms)
    BY <2>1, SnapshotMeters
  <2>3. k \in 0 .. Len(ms)
    BY <2>2, FewerRows
  <2>4. x.snapshot # Nil /\ IsSeq(xs) /\ Len(xs) = k /\ \A i \in 1 .. k : xs[i] = ms[i]
    BY <1>2, CappedFacts
  <2>5. DOMAIN xs = 1 .. k
    BY <2>4, SeqIsFunction
  <2>6. /\ rows = [i \in DOMAIN ms |-> Row(meterTitle(lang, ms, i, at), figure(lang, ms[i]),
                                           meterBar(ms[i]))]
        /\ cut = [i \in DOMAIN xs |-> Row(meterTitle(lang, xs, i, at), figure(lang, xs[i]),
                                          meterBar(xs[i]))]
    BY <1>2, <2>4 DEF MeterRows
  <2> HIDE DEF ms, xs, k, rows, cut
  <2>7. rows = [i \in DOMAIN ms |-> rows[i]] /\ cut = [i \in DOMAIN xs |-> cut[i]]
    BY <2>6
  <2>8. IsSeq(rows) /\ Len(rows) = Len(ms)
    BY <2>2, <2>7, SeqMapped
  <2>9. IsSeq(cut) /\ Len(cut) = k
    BY <2>4, <2>7, SeqMapped
  <2>10. ASSUME NEW i \in 1 .. k PROVE cut[i] = rows[i]
    <3>1. i \in 1 .. Len(ms) /\ xs[i] = ms[i]
      BY <2>2, <2>3, <2>4
    <3>2. i > 1 => xs[i - 1] = ms[i - 1]
      <4>1. i > 1 => i - 1 \in 1 .. k
        BY <2>2, <2>3
      <4>2. QED
        BY <2>4, <4>1
    <3>3. statesReset(xs, i) <=> statesReset(ms, i)
      BY <3>1, <3>2 DEF statesReset
    <3>4. meterTitle(lang, xs, i, at) = meterTitle(lang, ms, i, at)
      BY <3>1, <3>3 DEF meterTitle
    <3>5. /\ cut[i] = Row(meterTitle(lang, xs, i, at), figure(lang, xs[i]), meterBar(xs[i]))
          /\ rows[i] = Row(meterTitle(lang, ms, i, at), figure(lang, ms[i]), meterBar(ms[i]))
      BY <2>2, <2>5, <2>6, <3>1
    <3>6. QED
      BY <3>1, <3>4, <3>5
  <2>11. QED
    BY <2>8, <2>9, <2>10 DEF rows, cut, k
<1>3. QED
  BY <1>1, <1>2

\* So the items of the meters, which read as the rows of the whole reading, put those
\* of the cut one on the screen.
LEMMA VisibleMeters ==
    ASSUME NEW vendor, NEW sub, IsSub(sub, vendor), NEW lang, NEW at, NEW x, x = Capped(sub),
           NEW items, AreItems(items, MaxMeterRows), ReadRows(items, MeterRows(lang, sub, at))
    PROVE  Visible(items) = ShownRows(MeterRows(lang, x, at))
<1> DEFINE rows == MeterRows(lang, sub, at)
           cut == MeterRows(lang, x, at)
           k == Fewer(Len(rows))
<1>1. /\ IsSeq(rows) /\ IsSeq(cut) /\ Len(cut) = k
      /\ \A i \in 1 .. k : cut[i] = rows[i]
  BY CappedMeterRows
<1> HIDE DEF rows, cut
<1>2. Len(rows) \in Nat /\ MaxMeterRows \in Nat
  BY <1>1, SeqIsFunction, MenuConstants
<1>3. k \in 0 .. Len(rows) /\ k <= MaxMeterRows /\ (k = Len(rows) \/ k = MaxMeterRows)
  BY <1>2, FewerRows
<1> HIDE DEF k
<1>4. DOMAIN items = 1 .. MaxMeterRows
  BY DEF AreItems
<1>5. \A i \in 1 .. MaxMeterRows :
          IF i > Len(rows) THEN items[i].shown = FALSE ELSE Reads(items[i], rows[i])
  BY <1>4 DEF ReadRows, rows
<1>6. \A i \in DOMAIN items :
          IF i > Len(cut) THEN items[i].shown = FALSE ELSE Reads(items[i], cut[i])
  <2> TAKE i \in DOMAIN items
  <2>1. i \in 1 .. MaxMeterRows
    BY <1>4
  <2>2. CASE i > Len(cut)
    <3>1. i > Len(rows)
      BY <1>1, <1>2, <1>3, <2>1, <2>2
    <3>2. QED
      BY <1>5, <2>1, <2>2, <3>1
  <2>3. CASE ~(i > Len(cut))
    <3>1. i \in 1 .. k /\ ~(i > Len(rows))
      BY <1>1, <1>2, <1>3, <2>1, <2>3
    <3>2. Reads(items[i], rows[i]) /\ cut[i] = rows[i]
      BY <1>1, <1>5, <2>1, <3>1
    <3>3. QED
      BY <2>3, <3>2
  <2>4. QED
    BY <2>2, <2>3
<1>7. ReadRows(items, cut)
  BY <1>6 DEF ReadRows
<1>8. Len(cut) <= MaxMeterRows
  BY <1>1, <1>3
<1>9. QED
  BY <1>1, <1>2, <1>7, <1>8, VisibleRows DEF cut

-------------------------------------------------------------------------------
(* Titles that are never empty *)

LEMMA TitleSaid ==
    ASSUME NEW label, NEW detail, NEW bar, IsSeq(detail), IsSeq(bar),
           Said(sanitizeMenuField(label))
    PROVE  Said(MenuRowTitle(Row(label, detail, bar)))
<1> DEFINE row == Row(label, detail, bar)
           l == sanitizeMenuField(label)
           d == sanitizeMenuField(detail)
           b == sanitizeMenuField(bar)
           separator == <<Space>>
           right == Joined(<<d, b>>, separator)
           column == <<Column>>
           start == l \o column
           title == MenuRowTitle(row)
<1>1. title = l \/ title = start \o right
  BY DEF MenuRowTitle, Row
<1>2. IsSeq(d) /\ IsSeq(b) /\ IsSeq(separator) /\ IsSeq(column)
  BY FieldIsSeq, SeqOne
<1>3. IsSeq(l) /\ l # <<>>
  BY DEF Said
<1> HIDE DEF row, title, l, d, b, separator, column
<1>4. IsSeq(right)
  <2>1. PICK t : t = right
    OBVIOUS
  <2>2. IsSeq(t)
    BY <1>2, <2>1, JoinedTwo
  <2>3. QED
    BY <2>1, <2>2
<1> HIDE DEF right
<1>5. IsSeq(start) /\ Len(start) = Len(l) + Len(column)
  BY <1>2, <1>3, SeqConcat
<1> HIDE DEF start
<1>6. IsSeq(start \o right) /\ Len(start \o right) = Len(start) + Len(right)
  BY <1>4, <1>5, SeqConcat
<1>7. Len(l) \in Nat \ {0} /\ Len(column) \in Nat /\ Len(right) \in Nat
  BY <1>2, <1>3, <1>4, SeqIsFunction, LenZero
<1>8. start \o right # <<>>
  <2>1. Len(start \o right) # 0
    BY <1>5, <1>6, <1>7
  <2>2. QED
    BY <1>6, <2>1, LenZero
<1>9. QED
  BY <1>1, <1>3, <1>6, <1>8 DEF Said, title, row

LEMMA CapitalIsSeq ==
    ASSUME NEW text, IsSeq(text)
    PROVE  IsSeq(capitalizeFirst(text))
<1> DEFINE head == << <<"capital", text[1]>> >>
           rest == Tail(text)
<1>1. capitalizeFirst(text) = text \/ (text # <<>> /\ capitalizeFirst(text) = head \o rest)
  BY DEF capitalizeFirst
<1>2. IsSeq(head)
  BY SeqOne
<1>3. text # <<>> => IsSeq(rest)
  <2>1. text \in Seq(Range(text))
    BY DEF IsSeq
  <2>2. text # <<>> => rest \in Seq(Range(text))
    BY <2>1, HeadTailProperties
  <2>3. QED
    BY <2>2, SeqFrom
<1> HIDE DEF head, rest
<1>4. text # <<>> => IsSeq(head \o rest)
  BY <1>2, <1>3, SeqConcat
<1>5. QED
  BY <1>1, <1>4

LEMMA PlanIsSeq ==
    ASSUME NEW vendor \in {"anthropic", "openai"}, NEW sub, IsSub(sub, vendor)
    PROVE  IsSeq(providerPlan(sub))
<1>1. CASE sub.snapshot = Nil
  BY <1>1, SeqEmpty DEF providerPlan
<1>2. CASE sub.snapshot # Nil
  <2> DEFINE a == Product[sub.vendor]
             b == capitalizeFirst(sub.snapshot.plan)
             separator == <<Space>>
  <2>1. IsSeq(a)
    <3>1. sub.vendor = vendor
      BY DEF IsSub
    <3>2. a = <<Letter("Claude")>> \/ a = <<Letter("ChatGPT")>>
      BY <3>1 DEF Product
    <3>3. QED
      BY <3>2, SeqOne
  <2>2. IsSeq(b)
    <3>1. IsSeq(sub.snapshot.plan)
      BY <1>2 DEF IsSub, IsSnapshot, IsWord
    <3>2. QED
      BY <3>1, CapitalIsSeq
  <2>3. IsSeq(separator)
    BY SeqOne
  <2>4. providerPlan(sub) = Joined(<<a, b>>, separator)
    BY <1>2 DEF providerPlan
  <2> HIDE DEF a, b, separator
  <2>5. PICK t : t = Joined(<<a, b>>, separator)
    OBVIOUS
  <2>6. IsSeq(t)
    BY <2>1, <2>2, <2>3, <2>5, JoinedTwo
  <2>7. QED
    BY <2>4, <2>5, <2>6
<1>3. QED
  BY <1>1, <1>2

LEMMA ProviderSaid ==
    ASSUME NEW vendor \in {"anthropic", "openai"}, NEW sub, IsSub(sub, vendor)
    PROVE  Said(MenuRowTitle(ProviderRow(sub)))
<1>1. sub.vendor \in {"anthropic", "openai"}
  BY DEF IsSub
<1>2. providerVendor(sub) = << <<"capital", Letter(sub.vendor)>> >>
  BY <1>1, VendorNamed
<1>3. <<"capital", Letter(sub.vendor)>> \notin {Marker, Control, Format}
  BY OtherCharacters
<1>4. sanitizeMenuField(providerVendor(sub)) = << <<"capital", Letter(sub.vendor)>> >>
  BY <1>2, <1>3, OneCharacterField
<1>5. Said(sanitizeMenuField(providerVendor(sub)))
  BY <1>4, SeqOne DEF Said
<1>6. IsSeq(providerPlan(sub)) /\ IsSeq(<<>>)
  BY PlanIsSeq, SeqEmpty
<1>7. QED
  BY <1>5, <1>6, TitleSaid DEF ProviderRow

\* A fixed caption with a value.
LEMMA SettingSaid ==
    ASSUME NEW lang, NEW key, NEW value, IsSeq(value)
    PROVE  Said(MenuRowTitle(Row(Text(lang, key, <<>>), value, <<>>)))
<1> DEFINE c == <<"text", lang, key>>
<1>1. Text(lang, key, <<>>) = <<c>>
  BY TextNone
<1>2. c \notin {Marker, Control, Format}
  BY OtherCharacters
<1> HIDE DEF c
<1>3. Said(sanitizeMenuField(Text(lang, key, <<>>)))
  BY <1>1, <1>2, OneCharacterField, SeqOne DEF Said
<1>4. QED
  BY <1>3, SeqEmpty, TitleSaid

LEMMA IntervalIsSeq ==
    ASSUME NEW lang, NEW interval
    PROVE  IsSeq(IntervalLabel(lang, interval))
<1> DEFINE hours == << <<"number", interval \div Hour>> >>
           minutes == << <<"number", interval \div Minute>> >>
           other == << <<"duration", interval>> >>
<1>1. IsSeq(hours) /\ IsSeq(minutes) /\ IsSeq(other)
  BY SeqOne
<1>2. \/ IntervalLabel(lang, interval) = Text(lang, "IntervalHours", <<hours>>)
      \/ IntervalLabel(lang, interval) = Text(lang, "IntervalMinutes", <<minutes>>)
      \/ IntervalLabel(lang, interval) = other
  BY DEF IntervalLabel
<1> HIDE DEF hours, minutes, other
<1>3. /\ Said(Text(lang, "IntervalHours", <<hours>>))
      /\ Said(Text(lang, "IntervalMinutes", <<minutes>>))
  BY <1>1, TextSaid
<1>4. QED
  BY <1>1, <1>2, <1>3 DEF Said

LEMMA SettingsSaid ==
    ASSUME NEW c
    PROVE  /\ IsSeq(SettingsRows(c)) /\ Len(SettingsRows(c)) = 5
           /\ \A i \in 1 .. 5 : Said(MenuRowTitle(SettingsRows(c)[i]))
<1> DEFINE warn == percentText(c.warn)
           crit == percentText(c.crit)
           bullet == <<Letter("bullet")>>
           start == warn \o bullet
           both == start \o crit
           interval == IntervalLabel(c.lang, c.interval)
           native == << <<"native", c.lang>> >>
           Setting(key, value) == Row(Text(c.lang, key, <<>>), value, <<>>)
           r1 == Setting("MenuUsageAlerts", both)
           r2 == Setting("MenuWarnThreshold", warn)
           r3 == Setting("MenuCriticalThreshold", crit)
           r4 == Setting("MenuInterval", interval)
           r5 == Setting("MenuLanguage", native)
<1>1. SettingsRows(c) = <<r1, r2, r3, r4, r5>>
  BY DEF SettingsRows
<1>2. IsSeq(warn) /\ IsSeq(crit) /\ IsSeq(bullet) /\ IsSeq(native) /\ IsSeq(interval)
  BY SeqOne, IntervalIsSeq DEF percentText
<1> HIDE DEF warn, crit, bullet, native, interval
<1>3. IsSeq(start)
  BY <1>2, SeqConcat
<1> HIDE DEF start
<1>4. IsSeq(both)
  BY <1>2, <1>3, SeqConcat
<1> HIDE DEF both
<1>5. /\ Said(MenuRowTitle(r1)) /\ Said(MenuRowTitle(r2)) /\ Said(MenuRowTitle(r3))
      /\ Said(MenuRowTitle(r4)) /\ Said(MenuRowTitle(r5))
  BY <1>2, <1>4, SettingSaid
<1> HIDE DEF r1, r2, r3, r4, r5
<1> DEFINE t == <<r1, r2, r3, r4, r5>>
<1>6. t \in Seq({r1, r2, r3, r4, r5}) /\ Len(t) = 5
      /\ t[1] = r1 /\ t[2] = r2 /\ t[3] = r3 /\ t[4] = r4 /\ t[5] = r5
  OBVIOUS
<1> HIDE DEF t
<1>7. IsSeq(t)
  BY <1>6, SeqFrom
<1>8. \A i \in 1 .. 5 : i = 1 \/ i = 2 \/ i = 3 \/ i = 4 \/ i = 5
  OBVIOUS
<1>9. \A i \in 1 .. 5 : Said(MenuRowTitle(t[i]))
  BY <1>5, <1>6, <1>8
<1>10. SettingsRows(c) = t
  BY <1>1 DEF t
<1>11. QED
  BY <1>6, <1>7, <1>9, <1>10

\* The captions of the settings are their rows, none of them empty.
LEMMA SettingsShown ==
    ASSUME NEW c, NEW titles, titles = [i \in 1 .. 5 |-> MenuRowTitle(SettingsRows(c)[i])]
    PROVE  titles = ShownRows(SettingsRows(c)) /\ IsSeq(titles)
<1> DEFINE rows == SettingsRows(c)
           ss == [i \in DOMAIN rows |-> Shown(rows[i])]
<1>1. IsSeq(rows) /\ Len(rows) = 5 /\ \A i \in 1 .. 5 : Said(MenuRowTitle(rows[i]))
  BY SettingsSaid
<1>2. titles = [i \in 1 .. 5 |-> titles[i]] /\ \A i \in 1 .. 5 : titles[i] = MenuRowTitle(rows[i])
  OBVIOUS
<1>3. ShownRows(rows) = FlattenSeq(ss)
  BY DEF ShownRows
<1> HIDE DEF rows
<1>4. DOMAIN rows = 1 .. 5
  BY <1>1, SeqIsFunction
<1>5. ss = [i \in DOMAIN rows |-> ss[i]] /\ \A i \in 1 .. 5 : ss[i] = Shown(rows[i])
  BY <1>4
<1> HIDE DEF ss
<1>6. IsSeq(ss) /\ Len(ss) = 5
  BY <1>1, <1>5, SeqMapped
<1>7. IsSeq(titles) /\ Len(titles) = 5
  BY <1>2, FunctionIsSeq
<1>8. \A i \in 1 .. 5 : ss[i] = <<titles[i]>>
  BY <1>1, <1>2, <1>5 DEF Shown, Kept, Said
<1>9. FlattenSeq(ss) = titles
  BY <1>6, <1>7, <1>8, FlattenSingles
<1>10. QED
  BY <1>3, <1>7, <1>9 DEF rows

LEMMA AccountsAreFew ==
    ASSUME NEW lang, NEW sub
    PROVE  IsSeq(AccountRows(lang, sub)) /\ Len(AccountRows(lang, sub)) <= 3
<1> DEFINE stated(key, value) == IF value = <<>> THEN <<>>
                                 ELSE <<Row(Text(lang, key, <<>>), value, <<>>)>>
           a == stated("AccountName", sub.account.name)
           b == stated("AccountEmail", sub.account.email)
           c == stated("AccountOrganization", sub.account.organization)
           ab == a \o b
<1>1. AccountRows(lang, sub) = <<>> \/ AccountRows(lang, sub) = ab \o c
  BY DEF AccountRows
<1>2. \A key, value : IsSeq(stated(key, value)) /\ Len(stated(key, value)) \in 0 .. 1
  <2> TAKE key, value
  <2>1. CASE value = <<>>
    BY <2>1, SeqEmpty
  <2>2. CASE value # <<>>
    BY <2>2, SeqOne
  <2>3. QED
    BY <2>1, <2>2
<1> HIDE DEF stated
<1>3. IsSeq(a) /\ IsSeq(b) /\ IsSeq(c)
      /\ Len(a) \in 0 .. 1 /\ Len(b) \in 0 .. 1 /\ Len(c) \in 0 .. 1
  BY <1>2
<1> HIDE DEF a, b, c
<1>4. IsSeq(ab) /\ Len(ab) = Len(a) + Len(b)
  BY <1>3, SeqConcat
<1> DEFINE abc == ab \o c
<1> HIDE DEF ab
<1>5. IsSeq(abc) /\ Len(abc) = Len(ab) + Len(c)
  BY <1>3, <1>4, SeqConcat
<1>6. AccountRows(lang, sub) = <<>> \/ AccountRows(lang, sub) = abc
  BY <1>1
<1> HIDE DEF abc
<1>7. Len(abc) <= 3
  <2>1. \A n \in 0 .. 1, m \in 0 .. 1, k \in 0 .. 1 : n + m + k <= 3
    OBVIOUS
  <2>2. Len(a) \in 0 .. 1 /\ Len(b) \in 0 .. 1 /\ Len(c) \in 0 .. 1
    BY <1>3
  <2>3. Len(abc) = Len(a) + Len(b) + Len(c)
    BY <1>4, <1>5
  <2>4. QED
    BY ONLY <2>1, <2>2, <2>3
<1>8. IsSeq(<<>>) /\ Len(<<>>) <= 3
  BY SeqEmpty
<1>9. QED
  BY <1>5, <1>6, <1>7, <1>8

-------------------------------------------------------------------------------
(* The terminal's lines in the order of the menu's *)

Lines(p, f, m, s) == ((p \o f) \o m) \o s
Stack(h, p, f, m, s) == (((h \o p) \o f) \o m) \o s

\* Concatenation as an operator that the provers leave alone.
Then(s, t) == s \o t

LEMMA ThenFacts ==
    ASSUME NEW s, NEW t, NEW u, IsSeq(s), IsSeq(t), IsSeq(u)
    PROVE  IsSeq(Then(s, t)) /\ Then(Then(s, t), u) = Then(s, Then(t, u))
<1>1. IsSeq(s \o t)
  BY SeqConcat
<1>2. (s \o t) \o u = s \o (t \o u)
  BY SeqAssociative
<1>3. QED
  BY <1>1, <1>2 DEF Then

LEMMA Regroup ==
    ASSUME NEW h, NEW p, NEW f, NEW m, NEW s,
           IsSeq(h), IsSeq(p), IsSeq(f), IsSeq(m), IsSeq(s)
    PROVE  h \o Lines(p, f, m, s) = Stack(h, p, f, m, s)
<1>1. PICK u : u = Then(p, f)
  OBVIOUS
<1>2. IsSeq(u)
  BY <1>1, ThenFacts
<1>3. Then(Then(h, p), f) = Then(h, u)
  BY <1>1, ThenFacts
<1>4. PICK v : v = Then(u, m)
  OBVIOUS
<1>5. IsSeq(v)
  BY <1>2, <1>4, ThenFacts
<1>6. Then(Then(h, u), m) = Then(h, Then(u, m))
  BY <1>2, ThenFacts
<1>7. Then(Then(h, v), s) = Then(h, Then(v, s))
  BY <1>5, ThenFacts
<1>8. Then(h, Then(v, s)) = Then(Then(Then(Then(h, p), f), m), s)
  BY <1>3, <1>4, <1>6, <1>7
<1>9. Lines(p, f, m, s) = Then(v, s)
  BY <1>1, <1>4 DEF Lines, Then
<1>10. Stack(h, p, f, m, s) = Then(Then(Then(Then(h, p), f), m), s)
  BY DEF Stack, Then
<1>11. QED
  BY <1>8, <1>9, <1>10 DEF Then

LEMMA LegibleLines ==
    ASSUME NEW p, NEW f, NEW m, NEW s, IsSeq(p), IsSeq(f), IsSeq(m), IsSeq(s)
    PROVE  /\ IsSeq(Lines(p, f, m, s))
           /\ Legible(Lines(p, f, m, s))
                = Lines(Legible(p), Legible(f), Legible(m), Legible(s))
<1> DEFINE x == p \o f
           y == x \o m
           z == y \o s
<1>1. IsSeq(x) /\ Legible(x) = Legible(p) \o Legible(f)
  BY SeqConcat, LegibleConcat
<1> HIDE DEF x
<1>2. IsSeq(y) /\ Legible(y) = Legible(x) \o Legible(m)
  BY <1>1, SeqConcat, LegibleConcat
<1> HIDE DEF y
<1>3. IsSeq(z) /\ Legible(z) = Legible(y) \o Legible(s)
  BY <1>2, SeqConcat, LegibleConcat
<1>4. Lines(p, f, m, s) = z
  BY DEF Lines, z, y, x
<1> HIDE DEF z
<1>5. Legible(z) = ((Legible(p) \o Legible(f)) \o Legible(m)) \o Legible(s)
  BY <1>1, <1>2, <1>3
<1>6. QED
  BY <1>3, <1>4, <1>5 DEF Lines

\* A subscription's lines, with what they leave on the terminal.
LEMMA SubscriptionPrinted ==
    ASSUME NEW vendor, NEW sub, IsSub(sub, vendor), NEW c, NEW at \in Int,
           NEW x, x = Capped(sub)
    PROVE  /\ IsSeq(subscriptionLines(c, x, at))
           /\ Legible(subscriptionLines(c, x, at))
                = Lines(Shown(ProviderRow(sub)), Shown(PreferencesRow(c.lang, sub)),
                        ShownRows(MeterRows(c.lang, x, at)), <<StatusText(c.lang, sub, at)>>)
<1> DEFINE p == writeRow(ProviderRow(x))
           f == writeRow(PreferencesRow(c.lang, x))
           m == writeRows(MeterRows(c.lang, x, at))
           s == <<StatusText(c.lang, x, at)>>
           status == StatusText(c.lang, sub, at)
<1>1. /\ ProviderRow(x) = ProviderRow(sub)
      /\ PreferencesRow(c.lang, x) = PreferencesRow(c.lang, sub)
      /\ StatusText(c.lang, x, at) = status
  BY CappedRows
<1>2. IsSeq(p) /\ Legible(p) = Shown(ProviderRow(sub))
  BY <1>1, RowPrinted
<1>3. IsSeq(f) /\ Legible(f) = Shown(PreferencesRow(c.lang, sub))
  BY <1>1, RowPrinted
<1>4. IsSeq(m) /\ Legible(m) = ShownRows(MeterRows(c.lang, x, at))
  BY CappedMeterRows, RowsPrinted
<1>5. IsSeq(s) /\ Legible(s) = <<status>>
  <2>1. Said(status)
    BY StatusSaid
  <2> HIDE DEF status
  <2>2. s = <<status>>
    BY <1>1
  <2>3. Legible(<<status>>) = Kept(status) /\ IsSeq(<<status>>)
    BY LegibleOne, SeqOne
  <2>4. QED
    BY <2>1, <2>2, <2>3 DEF Kept, Said
<1>6. subscriptionLines(c, x, at) = Lines(p, f, m, s)
  BY DEF subscriptionLines, Lines
<1> HIDE DEF p, f, m, s
<1>7. /\ IsSeq(Lines(p, f, m, s))
      /\ Legible(Lines(p, f, m, s)) = Lines(Legible(p), Legible(f), Legible(m), Legible(s))
  BY <1>2, <1>3, <1>4, <1>5, LegibleLines
<1>8. QED
  BY <1>2, <1>3, <1>4, <1>5, <1>6, <1>7 DEF status

\* One subscription of the submenu, on the screen and on the terminal.
OnScreen(e) ==
    IF ~e.row.shown THEN <<>>
    ELSE <<e.row.title, e.context>> \o Visible(<<e.prefs>>) \o Visible(e.meters)
             \o Visible(<<e.status>>) \o Visible(e.accounts)

Printed(c, sub, at) ==
    writeRow(ProviderListRow(sub)) \o subscriptionLines(c, sub, at)
        \o writeRows(AccountRows(c.lang, sub))

LEMMA EntryPrinted ==
    ASSUME NEW vendor \in {"anthropic", "openai"}, NEW sub, IsSub(sub, vendor), NEW c,
           NEW at \in Int, NEW x, x = Capped(sub), NEW e, EntryShows(e, c, sub, at),
           AreItems(e.meters, MaxMeterRows), AreItems(e.accounts, 3)
    PROVE  IsSeq(Printed(c, x, at)) /\ Legible(Printed(c, x, at)) = OnScreen(e)
<1> DEFINE head == writeRow(ProviderListRow(x))
           body == subscriptionLines(c, x, at)
           foot == writeRows(AccountRows(c.lang, x))
           top == head \o body
           h == Shown(ProviderListRow(sub))
           p == Shown(ProviderRow(sub))
           f == Shown(PreferencesRow(c.lang, sub))
           m == ShownRows(MeterRows(c.lang, x, at))
           s == <<StatusText(c.lang, sub, at)>>
           a == ShownRows(AccountRows(c.lang, sub))
<1>1. IsSeq(h) /\ IsSeq(p) /\ IsSeq(f) /\ IsSeq(m) /\ IsSeq(s)
  <2>1. IsSeq(m)
    BY CappedMeterRows, RowsPrinted
  <2>2. QED
    BY <2>1, ShownIsSeq, SeqOne
<1>2. IsSeq(head) /\ Legible(head) = h
  BY CappedRows, RowPrinted
<1>3. IsSeq(body) /\ Legible(body) = Lines(p, f, m, s)
  BY SubscriptionPrinted
<1>4. IsSeq(foot) /\ Legible(foot) = a
  <2>1. AccountRows(c.lang, x) = AccountRows(c.lang, sub)
    BY CappedRows
  <2>2. QED
    BY <2>1, AccountsAreFew, RowsPrinted
<1>5. Printed(c, x, at) = top \o foot
  BY DEF Printed
<1>6. OnScreen(e) = Stack(h, p, f, m, s) \o a
  <2>1. e.row.shown = TRUE /\ e.row.title = MenuRowTitle(ProviderListRow(sub))
        /\ e.row.title # <<>> /\ e.context = MenuRowTitle(ProviderRow(sub))
    BY DEF EntryShows
  <2>2. e.context # <<>>
    BY <2>1, ProviderSaid DEF Said
  <2>3. <<e.row.title, e.context>> = h \o p
    <3>1. h = <<e.row.title>> /\ p = <<e.context>>
      BY <2>1, <2>2 DEF Shown, Kept
    <3>2. QED
      BY <3>1, SeqTwo
  <2>4. Visible(<<e.prefs>>) = f
    <3>1. Reads(e.prefs, PreferencesRow(c.lang, sub))
      BY DEF EntryShows
    <3>2. QED
      BY <3>1, VisibleOne, SeenIsShown
  <2>5. Visible(e.meters) = m
    <3>1. ReadRows(e.meters, MeterRows(c.lang, sub, at))
      BY DEF EntryShows
    <3>2. QED
      BY <3>1, VisibleMeters
  <2>6. Visible(<<e.status>>) = s
    <3>1. e.status.shown = TRUE /\ e.status.title = StatusText(c.lang, sub, at)
      BY DEF EntryShows
    <3>2. Seen(e.status) = s
      BY <3>1 DEF Seen
    <3>3. QED
      BY <3>2, VisibleOne
  <2>7. Visible(e.accounts) = a
    <3>1. ReadRows(e.accounts, AccountRows(c.lang, sub))
      BY DEF EntryShows
    <3>2. IsSeq(AccountRows(c.lang, sub)) /\ Len(AccountRows(c.lang, sub)) <= 3
      BY AccountsAreFew
    <3>3. QED
      BY <3>1, <3>2, VisibleRows
  <2> HIDE DEF h, p, f, m, s, a
  <2>8. OnScreen(e) = <<e.row.title, e.context>> \o Visible(<<e.prefs>>) \o Visible(e.meters)
                          \o Visible(<<e.status>>) \o Visible(e.accounts)
    BY <2>1 DEF OnScreen
  <2>9. OnScreen(e) = ((((h \o p) \o f) \o m) \o s) \o a
    BY <2>3, <2>4, <2>5, <2>6, <2>7, <2>8
  <2>10. QED
    BY <2>9 DEF Stack
<1> HIDE DEF head, body, foot, h, p, f, m, s, a
<1>7. IsSeq(top) /\ Legible(top) = h \o Lines(p, f, m, s)
  BY <1>2, <1>3, SeqConcat, LegibleConcat
<1>8. h \o Lines(p, f, m, s) = Stack(h, p, f, m, s)
  BY <1>1, Regroup
<1> HIDE DEF top
<1>9. IsSeq(top \o foot) /\ Legible(top \o foot) = Legible(top) \o Legible(foot)
  BY <1>4, <1>7, SeqConcat, LegibleConcat
<1>10. QED
  BY <1>4, <1>5, <1>6, <1>7, <1>8, <1>9

\* The submenu: one subscription under the other.
LEMMA EntriesPrinted ==
    ASSUME NEW all, AreSubs(all), NEW c, NEW at \in Int, NEW entries, DOMAIN entries = 1 .. 2,
           \A p \in 1 .. 2 : /\ EntryShows(entries[p], c, all[p], at)
                             /\ AreItems(entries[p].meters, MaxMeterRows)
                             /\ AreItems(entries[p].accounts, 3),
           NEW cut, cut = [p \in DOMAIN all |-> Capped(all[p])]
    PROVE  LET lines == FlattenSeq([p \in DOMAIN cut |-> Printed(c, cut[p], at)])
           IN  /\ IsSeq(lines)
               /\ Legible(lines) = FlattenSeq([p \in DOMAIN entries |-> OnScreen(entries[p])])
<1> DEFINE ss == [p \in DOMAIN cut |-> Printed(c, cut[p], at)]
           tt == [p \in DOMAIN ss |-> Legible(ss[p])]
           uu == [p \in DOMAIN entries |-> OnScreen(entries[p])]
<1>1. DOMAIN all = 1 .. 2 /\ DOMAIN cut = 1 .. 2 /\ \A p \in 1 .. 2 : cut[p] = Capped(all[p])
  BY DEF AreSubs
<1>2. ASSUME NEW p \in 1 .. 2
      PROVE  IsSeq(Printed(c, cut[p], at)) /\ Legible(Printed(c, cut[p], at)) = OnScreen(entries[p])
  <2>1. Vendors[p] \in {"anthropic", "openai"}
    BY TwoVendors
  <2>2. PICK vendor \in {"anthropic", "openai"} : vendor = Vendors[p]
    BY <2>1
  <2>3. PICK sub : sub = all[p]
    OBVIOUS
  <2>4. PICK e : e = entries[p]
    OBVIOUS
  <2>5. PICK x : x = cut[p]
    OBVIOUS
  <2>6. IsSub(sub, vendor) /\ x = Capped(sub)
    BY <1>1, <2>2, <2>3, <2>5 DEF AreSubs
  <2>7. EntryShows(e, c, sub, at) /\ AreItems(e.meters, MaxMeterRows) /\ AreItems(e.accounts, 3)
    BY <2>3, <2>4
  <2>8. IsSeq(Printed(c, x, at)) /\ Legible(Printed(c, x, at)) = OnScreen(e)
    BY <2>6, <2>7, EntryPrinted
  <2>9. QED
    BY <2>4, <2>5, <2>8
<1>3. ss = [p \in 1 .. 2 |-> ss[p]] /\ DOMAIN ss = 1 .. 2
      /\ \A p \in 1 .. 2 : ss[p] = Printed(c, cut[p], at)
  BY <1>1
<1> HIDE DEF ss
<1>4. IsSeq(ss) /\ Len(ss) = 2
  <2>1. 2 \in Nat
    OBVIOUS
  <2>2. QED
    BY <1>3, <2>1, FunctionIsSeq
<1>5. AllSeqs(ss)
  BY <1>2, <1>3, <1>4 DEF AllSeqs
<1>6. Legible(FlattenSeq(ss)) = FlattenSeq(tt) /\ IsSeq(FlattenSeq(ss))
  BY <1>5, LegibleFlatten, FlattenIsSeq
<1>7. tt = uu
  BY <1>2, <1>3
<1>8. QED
  BY <1>6, <1>7 DEF ss

\* What a terminal shows of the readings is what the widgets show of them.
LEMMA MenuReads == Readings /\ Displays => MenuIsTheReading
<1> SUFFICES ASSUME Readings, Displays PROVE MenuIsTheReading
  OBVIOUS
<1> DEFINE all == drawn.subs
           at == drawn.at
           active == all[1]
           lang == cfg.lang
           cut == [p \in DOMAIN all |-> Capped(all[p])]
           status == StatusText(lang, active, at)
           last == IF notice THEN status ELSE menu.status
           screen == [menu EXCEPT !.status = IF notice THEN status ELSE @]
           h == Shown(HeaderRow)
           p == Shown(ProviderRow(active))
           f == Shown(PreferencesRow(lang, active))
           m == ShownRows(MeterRows(lang, cut[1], at))
           s == <<status>>
           e == FlattenSeq([q \in DOMAIN menu.entries |-> OnScreen(menu.entries[q])])
           z == ShownRows(SettingsRows(cfg))
           head == writeRow(HeaderRow)
           body == subscriptionLines(cfg, cut[1], at)
           lines == FlattenSeq([q \in DOMAIN cut |-> Printed(cfg, cut[q], at)])
           foot == writeRows(SettingsRows(cfg))
           top == head \o body
           upper == top \o lines
<1>1. /\ Widgets(menu) /\ AreSubs(all) /\ at \in Int
      /\ Shows(menu, cfg, all, at) /\ Titled(menu, cfg)
      /\ ~notice => menu.status = status
  BY DEF Displays
<1>2. DOMAIN all = 1 .. 2 /\ IsSub(active, Vendors[1]) /\ 1 \in 1 .. 2
      /\ \A q \in 1 .. 2 : IsSub(all[q], Vendors[q])
  BY <1>1 DEF AreSubs
<1>3. cut[1] = Capped(active)
  BY <1>2
<1>4. last = status
  <2> HIDE DEF status
  <2>1. CASE notice = TRUE
    BY <2>1
  <2>2. CASE notice # TRUE
    BY <1>1, <2>2
  <2>3. QED
    BY <2>1, <2>2
<1>5. render(cut, cfg, at) = upper \o foot
  BY DEF render, Printed
<1>6. /\ screen.header = menu.header /\ screen.provider = menu.provider
      /\ screen.prefs = menu.prefs /\ screen.meters = menu.meters
      /\ screen.entries = menu.entries /\ screen.settings = menu.settings
      /\ screen.providersMenu = menu.providersMenu /\ screen.status = last
  <2> HIDE DEF status
  <2>1. DOMAIN menu = {"header", "provider", "prefs", "meters", "status", "providersMenu",
                       "entries", "commands", "settings", "intervals", "lastIcon", "icon",
                       "tooltip"}
    BY <1>1 DEF Widgets
  <2>2. QED
    BY <2>1
<1>7. PICK t : t = screen
  OBVIOUS
<1>8. Screen(t) = Visible(<<t.header>>) \o Visible(<<t.provider>>) \o Visible(<<t.prefs>>)
                      \o Visible(t.meters) \o <<t.status>>
                      \o (IF t.providersMenu
                          THEN FlattenSeq([q \in DOMAIN t.entries |-> OnScreen(t.entries[q])])
                          ELSE <<>>)
                      \o t.settings
  BY DEF Screen, OnScreen
<1>9. MenuIsTheReading <=> Screen(t) = Legible(render(cut, cfg, at))
  <2>1. MenuIsTheReading <=> /\ Screen(screen) = Legible(render(cut, cfg, at))
                             /\ menu.commands = newMenuView(cfg).commands
                             /\ menu.intervals = newMenuView(cfg).intervals
    BY DEF MenuIsTheReading
  <2>2. QED
    BY <1>1, <1>7, <2>1 DEF Titled
<1>10. IsSeq(h) /\ IsSeq(p) /\ IsSeq(f) /\ IsSeq(s)
  BY ShownIsSeq, SeqOne
<1>11. IsSeq(m)
  BY <1>2, <1>3, CappedMeterRows, RowsPrinted
<1>12. /\ Visible(<<t.header>>) = h /\ Visible(<<t.provider>>) = p /\ Visible(<<t.prefs>>) = f
  <2>1. /\ Reads(t.header, HeaderRow) /\ Reads(t.provider, ProviderRow(active))
        /\ Reads(t.prefs, PreferencesRow(lang, active))
    BY <1>1, <1>6, <1>7 DEF Shows
  <2>2. QED
    BY <2>1, VisibleOne, SeenIsShown
<1>13. Visible(t.meters) = m
  <2>1. AreItems(t.meters, MaxMeterRows) /\ ReadRows(t.meters, MeterRows(lang, active, at))
    BY <1>1, <1>6, <1>7 DEF Shows, Widgets
  <2>2. QED
    BY <1>2, <1>3, <2>1, VisibleMeters
<1>14. <<t.status>> = s
  BY <1>4, <1>6, <1>7
<1>15. (IF t.providersMenu THEN FlattenSeq([q \in DOMAIN t.entries |-> OnScreen(t.entries[q])])
        ELSE <<>>) = e
  <2>1. t.providersMenu = TRUE /\ t.entries = menu.entries
    BY <1>1, <1>6, <1>7 DEF Shows
  <2>2. QED
    BY <2>1
<1>16. t.settings = z
  <2>1. t.settings = [i \in 1 .. 5 |-> MenuRowTitle(SettingsRows(cfg)[i])]
    BY <1>1, <1>6, <1>7 DEF Titled
  <2>2. QED
    BY <2>1, SettingsShown
<1>17. IsSeq(head) /\ Legible(head) = h
  BY RowPrinted
<1>18. IsSeq(body) /\ Legible(body) = Lines(p, f, m, s)
  BY <1>1, <1>2, <1>3, SubscriptionPrinted
<1>19. IsSeq(lines) /\ Legible(lines) = e
  <2> DEFINE entries == menu.entries
  <2>1. DOMAIN entries = 1 .. 2
    BY <1>1 DEF Widgets
  <2>2. \A q \in 1 .. 2 : /\ EntryShows(entries[q], cfg, all[q], at)
                          /\ AreItems(entries[q].meters, MaxMeterRows)
                          /\ AreItems(entries[q].accounts, 3)
    BY <1>1 DEF Widgets, Shows
  <2>3. cut = [q \in DOMAIN all |-> Capped(all[q])]
    OBVIOUS
  <2> HIDE DEF entries, cut, all, at
  <2>4. QED
    BY <1>1, <2>1, <2>2, <2>3, EntriesPrinted DEF entries
<1>20. IsSeq(foot) /\ Legible(foot) = z
  BY SettingsSaid, RowsPrinted
<1> HIDE DEF h, p, f, m, s, e, z, head, body, lines, foot
<1>21. IsSeq(top) /\ Legible(top) = h \o Lines(p, f, m, s)
  BY <1>17, <1>18, SeqConcat, LegibleConcat
<1>22. h \o Lines(p, f, m, s) = Stack(h, p, f, m, s)
  BY <1>10, <1>11, Regroup
<1> HIDE DEF top
<1>23. IsSeq(upper) /\ Legible(upper) = Legible(top) \o e
  BY <1>19, <1>21, SeqConcat, LegibleConcat
<1> HIDE DEF upper
<1>24. Legible(upper \o foot) = Legible(upper) \o z
  BY <1>20, <1>23, LegibleConcat
<1>25. Legible(upper \o foot) = (Stack(h, p, f, m, s) \o e) \o z
  BY <1>21, <1>22, <1>23, <1>24
<1>26. Screen(t) = (Stack(h, p, f, m, s) \o e) \o z
  <2>1. Screen(t) = ((((((h \o p) \o f) \o m) \o s) \o e) \o z)
    BY ONLY <1>8, <1>12, <1>13, <1>14, <1>15, <1>16
  <2>2. QED
    BY <2>1 DEF Stack
<1>27. QED
  BY <1>5, <1>9, <1>25, <1>26

\* The menu reads, after whatever draws and changes of the settings, as the terminal
\* prints the last reading afresh.
THEOREM MenuAlwaysTheReading == Spec => []MenuIsTheReading
<1>1. QED
  BY DisplaysAlways, MenuReads, PTL

===============================================================================
