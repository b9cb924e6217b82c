------------------------------ MODULE ToolsProofs ------------------------------
(***************************************************************************)
(* Theorems about the scripts of a pipeline, for blocks and scripts of any *)
(* length: a block keeps its meaning, and an inlined script runs what bash *)
(* would run.  Then the commands taken together: a behavior of MCTools is  *)
(* one of every part, so that what is proved of a part holds of the whole. *)
(***************************************************************************)
EXTENDS MCTools, CommandProofs, RepositoryProofs, SequenceTheorems, WellFoundedInduction

(***************************************************************************)
(* Induction and recursion over data.  The order of the natural numbers is *)
(* well-founded; from that come induction for the members of a set, and    *)
(* functions defined by recursion, and with them the folds and joins of    *)
(* sequences that the models are made of.                                  *)
(***************************************************************************)

\* Every set of natural numbers that is not empty has a smallest member: the
\* order is well-founded.
LEMMA SmallestMember ==
  ASSUME NEW T, T \subseteq Nat, T # {}
  PROVE  \E x \in T : \A y \in T : x <= y
<1>1. PICK x \in T : \A y \in T : ~ (<<y, x>> \in OpToRel(<, Nat))
  BY NatLessThanWellFounded, WFMin, Zenon
<1>2. \A y \in T : x <= y
  <2> TAKE y \in T
  <2>1. x \in Nat /\ y \in Nat OBVIOUS
  <2>2. ~(y < x)
     BY <1>1, <2>1 DEF OpToRel
  <2> QED BY <2>1, <2>2
<1> QED BY <1>2

\* Induction over the natural numbers, for the members of a set.
LEMMA SetInduction ==
  ASSUME NEW T, 0 \in T, \A n \in Nat : n \in T => n + 1 \in T
  PROVE  Nat \subseteq T
<1> SUFFICES ASSUME Nat \ T # {} PROVE FALSE OBVIOUS
<1>1. PICK x \in Nat \ T : \A y \in Nat \ T : x <= y
  BY SmallestMember
<1>2. x # 0 /\ x - 1 \in Nat /\ x - 1 \notin Nat \ T
  BY <1>1
<1> QED BY <1>2

IteratesFrom(f, S, base, next) ==
  f \in [Nat -> S] /\ f[0] = base /\ \A n \in Nat : f[n + 1] = next[n][f[n]]

\* A function on the natural numbers may be defined by its value at 0 and a step.
LEMMA NatRecursion ==
  ASSUME NEW S, NEW base \in S, NEW next \in [Nat -> [S -> S]]
  PROVE  \E f : IteratesFrom(f, S, base, next)
<1> DEFINE Follows(f, n) == f[0] = base /\ \A i \in 0..(n - 1) : f[i + 1] = next[i][f[i]]
           Start == {n \in Nat : \E f \in [0..n -> S] : Follows(f, n)}
<1>1. 0 \in Start
  <2>1. [i \in 0..0 |-> base] \in [0..0 -> S] /\ Follows([i \in 0..0 |-> base], 0) OBVIOUS
  <2> QED BY <2>1
<1>2. ASSUME NEW n \in Nat, n \in Start PROVE n + 1 \in Start
  <2>1. PICK f \in [0..n -> S] : Follows(f, n) BY <1>2
  <2> DEFINE g == [i \in 0..(n + 1) |-> IF i = n + 1 THEN next[n][f[n]] ELSE f[i]]
  <2>2. next[n][f[n]] \in S OBVIOUS
  <2>3. g \in [0..(n + 1) -> S] BY <2>2
  <2>4. Follows(g, n + 1)
    <3>1. g[0] = base BY <2>1
    <3>2. ASSUME NEW i \in 0..n PROVE g[i + 1] = next[i][g[i]]
      <4>1. CASE i = n BY <4>1
      <4>2. CASE i # n 
        <5>1. i \in 0..(n-1) /\ i + 1 \in 0..n BY <4>2
        <5>2. f[i + 1] = next[i][f[i]] BY <5>1, <2>1
        <5> QED BY <5>1, <5>2
      <4> QED BY <4>1, <4>2
    <3>3. 0..((n + 1) - 1) = 0..n OBVIOUS
    <3> HIDE DEF g
    <3> QED BY <3>1, <3>2, <3>3
  <2> HIDE DEF g, Follows
  <2> QED BY <2>3, <2>4
<1>3. Nat \subseteq Start
  <2> HIDE DEF Start
  <2> QED BY <1>1, <1>2, SetInduction
<1>4. ASSUME NEW n \in Nat, NEW f \in [0..n -> S], Follows(f, n), NEW m \in Nat, NEW g \in [0..m -> S], Follows(g, m), n <= m
      PROVE \A i \in 0..n : f[i] = g[i]
  <2> DEFINE Same == {i \in Nat : i <= n => f[i] = g[i]}
  <2>1. 0 \in Same BY <1>4
  <2>2. ASSUME NEW i \in Nat, i \in Same PROVE i + 1 \in Same
    <3> SUFFICES ASSUME i + 1 <= n PROVE f[i + 1] = g[i + 1] OBVIOUS
    <3> QED BY <2>2, <1>4
  <2>3. Nat \subseteq Same 
    <3> HIDE DEF Same
    <3> QED BY <2>1, <2>2, SetInduction
  <2> QED BY <2>3
<1> DEFINE F(n) == CHOOSE f \in [0..n -> S] : Follows(f, n)
           h == [n \in Nat |-> F(n)[n]]
<1>5. \A n \in Nat : F(n) \in [0..n -> S] /\ Follows(F(n), n)
  <2> TAKE n \in Nat
  <2>1. \E f \in [0..n -> S] : Follows(f, n) BY <1>3
  <2> HIDE DEF Follows
  <2> QED BY <2>1
<1> HIDE DEF F
<1>6. h \in [Nat -> S] BY <1>5
<1>7. h[0] = base BY <1>5
<1>8. ASSUME NEW n \in Nat PROVE h[n + 1] = next[n][h[n]]
  <2>1. F(n + 1)[n + 1] = next[n][F(n + 1)[n]] BY <1>5
  <2>2. F(n)[n] = F(n + 1)[n] 
    <3> HIDE DEF Follows
    <3>1. n + 1 \in Nat /\ n <= n + 1 /\ n \in 0..n OBVIOUS
    <3>2. \A i \in 0..n : F(n)[i] = F(n + 1)[i] BY <1>4, <1>5, <3>1
    <3> QED BY <3>1, <3>2
  <2> QED BY <2>1, <2>2
<1> HIDE DEF h
<1> QED BY <1>6, <1>7, <1>8 DEF IteratesFrom

\* Max is what it says.
LEMMA MaxOfSet ==
  ASSUME NEW n \in Nat, NEW s \in SUBSET (1..n), s # {}
  PROVE  Max(s) \in s /\ \A x \in s : Max(s) >= x
<1> DEFINE Gap == {n - x : x \in s}
<1>1. Gap \subseteq Nat /\ Gap # {}
  <2>1. \A x \in s : n - x \in Nat OBVIOUS
  <2> QED BY <2>1
<1>2. PICK g \in Gap : \A y \in Gap : g <= y 
  <2> HIDE DEF Gap
  <2> QED BY <1>1, SmallestMember
<1>3. PICK m \in s : g = n - m BY <1>2
<1>4. \A x \in s : m >= x 
  <2> TAKE x \in s
  <2>1. n - x \in Gap OBVIOUS
  <2>2. m \in Int /\ x \in Int OBVIOUS
  <2> QED BY <2>1, <2>2, <1>2, <1>3
<1>5. \E m2 \in s : \A x \in s : m2 >= x BY <1>4
<1> QED BY <1>5, Zenon DEF Max

\* The maximum of an interval, and the interval without it.
LEMMA MaxOfInterval ==
  ASSUME NEW n \in Nat, n # 0
  PROVE  Max(1..n) = n /\ (1..n) \ {n} = 1..(n - 1)
<1>1. 1..n \in SUBSET (1..n) /\ 1..n # {} OBVIOUS
<1>2. Max(1..n) \in 1..n /\ \A x \in 1..n : Max(1..n) >= x BY <1>1, MaxOfSet
<1>3. n \in 1..n OBVIOUS
<1> QED BY <1>2, <1>3

FoldsOver(f, n, S, base, next) ==
  /\ f \in [SUBSET (1..n) -> S]
  /\ f = [s \in SUBSET (1..n) |-> IF s = {} THEN base ELSE next[Max(s)][f[s \ {Max(s)}]]]

\* FoldLeft's recursion over sets of positions has a solution.
LEMMA FoldExists ==
  ASSUME NEW n \in Nat, NEW S, NEW base \in S, NEW next \in [1..n -> [S -> S]]
  PROVE  \E f : FoldsOver(f, n, S, base, next)
<1> DEFINE Table == [SUBSET (1..n) -> S]
           Better(f) == [s \in SUBSET (1..n) |-> IF s = {} THEN base ELSE next[Max(s)][f[s \ {Max(s)}]]]
           better == [i \in Nat |-> [f \in Table |-> Better(f)]]
           none == [s \in SUBSET (1..n) |-> base]
<1>1. \A f \in Table : Better(f) \in Table
  <2> TAKE f \in Table
  <2>1. ASSUME NEW s \in SUBSET (1..n), s # {} PROVE next[Max(s)][f[s \ {Max(s)}]] \in S
    <3>1. Max(s) \in 1..n BY <2>1, MaxOfSet
    <3>2. s \ {Max(s)} \in SUBSET (1..n) OBVIOUS
    <3>3. f[s \ {Max(s)}] \in S BY <3>2
    <3> QED BY <3>1, <3>3
  <2> QED BY <2>1
<1>2. better \in [Nat -> [Table -> Table]] BY <1>1
<1>3. none \in Table OBVIOUS
<1>4. PICK g \in [Nat -> Table] : g[0] = none /\ \A i \in Nat : g[i + 1] = better[i][g[i]]
  <2> HIDE DEF Table, better, none, Better
  <2>1. \E g : IteratesFrom(g, Table, none, better) BY <1>2, <1>3, NatRecursion
  <2> QED BY <2>1 DEF IteratesFrom
<1>5. \A i \in Nat : g[i] \in Table /\ g[i + 1] = Better(g[i]) BY <1>4
<1> DEFINE Settled == {i \in Nat : \A s \in SUBSET (1..n) : s \subseteq 1..i => g[i][s] = g[i + 1][s]}
<1>6. 0 \in Settled
  <2> SUFFICES ASSUME NEW s \in SUBSET (1..n), s \subseteq 1..0 PROVE g[0][s] = g[0 + 1][s] OBVIOUS
  <2>1. s = {} OBVIOUS
  <2> QED BY <2>1, <1>4, <1>5
<1>7. ASSUME NEW i \in Nat, i \in Settled PROVE i + 1 \in Settled
  <2> SUFFICES ASSUME NEW s \in SUBSET (1..n), s \subseteq 1..(i + 1) PROVE g[i + 1][s] = g[(i + 1) + 1][s] OBVIOUS
  <2>1. CASE s = {} 
    <3>1. Better(g[i])[s] = Better(g[i + 1])[s] BY <2>1
    <3>2. g[i + 1] = Better(g[i]) /\ g[(i + 1) + 1] = Better(g[i + 1])
      <4> HIDE DEF Better, Table
      <4>1. i + 1 \in Nat OBVIOUS
      <4> QED BY <1>5, <4>1
    <3> HIDE DEF Better
    <3> QED BY <3>1, <3>2
  <2>2. CASE s # {}
    <3>1. Max(s) \in s /\ \A x \in s : Max(s) >= x BY <2>2, MaxOfSet
    <3>2. s \ {Max(s)} \in SUBSET (1..n) /\ s \ {Max(s)} \subseteq 1..i 
      <4> SUFFICES ASSUME NEW x \in s, x # Max(s) PROVE x \in 1..i OBVIOUS
      <4>1. Max(s) \in 1..(i+1) /\ x \in 1..(i + 1) BY <3>1
      <4> QED BY <4>1, <3>1
    <3>3. g[i][s \ {Max(s)}] = g[i + 1][s \ {Max(s)}] BY <3>2, <1>7
    <3>4. Better(g[i])[s] = Better(g[i + 1])[s] BY <2>2, <3>3
    <3>5. g[i + 1] = Better(g[i]) /\ g[(i + 1) + 1] = Better(g[i + 1])
      <4> HIDE DEF Better, Table
      <4>1. i + 1 \in Nat OBVIOUS
      <4> QED BY <1>5, <4>1
    <3> HIDE DEF Better
    <3> QED BY <3>4, <3>5
  <2> QED BY <2>1, <2>2
<1>8. n \in Settled
  <2> HIDE DEF Settled
  <2> QED BY <1>6, <1>7, SetInduction
<1>9. g[n] = Better(g[n])
  <2>1. \A s \in SUBSET (1..n) : g[n][s] = g[n + 1][s] BY <1>8
  <2>2. g[n] \in Table /\ g[n + 1] \in Table
    <3> HIDE DEF Table, Better
    <3>1. n + 1 \in Nat OBVIOUS
    <3> QED BY <1>5, <3>1
  <2>3. g[n] = g[n + 1] BY <2>1, <2>2
  <2> QED BY <2>3, <1>5
<1> QED BY <1>5, <1>9 DEF FoldsOver

JoinsTo(h, ss, A) ==
  /\ h \in [Nat -> Seq(A)]
  /\ h[0] = <<>>
  /\ \A i \in 1..Len(ss) : h[i] = h[i - 1] \o ss[i]

\* The joins of the first sequences of a sequence of sequences exist.
LEMMA JoinExists ==
  ASSUME NEW A, NEW ss \in Seq(Seq(A))
  PROVE  \E h : JoinsTo(h, ss, A)
<1> DEFINE next == [i \in Nat |-> [x \in Seq(A) |-> IF i + 1 \in 1..Len(ss) THEN x \o ss[i + 1] ELSE x]]
<1>1. next \in [Nat -> [Seq(A) -> Seq(A)]]
  <2> SUFFICES ASSUME NEW i \in Nat, NEW x \in Seq(A), i + 1 \in 1..Len(ss) PROVE x \o ss[i + 1] \in Seq(A) OBVIOUS
  <2>1. ss[i + 1] \in Seq(A) OBVIOUS
  <2> QED BY <2>1
<1>2. <<>> \in Seq(A) OBVIOUS
<1>3. PICK h : IteratesFrom(h, Seq(A), <<>>, next) 
  <2> HIDE DEF next
  <2> QED BY <1>1, <1>2, NatRecursion
<1>4. h \in [Nat -> Seq(A)] /\ h[0] = <<>> BY <1>3 DEF IteratesFrom
<1>5. ASSUME NEW i \in 1..Len(ss) PROVE h[i] = h[i - 1] \o ss[i]
  <2>1. i - 1 \in Nat /\ (i - 1) + 1 = i OBVIOUS
  <2>2. h[(i - 1) + 1] = next[i - 1][h[i - 1]] 
    <3> HIDE DEF next
    <3> QED BY <1>3, <2>1 DEF IteratesFrom
  <2>3. h[i - 1] \in Seq(A) BY <1>4, <2>1
  <2>4. next[i - 1][h[i - 1]] = IF (i - 1) + 1 \in 1..Len(ss) THEN h[i - 1] \o ss[(i - 1) + 1] ELSE h[i - 1] BY <2>1, <2>3
  <2> HIDE DEF next
  <2> QED BY <2>1, <2>2, <2>4
<1> QED BY <1>4, <1>5 DEF JoinsTo

\* FlattenSeq is the last join.
LEMMA FlattenSeqJoins ==
  ASSUME NEW A, NEW ss \in Seq(Seq(A)), NEW h, JoinsTo(h, ss, A)
  PROVE  FlattenSeq(ss) = h[Len(ss)]
<1>0. h \in [Nat -> Seq(A)] /\ h[0] = <<>> /\ \A i \in 1..Len(ss) : h[i] = h[i - 1] \o ss[i] BY DEF JoinsTo
<1>1. CASE Len(ss) = 0
  <2>1. ss = <<>> BY <1>1
  <2> QED BY <2>1, <1>0 DEF FlattenSeq
<1>2. CASE Len(ss) # 0
  <2> DEFINE Flat(f) == f = [i \in 1..Len(ss) |-> IF i = 1 THEN ss[i] ELSE f[i - 1] \o ss[i]]
             flat == CHOOSE f : Flat(f)
  <2>0. h[1] = h[0] \o ss[1] 
    <3>1. 1 \in 1..Len(ss) /\ 1 - 1 = 0 BY <1>2
    <3> QED BY <1>0, <3>1
  <2>1. Flat([i \in 1..Len(ss) |-> h[i]])
    <3>1. ASSUME NEW i \in 1..Len(ss) PROVE h[i] = IF i = 1 THEN ss[i] ELSE [j \in 1..Len(ss) |-> h[j]][i - 1] \o ss[i]
      <4>1. CASE i = 1 
        <5>1. h[1] = h[0] \o ss[1] BY <2>0
        <5>2. ss[1] \in Seq(A) BY <4>1
        <5> QED BY <4>1, <5>1, <5>2, <1>0
      <4>2. CASE i # 1
        <5>1. i - 1 \in 1..Len(ss) BY <4>2
        <5>2. h[i] = h[i - 1] \o ss[i] BY <1>0
        <5> QED BY <4>2, <5>1, <5>2
      <4> QED BY <4>1, <4>2
    <3> QED BY <3>1
  <2>2. Flat(flat) 
    <3> HIDE DEF Flat
    <3> QED BY <2>1
  <2> HIDE DEF flat
  <2> DEFINE Same == {i \in Nat : i + 1 \in 1..Len(ss) => flat[i + 1] = h[i + 1]}
  <2>3. 0 \in Same 
    <3>1. flat[1] = ss[1] BY <2>2, <1>2
    <3>3. ss[1] \in Seq(A) BY <1>2
    <3>4. h[1] = ss[1] BY <2>0, <3>3, <1>0
    <3> QED BY <3>1, <3>4
  <2>4. ASSUME NEW i \in Nat, i \in Same PROVE i + 1 \in Same
    <3> SUFFICES ASSUME (i + 1) + 1 \in 1..Len(ss) PROVE flat[(i + 1) + 1] = h[(i + 1) + 1] OBVIOUS
    <3>1. i + 1 \in 1..Len(ss) /\ ((i + 1) + 1) - 1 = i + 1 /\ (i + 1) + 1 # 1 OBVIOUS
    <3>2. flat[(i + 1) + 1] = flat[i + 1] \o ss[(i + 1) + 1] BY <2>2, <3>1
    <3>3. h[(i + 1) + 1] = h[i + 1] \o ss[(i + 1) + 1] BY <1>0, <3>1
    <3> QED BY <2>4, <3>1, <3>2, <3>3
  <2>5. Nat \subseteq Same 
    <3> HIDE DEF Same
    <3> QED BY <2>3, <2>4, SetInduction
  <2>6. flat[Len(ss)] = h[Len(ss)]
    <3>1. Len(ss) - 1 \in Nat /\ (Len(ss) - 1) + 1 = Len(ss) BY <1>2
    <3>2. Len(ss) - 1 \in Same BY <2>5, <3>1
    <3>3. Len(ss) \in 1..Len(ss) BY <3>1
    <3> QED BY <3>1, <3>2, <3>3
  <2>7. FlattenSeq(ss) = flat[Len(ss)] BY <1>2, Zenon DEF FlattenSeq, flat
  <2> QED BY <2>6, <2>7
<1> QED BY <1>1, <1>2

\* FlattenSeq gives a sequence of the elements.
LEMMA FlattenSeqType ==
  ASSUME NEW A, NEW ss \in Seq(Seq(A))
  PROVE  FlattenSeq(ss) \in Seq(A)
<1>1. PICK h : JoinsTo(h, ss, A) BY JoinExists
<1>2. FlattenSeq(ss) = h[Len(ss)] BY <1>1, FlattenSeqJoins
<1>3. Len(ss) \in Nat OBVIOUS
<1> QED BY <1>1, <1>2, <1>3 DEF JoinsTo

\* FlattenSeq of nothing.
LEMMA FlattenSeqEmpty == FlattenSeq(<<>>) = <<>>
BY DEF FlattenSeq

\* FlattenSeq of one sequence more.
LEMMA FlattenSeqAppend ==
  ASSUME NEW A, NEW ss \in Seq(Seq(A)), NEW s \in Seq(A)
  PROVE  FlattenSeq(Append(ss, s)) = FlattenSeq(ss) \o s
<1> DEFINE more == Append(ss, s)
<1>1. more \in Seq(Seq(A)) /\ Len(more) = Len(ss) + 1 /\ Len(ss) \in Nat OBVIOUS
<1>2. \A i \in 1..Len(ss) : more[i] = ss[i] OBVIOUS
<1>3. more[Len(ss) + 1] = s OBVIOUS
<1> HIDE DEF more
<1>4. PICK h : JoinsTo(h, more, A) BY <1>1, JoinExists
<1>5. JoinsTo(h, ss, A)
  <2>1. \A i \in 1..Len(ss) : i \in 1..Len(more) BY <1>1
  <2> QED BY <1>2, <1>4, <2>1 DEF JoinsTo
<1>6. FlattenSeq(more) = h[Len(more)] /\ FlattenSeq(ss) = h[Len(ss)]
  BY <1>1, <1>4, <1>5, FlattenSeqJoins
<1>7. h[Len(ss) + 1] = h[(Len(ss) + 1) - 1] \o more[Len(ss) + 1]
  <2>1. Len(ss) + 1 \in 1..Len(more) BY <1>1
  <2> QED BY <2>1, <1>4 DEF JoinsTo
<1>8. (Len(ss) + 1) - 1 = Len(ss) BY <1>1
<1>9. FlattenSeq(more) = FlattenSeq(ss) \o s BY <1>1, <1>3, <1>6, <1>7, <1>8
<1> QED BY <1>9 DEF more

\* Induction over finite sequences.
LEMMA SeqInduction ==
  ASSUME NEW A, NEW T, <<>> \in T,
         \A s \in Seq(A), x \in A : s \in T => Append(s, x) \in T
  PROVE  Seq(A) \subseteq T
<1> DEFINE Done == {n \in Nat : \A s \in Seq(A) : Len(s) = n => s \in T}
<1>1. 0 \in Done
  <2>1. \A s \in Seq(A) : Len(s) = 0 => s = <<>> OBVIOUS
  <2> QED BY <2>1
<1>2. ASSUME NEW n \in Nat, n \in Done PROVE n + 1 \in Done
  <2> SUFFICES ASSUME NEW s \in Seq(A), Len(s) = n + 1 PROVE s \in T OBVIOUS
  <2> DEFINE front == SubSeq(s, 1, n)
  <2>1. front \in Seq(A) /\ Len(front) = n /\ s[n + 1] \in A OBVIOUS
  <2>2. s = Append(front, s[n + 1]) OBVIOUS
  <2>3. front \in T BY <1>2, <2>1
  <2> HIDE DEF front
  <2> QED BY <2>1, <2>2, <2>3
<1>3. Nat \subseteq Done
  <2> HIDE DEF Done
  <2> QED BY <1>1, <1>2, SetInduction
<1> QED BY <1>3

\* FlattenSeq of two sequences of sequences.
LEMMA FlattenSeqConcat ==
  ASSUME NEW A, NEW ss \in Seq(Seq(A)), NEW tt \in Seq(Seq(A))
  PROVE  FlattenSeq(ss \o tt) = FlattenSeq(ss) \o FlattenSeq(tt)
<1> DEFINE T == {t \in Seq(Seq(A)) : FlattenSeq(ss \o t) = FlattenSeq(ss) \o FlattenSeq(t)}
<1>1. <<>> \in T
  <2>1. ss \o <<>> = ss /\ <<>> \in Seq(Seq(A)) OBVIOUS
  <2>2. FlattenSeq(ss) \o <<>> = FlattenSeq(ss) BY FlattenSeqType
  <2> QED BY <2>1, <2>2, FlattenSeqEmpty
<1>2. ASSUME NEW t \in Seq(Seq(A)), NEW x \in Seq(A), t \in T PROVE Append(t, x) \in T
  <2>1. Append(t, x) \in Seq(Seq(A)) /\ ss \o t \in Seq(Seq(A)) OBVIOUS
  <2>2. ss \o Append(t, x) = Append(ss \o t, x) OBVIOUS
  <2>3. FlattenSeq(Append(ss \o t, x)) = FlattenSeq(ss \o t) \o x BY <2>1, FlattenSeqAppend
  <2>4. FlattenSeq(Append(t, x)) = FlattenSeq(t) \o x BY FlattenSeqAppend
  <2>5. (FlattenSeq(ss) \o FlattenSeq(t)) \o x = FlattenSeq(ss) \o (FlattenSeq(t) \o x)
    BY FlattenSeqType, ConcatAssociative
  <2> QED BY <1>2, <2>1, <2>2, <2>3, <2>4, <2>5
<1>3. Seq(Seq(A)) \subseteq T
  <2> HIDE DEF T
  <2> QED BY <1>1, <1>2, SeqInduction
<1> QED BY <1>3

(***************************************************************************)
(* Blocks: process_script_list keeps what the items of a script run.       *)
(***************************************************************************)

PieceType == [is : {"text", "node", "marker"},
           runs : {"command", "text", "files", "node", "lib", "gone", "tool", "large", "nothing"}, args : Int]

\* An item becomes pieces.
LEMMA ItemPieces ==
  ASSUME NEW item \in Items
  PROVE  AsItIs(item) \in Seq(PieceType) /\ InlineItem(item) \in Seq(PieceType)
<1>1. /\ item.calls \in {"command", "text", "files", "node", "lib", "gone", "tool", "large"}
      /\ item.args \in Int /\ item.args - 1 \in Int
  BY DEF Items, Item
<1>2. \A is \in {"text", "node", "marker"} :
        \A effect \in {"command", "text", "files", "node", "lib", "gone", "tool", "large", "nothing"} :
          \A args \in Int : Piece(is, effect, args) \in PieceType
  BY DEF Piece, PieceType
<1>3. Marker \in PieceType BY <1>2 DEF Marker
<1>4. \A p \in PieceType : <<p>> \in Seq(PieceType) /\ <<Marker, p, Marker>> \in Seq(PieceType) BY <1>3
<1> HIDE DEF PieceType
<1>5. AsItIs(item) \in Seq(PieceType) BY <1>1, <1>2, <1>4 DEF AsItIs
<1>6. InlineScript(item) \in Seq(PieceType) BY <1>1, <1>2, <1>4 DEF InlineScript
<1>7. InlineArtifact(item) \in Seq(PieceType) BY <1>1, <1>2, <1>4 DEF InlineArtifact
<1>8. InlineProgram(item) \in Seq(PieceType)
  <2>1. (IF item.calls = "lib" THEN item.args - 1 ELSE item.args) \in Int BY <1>1
  <2> QED BY <1>1, <1>2, <1>4, <2>1 DEF InlineProgram
<1> QED BY <1>5, <1>6, <1>7, <1>8 DEF InlineItem

\* Nothing has no effects.
LEMMA EffectsEmpty == Effects(<<>>) = <<>>
<1>1. [i \in DOMAIN <<>> |-> IF <<>>[i].is = "marker" THEN <<>> ELSE << <<>>[i]>>] = <<>> OBVIOUS
<1> QED BY <1>1, FlattenSeqEmpty DEF Effects

\* The effects of one piece more.
LEMMA EffectsAppend ==
  ASSUME NEW s \in Seq(PieceType), NEW p \in PieceType
  PROVE  /\ Effects(s) \in Seq(PieceType)
         /\ Effects(Append(s, p)) = IF p.is = "marker" THEN Effects(s) ELSE Append(Effects(s), p)
<1> DEFINE e(q) == IF q.is = "marker" THEN <<>> ELSE <<q>>
           es == [i \in DOMAIN s |-> e(s[i])]
           both == [i \in DOMAIN Append(s, p) |-> e(Append(s, p)[i])]
<1>1. \A q \in PieceType : e(q) \in Seq(PieceType) OBVIOUS
<1> HIDE DEF e
<1>2. es \in Seq(Seq(PieceType))
  <2>1. DOMAIN s = 1..Len(s) /\ \A i \in 1..Len(s) : e(s[i]) \in Seq(PieceType) BY <1>1
  <2> QED BY <2>1
<1>3. both = Append(es, e(p)) BY <1>1
<1> HIDE DEF es, both
<1>4. FlattenSeq(both) = FlattenSeq(es) \o e(p) BY <1>1, <1>2, <1>3, FlattenSeqAppend
<1>5. FlattenSeq(es) \in Seq(PieceType) BY <1>2, FlattenSeqType
<1>6. Effects(s) = FlattenSeq(es) /\ Effects(Append(s, p)) = FlattenSeq(both) BY DEF es, both, e, Effects
<1> QED BY <1>4, <1>5, <1>6 DEF e

\* Effects add up.
LEMMA EffectsConcat ==
  ASSUME NEW s \in Seq(PieceType), NEW t \in Seq(PieceType)
  PROVE  Effects(s \o t) = Effects(s) \o Effects(t)
<1> DEFINE e(q) == IF q.is = "marker" THEN <<>> ELSE <<q>>
           es(u) == [i \in DOMAIN u |-> e(u[i])]
<1>1. \A q \in PieceType : e(q) \in Seq(PieceType) OBVIOUS
<1>0. \A u \in Seq(PieceType) : Effects(u) = FlattenSeq(es(u)) BY DEF Effects
<1> HIDE DEF e
<1>2. \A u \in Seq(PieceType) : es(u) \in Seq(Seq(PieceType))
  <2> TAKE u \in Seq(PieceType)
  <2>1. DOMAIN u = 1..Len(u) /\ \A i \in 1..Len(u) : e(u[i]) \in Seq(PieceType) BY <1>1
  <2> QED BY <2>1
<1>3. es(s \o t) = es(s) \o es(t)
  <2>1. /\ DOMAIN s = 1..Len(s) /\ DOMAIN t = 1..Len(t) /\ DOMAIN (s \o t) = 1..(Len(s) + Len(t))
        /\ Len(s) \in Nat /\ Len(t) \in Nat
    OBVIOUS
  <2>2. Len(es(s)) = Len(s) /\ Len(es(t)) = Len(t)
        /\ Len(es(s \o t)) = Len(s) + Len(t) 
    <3>1. \A u \in Seq(PieceType) : Len(es(u)) = Len(u) OBVIOUS
    <3> QED BY <3>1, <2>1
  <2>3. ASSUME NEW i \in 1..(Len(s) + Len(t)) PROVE es(s \o t)[i] = (es(s) \o es(t))[i]
    <3>1. CASE i <= Len(s) BY <3>1, <2>1, <2>2
    <3>2. CASE ~ (i <= Len(s)) 
      <4>1. i - Len(s) \in 1..Len(t) BY <3>2, <2>1
      <4>2. (s \o t)[i] = t[i - Len(s)] BY <3>2, <2>1
      <4>3. (es(s) \o es(t))[i] = es(t)[i - Len(s)] BY <3>2, <2>1, <2>2
      <4> QED BY <4>1, <4>2, <4>3, <2>1
    <3> QED BY <3>1, <3>2
  <2>4. es(s \o t) \in Seq(Seq(PieceType)) /\ es(s) \o es(t) \in Seq(Seq(PieceType))
    <3>1. s \o t \in Seq(PieceType) OBVIOUS
    <3>2. \A x, y \in Seq(Seq(PieceType)) : x \o y \in Seq(Seq(PieceType)) OBVIOUS
    <3> HIDE DEF es
    <3> QED BY <3>1, <3>2, <1>2
  <2>5. Len(es(s) \o es(t)) = Len(s) + Len(t)
    <3>1. \A x, y \in Seq(Seq(PieceType)) : Len(x \o y) = Len(x) + Len(y) OBVIOUS
    <3> HIDE DEF es
    <3> QED BY <3>1, <1>2, <2>2
  <2> HIDE DEF es
  <2> QED BY <2>2, <2>3, <2>4, <2>5, SeqEqual
<1>5. FlattenSeq(es(s) \o es(t)) = FlattenSeq(es(s)) \o FlattenSeq(es(t))
  <2>1. es(s) \in Seq(Seq(PieceType)) /\ es(t) \in Seq(Seq(PieceType)) BY <1>2
  <2> HIDE DEF es
  <2> QED BY <2>1, FlattenSeqConcat
<1>4. s \o t \in Seq(PieceType) OBVIOUS
<1> HIDE DEF es
<1> QED BY <1>0, <1>3, <1>4, <1>5

\* A piece in its fence has the effect of the piece.
LEMMA EffectsOfPiece ==
  ASSUME NEW p \in PieceType, p.is # "marker"
  PROVE  Effects(<<p>>) = <<p>> /\ Effects(<<Marker, p, Marker>>) = <<p>>
<1>1. Marker \in PieceType /\ Marker.is = "marker" BY DEF Marker, Piece, PieceType
<1>2. <<p>> = Append(<<>>, p) /\ <<>> \in Seq(PieceType) OBVIOUS
<1>3. Effects(<<p>>) = <<p>> BY <1>2, EffectsAppend, EffectsEmpty
<1>4. Effects(<<Marker>>) = <<>>
  <2>1. <<Marker>> = Append(<<>>, Marker) OBVIOUS
  <2> QED BY <2>1, <1>1, <1>2, EffectsAppend, EffectsEmpty
<1>5. Effects(<<Marker, p>>) = <<p>>
  <2>1. <<Marker, p>> = Append(<<Marker>>, p) /\ <<Marker>> \in Seq(PieceType) BY <1>1
  <2> QED BY <2>1, <1>2, <1>4, EffectsAppend
<1>6. Effects(<<Marker, p, Marker>>) = <<p>>
  <2>1. <<Marker, p, Marker>> = Append(<<Marker, p>>, Marker) /\ <<Marker, p>> \in Seq(PieceType) BY <1>1
  <2> QED BY <2>1, <1>1, <1>5, EffectsAppend
<1> QED BY <1>3, <1>6

MayBeInlined(item) ==
  /\ ~ (item.calls = "gone" /\ (IsScriptCall(item) \/ IsProgramCall(item)))
  /\ item.calls = "lib" => item.args = 0 \/ item.marked

\* An item that may be inlined has, inlined, its own effect.
LEMMA EffectOfItem ==
  ASSUME NEW item \in Items, MayBeInlined(item)
  PROVE  Effects(InlineItem(item)) = AsItIs(item)
<1>1. /\ item.calls \in {"command", "text", "files", "node", "lib", "gone", "tool", "large"}
      /\ item.args \in Int
      /\ item.calls = "files" => item.args = 0
  BY DEF Items, Item
<1> DEFINE p == Piece("text", item.calls, item.args)
           n == Piece("node", item.calls, item.args)
<1>2. p \in PieceType /\ n \in PieceType /\ p.is # "marker" /\ n.is # "marker" BY <1>1 DEF Piece, PieceType
<1>3. Effects(<<p>>) = <<p>> /\ Effects(<<n>>) = <<n>> /\ Effects(<<Marker, p, Marker>>) = <<p>>
  BY <1>2, EffectsOfPiece
<1> HIDE DEF p, n
<1>4. AsItIs(item) = IF item.calls = "node" THEN <<n>> ELSE <<p>> BY DEF AsItIs, p, n
<1>5. Effects(AsItIs(item)) = AsItIs(item) BY <1>3, <1>4
<1>6. CASE IsScriptCall(item)
  <2>1. InlineScript(item) = IF emit_fences THEN <<Marker, p, Marker>> ELSE <<p>>
    BY <1>6 DEF InlineScript, IsScriptCall, p
  <2>2. item.calls # "node" /\ item.calls # "files" /\ ~ IsProgramCall(item)
    BY <1>6 DEF IsScriptCall, IsProgramCall
  <2> QED BY <1>3, <1>4, <1>6, <2>1, <2>2 DEF InlineItem
<1>7. CASE item.calls = "files"
  <2>1. InlineArtifact(item) = <<Marker, p, Marker>> BY <1>1, <1>7 DEF InlineArtifact, p
  <2>2. ~ IsScriptCall(item) /\ ~ IsProgramCall(item) /\ item.calls # "node"
    BY <1>7 DEF IsScriptCall, IsProgramCall
  <2> QED BY <1>3, <1>4, <1>7, <2>1, <2>2 DEF InlineItem
<1>8. CASE ~ IsScriptCall(item) /\ item.calls # "files" /\ IsProgramCall(item) /\ item.calls # "large"
  <2>1. item.calls # "lib" BY <1>8 DEF IsProgramCall, MayBeInlined, IsScriptCall
  <2>2. InlineProgram(item) = <<Marker, p, Marker>> BY <2>1 DEF InlineProgram, p
  <2>3. item.calls # "node" BY <1>8 DEF IsProgramCall
  <2> QED BY <1>3, <1>4, <1>8, <2>2, <2>3 DEF InlineItem
<1>9. CASE ~ IsScriptCall(item) /\ item.calls # "files" /\ ~ (IsProgramCall(item) /\ item.calls # "large")
  BY <1>5, <1>9 DEF InlineItem
<1> QED BY <1>6, <1>7, <1>8, <1>9

PiecesOf(b) == FlattenSeq([i \in DOMAIN b |-> InlineItem(b[i])])
Meaning(b) == FlattenSeq([i \in DOMAIN b |-> AsItIs(b[i])])

\* The pieces and the meaning of one item more.
LEMMA BlockGrows ==
  ASSUME NEW b \in Seq(Items), NEW item \in Items
  PROVE  /\ PiecesOf(b) \in Seq(PieceType) /\ Meaning(b) \in Seq(PieceType)
         /\ PiecesOf(Append(b, item)) = PiecesOf(b) \o InlineItem(item)
         /\ Meaning(Append(b, item)) = Meaning(b) \o AsItIs(item)
<1> DEFINE more == Append(b, item)
           inl(c) == [i \in DOMAIN c |-> InlineItem(c[i])]
           asis(c) == [i \in DOMAIN c |-> AsItIs(c[i])]
<1>1. \A x \in Items : InlineItem(x) \in Seq(PieceType) /\ AsItIs(x) \in Seq(PieceType) BY ItemPieces
<1>2. inl(b) \in Seq(Seq(PieceType)) /\ asis(b) \in Seq(Seq(PieceType))
  <2>1. DOMAIN b = 1..Len(b) /\ \A i \in 1..Len(b) : b[i] \in Items OBVIOUS
  <2> QED BY <1>1, <2>1
<1>3. inl(more) = Append(inl(b), InlineItem(item)) /\ asis(more) = Append(asis(b), AsItIs(item)) OBVIOUS
<1>4. FlattenSeq(inl(b)) \in Seq(PieceType) /\ FlattenSeq(asis(b)) \in Seq(PieceType) BY <1>2, FlattenSeqType
<1>5. /\ FlattenSeq(inl(more)) = FlattenSeq(inl(b)) \o InlineItem(item)
      /\ FlattenSeq(asis(more)) = FlattenSeq(asis(b)) \o AsItIs(item)
  BY <1>1, <1>2, <1>3, FlattenSeqAppend
<1> QED BY <1>4, <1>5 DEF PiecesOf, Meaning

\* The pieces of a block have the effects of its items, by induction over the block.
LEMMA InliningKeepsMeaning ==
  ASSUME NEW b \in Seq(Items), \A i \in DOMAIN b : MayBeInlined(b[i])
  PROVE  Effects(PiecesOf(b)) = Meaning(b)
<1> DEFINE T == {c \in Seq(Items) : (\A i \in DOMAIN c : MayBeInlined(c[i])) => Effects(PiecesOf(c)) = Meaning(c)}
<1>1. <<>> \in T
  <2>1. PiecesOf(<<>>) = <<>> /\ Meaning(<<>>) = <<>> 
    <3>1. [i \in DOMAIN <<>> |-> InlineItem(<<>>[i])] = <<>> /\ [i \in DOMAIN <<>> |-> AsItIs(<<>>[i])] = <<>> OBVIOUS
    <3> QED BY <3>1, FlattenSeqEmpty DEF PiecesOf, Meaning
  <2> QED BY <2>1, EffectsEmpty
<1>2. ASSUME NEW c \in Seq(Items), NEW item \in Items, c \in T PROVE Append(c, item) \in T
  <2>0. Append(c, item) \in Seq(Items) OBVIOUS
  <2> SUFFICES ASSUME \A i \in DOMAIN Append(c, item) : MayBeInlined(Append(c, item)[i])
               PROVE Effects(PiecesOf(Append(c, item))) = Meaning(Append(c, item))
    BY <2>0, Zenon
  <2>1. MayBeInlined(item) /\ \A i \in DOMAIN c : MayBeInlined(c[i])
    <3>1. DOMAIN Append(c, item) = 1..(Len(c) + 1) /\ Append(c, item)[Len(c) + 1] = item /\ Len(c) \in Nat OBVIOUS
    <3>2. \A i \in DOMAIN c : i \in DOMAIN Append(c, item) /\ Append(c, item)[i] = c[i] OBVIOUS
    <3>3. Len(c) + 1 \in DOMAIN Append(c, item) BY <3>1
    <3> QED BY <3>1, <3>2, <3>3
  <2>2. Effects(PiecesOf(c)) = Meaning(c) BY <1>2, <2>1
  <2>3. Effects(InlineItem(item)) = AsItIs(item) BY <2>1, EffectOfItem
  <2>4. Effects(PiecesOf(c) \o InlineItem(item)) = Effects(PiecesOf(c)) \o Effects(InlineItem(item))
    BY BlockGrows, ItemPieces, EffectsConcat
  <2> QED BY <2>2, <2>3, <2>4, BlockGrows
<1>3. Seq(Items) \subseteq T
  <2> HIDE DEF T
  <2> QED BY <1>1, <1>2, SeqInduction
<1> QED BY <1>3

RunStates == [out : Seq(Seq(PieceType)), buf : Seq(PieceType)]
Gathered(state) == FlattenSeq(state.out) \o state.buf

\* Flushing loses no piece.
LEMMA FlushGathers ==
  ASSUME NEW state \in RunStates
  PROVE  Flush(state) \in RunStates /\ Flush(state).buf = <<>> /\ FlattenSeq(Flush(state).out) = Gathered(state)
<1>1. state.out \in Seq(Seq(PieceType)) /\ state.buf \in Seq(PieceType) BY DEF RunStates
<1>2. CASE state.buf = <<>>
  <2>1. FlattenSeq(state.out) \o <<>> = FlattenSeq(state.out) BY <1>1, FlattenSeqType
  <2> QED BY <1>1, <1>2, <2>1 DEF Flush, RunStates, Gathered
<1>3. CASE state.buf # <<>>
  <2>1. FlattenSeq(Append(state.out, state.buf)) = FlattenSeq(state.out) \o state.buf BY <1>1, FlattenSeqAppend
  <2>2. Append(state.out, state.buf) \in Seq(Seq(PieceType)) BY <1>1
  <2> QED BY <1>1, <1>3, <2>1, <2>2 DEF Flush, RunStates, Gathered
<1> QED BY <1>2, <1>3

\* Collecting a piece adds it behind the pieces there are.
LEMMA CollectGathers ==
  ASSUME NEW state \in RunStates, NEW p \in PieceType
  PROVE  Collect(state, p) \in RunStates /\ Gathered(Collect(state, p)) = Append(Gathered(state), p)
<1>1. state.out \in Seq(Seq(PieceType)) /\ state.buf \in Seq(PieceType) BY DEF RunStates
<1>0. Gathered(state) \in Seq(PieceType) BY <1>1, FlattenSeqType DEF Gathered
<1>2. CASE p.is = "node"
  <2> DEFINE done == Flush(state)
  <2>1. done \in RunStates /\ done.buf = <<>> /\ FlattenSeq(done.out) = Gathered(state) BY FlushGathers
  <2> HIDE DEF done
  <2>2. Collect(state, p) = [done EXCEPT !.out = Append(@, <<p>>)] BY <1>2 DEF Collect, done
  <2>3. done.out \in Seq(Seq(PieceType)) BY <2>1 DEF RunStates
  <2>4. <<p>> \in Seq(PieceType) OBVIOUS
  <2>5. Append(done.out, <<p>>) \in Seq(Seq(PieceType)) BY <2>3, <2>4
  <2>6. Collect(state, p) = [out |-> Append(done.out, <<p>>), buf |-> <<>>] BY <2>1, <2>2 DEF RunStates
  <2>7. FlattenSeq(Append(done.out, <<p>>)) = Gathered(state) \o <<p>> BY <2>1, <2>3, <2>4, FlattenSeqAppend
  <2>8. (Gathered(state) \o <<p>>) \o <<>> = Append(Gathered(state), p)
    <3>1. \A u \in Seq(PieceType) : (u \o <<p>>) \o <<>> = Append(u, p) OBVIOUS
    <3> QED BY <1>0, <3>1
  <2>9. Gathered(Collect(state, p)) = (Gathered(state) \o <<p>>) \o <<>>
    <3>1. Collect(state, p).out = Append(done.out, <<p>>) /\ Collect(state, p).buf = <<>> BY <2>6
    <3> QED BY <2>7, <3>1, Zenon DEF Gathered
  <2>10. Collect(state, p) \in RunStates BY <2>5, <2>6 DEF RunStates
  <2> QED BY <2>8, <2>9, <2>10
<1>3. CASE p.is # "node"
  <2>1. Collect(state, p) = [out |-> state.out, buf |-> Append(state.buf, p)] BY <1>3 DEF Collect, RunStates
  <2>2. Append(state.buf, p) \in Seq(PieceType) BY <1>1
  <2>3. FlattenSeq(state.out) \in Seq(PieceType) BY <1>1, FlattenSeqType
  <2>4. FlattenSeq(state.out) \o Append(state.buf, p) = Append(FlattenSeq(state.out) \o state.buf, p)
    <3>1. \A u, v \in Seq(PieceType) : u \o Append(v, p) = Append(u \o v, p) OBVIOUS
    <3> QED BY <1>1, <2>3, <3>1
  <2> QED BY <1>1, <2>1, <2>2, <2>4 DEF RunStates, Gathered
<1> QED BY <1>2, <1>3

\* compact_runs_to_literal keeps every piece in its place: by induction over the
\* fold, what is flushed and what waits in the run are together the pieces read.
LEMMA CompactKeepsPieces ==
  ASSUME NEW pieces \in Seq(PieceType)
  PROVE  FlattenSeq(compact_runs_to_literal(pieces)) = pieces
<1> DEFINE n == Len(pieces)
           start == [out |-> <<>>, buf |-> <<>>]
           Eq(g) == g = [s \in SUBSET (DOMAIN pieces) |->
                           IF s = {} THEN start ELSE Collect(g[s \ {Max(s)}], pieces[Max(s)])]
           iter == CHOOSE g : Eq(g)
           next == [i \in 1..n |-> [st \in RunStates |-> Collect(st, pieces[i])]]
<1>1. n \in Nat /\ DOMAIN pieces = 1..n /\ \A i \in 1..n : pieces[i] \in PieceType OBVIOUS
<1>2. start \in RunStates BY DEF RunStates
<1>3. next \in [1..n -> [RunStates -> RunStates]] BY <1>1, CollectGathers
<1> HIDE DEF n, start
<1>4. PICK f : FoldsOver(f, n, RunStates, start, next)
  <2> HIDE DEF next
  <2> QED BY <1>1, <1>2, <1>3, FoldExists
<1>5. Eq(f)
  <2>1. f \in [SUBSET (1..n) -> RunStates]
        /\ f = [s \in SUBSET (1..n) |-> IF s = {} THEN start ELSE next[Max(s)][f[s \ {Max(s)}]]]
    <3> HIDE DEF next
    <3> QED BY <1>4 DEF FoldsOver
  <2>2. ASSUME NEW s \in SUBSET (1..n), s # {}
        PROVE  next[Max(s)][f[s \ {Max(s)}]] = Collect(f[s \ {Max(s)}], pieces[Max(s)])
    <3>1. Max(s) \in 1..n BY <1>1, <2>2, MaxOfSet
    <3>2. f[s \ {Max(s)}] \in RunStates BY <2>1
    <3> QED BY <3>1, <3>2
  <2> HIDE DEF next
  <2> QED BY <1>1, <2>1, <2>2
<1>6. Eq(iter) 
  <2> HIDE DEF Eq
  <2> QED BY <1>5
<1>7. compact_runs_to_literal(pieces) = Flush(iter[DOMAIN pieces]).out
  BY Zenon DEF compact_runs_to_literal, Collected, FoldLeft, MapThenFoldSet, Collect, iter, Eq, start
<1> HIDE DEF iter
<1>8. iter[{}] = start BY <1>1, <1>6
<1>9. ASSUME NEW i \in 1..n PROVE iter[1..i] = Collect(iter[1..(i - 1)], pieces[i])
  <2>1. 1..i \in SUBSET (DOMAIN pieces) /\ 1..i # {} BY <1>1
  <2>2. Max(1..i) = i /\ (1..i) \ {i} = 1..(i - 1) BY <1>1, MaxOfInterval
  <2> QED BY <1>6, <2>1, <2>2
<1> HIDE DEF Eq
<1> DEFINE T == {i \in Nat : i <= n => /\ iter[1..i] \in RunStates
                                     /\ Gathered(iter[1..i]) = SubSeq(pieces, 1, i)}
<1>10. 0 \in T
  <2>1. 1..0 = {} /\ SubSeq(pieces, 1, 0) = <<>> OBVIOUS
  <2>2. Gathered(start) = <<>> BY FlattenSeqEmpty DEF Gathered, start
  <2> QED BY <1>2, <1>8, <2>1, <2>2
<1>11. ASSUME NEW i \in Nat, i \in T PROVE i + 1 \in T
  <2> SUFFICES ASSUME i + 1 <= n
               PROVE  iter[1..(i + 1)] \in RunStates /\ Gathered(iter[1..(i + 1)]) = SubSeq(pieces, 1, i + 1)
    OBVIOUS
  <2>1. i + 1 \in 1..n /\ (i + 1) - 1 = i BY <1>1
  <2>2. iter[1..i] \in RunStates /\ Gathered(iter[1..i]) = SubSeq(pieces, 1, i) BY <1>1, <1>11
  <2>3. iter[1..(i + 1)] = Collect(iter[1..i], pieces[i + 1]) BY <1>9, <2>1
  <2>4. SubSeq(pieces, 1, i + 1) = Append(SubSeq(pieces, 1, i), pieces[i + 1]) BY <2>1 DEF n
  <2>5. pieces[i + 1] \in PieceType BY <1>1, <2>1
  <2> QED BY <2>2, <2>3, <2>4, <2>5, CollectGathers
<1>12. Nat \subseteq T
  <2> HIDE DEF T
  <2> QED BY <1>10, <1>11, SetInduction
<1>13. iter[1..n] \in RunStates /\ Gathered(iter[1..n]) = pieces
  <2>1. SubSeq(pieces, 1, n) = pieces BY DEF n
  <2> QED BY <1>1, <1>12, <2>1
<1> QED BY <1>1, <1>7, <1>13, FlushGathers

BlockTypeOK == block \in Seq(Items) /\ style \in {"list", "single", "toplist"} /\ emit_fences \in BOOLEAN

\* A sequence cut into single pieces.
LEMMA SinglesFlatten ==
  ASSUME NEW pieces \in Seq(PieceType)
  PROVE  FlattenSeq([i \in DOMAIN pieces |-> <<pieces[i]>>]) = pieces
<1> DEFINE each(s) == [i \in DOMAIN s |-> <<s[i]>>]
           T == {s \in Seq(PieceType) : FlattenSeq(each(s)) = s}
<1>1. <<>> \in T
  <2>1. each(<<>>) = <<>> OBVIOUS
  <2> QED BY <2>1, FlattenSeqEmpty
<1>2. ASSUME NEW s \in Seq(PieceType), NEW p \in PieceType, s \in T PROVE Append(s, p) \in T
  <2>1. each(Append(s, p)) = Append(each(s), <<p>>) OBVIOUS
  <2>2. each(s) \in Seq(Seq(PieceType)) /\ <<p>> \in Seq(PieceType)
    <3>1. DOMAIN s = 1..Len(s) /\ \A i \in 1..Len(s) : <<s[i]>> \in Seq(PieceType) OBVIOUS
    <3> QED BY <3>1
  <2>3. FlattenSeq(Append(each(s), <<p>>)) = FlattenSeq(each(s)) \o <<p>>
    <3> HIDE DEF each
    <3> QED BY <2>2, FlattenSeqAppend
  <2>4. s \o <<p>> = Append(s, p) /\ Append(s, p) \in Seq(PieceType) OBVIOUS
  <2> QED BY <1>2, <2>1, <2>3, <2>4
<1>3. Seq(PieceType) \subseteq T
  <2> HIDE DEF T
  <2> QED BY <1>1, <1>2, SeqInduction
<1> QED BY <1>3

\* process_script_list keeps the pieces, whichever shape the result has.
LEMMA BlockKeepsPieces ==
  ASSUME block \in Seq(Items)
  PROVE  FlattenSeq(process_script_list) = Pieces
<1>1. Pieces \in Seq(PieceType)
  <2>1. Item("node", 0, FALSE) \in Items BY DEF Items
  <2> QED BY <2>1, BlockGrows DEF Pieces, PiecesOf
<1>2. FlattenSeq([i \in DOMAIN Pieces |-> <<Pieces[i]>>]) = Pieces BY <1>1, SinglesFlatten
<1>3. FlattenSeq(compact_runs_to_literal(Pieces)) = Pieces BY <1>1, CompactKeepsPieces
<1>4. FlattenSeq(<<Pieces>>) = Pieces
  <2>1. \A v \in Seq(PieceType) : <<v>> = Append(<<>>, v) /\ <<>> \o v = v OBVIOUS
  <2>2. <<>> \in Seq(Seq(PieceType)) OBVIOUS
  <2> QED BY <1>1, <2>1, <2>2, FlattenSeqAppend, FlattenSeqEmpty
<1> QED BY <1>2, <1>3, <1>4 DEF process_script_list

\* For every block of any length, in every style, compilation keeps what its items
\* run, in order and with their arguments (process_script_list).
THEOREM BlocksKeepTheirMeaning == BlockSpec => []BlockMeansTheSame
<1>1. BlockInit => BlockTypeOK BY DEF BlockInit, BlockTypeOK
<1>2. BlockTypeOK /\ [BlockNext]_blockVars => BlockTypeOK'
  <2> SUFFICES ASSUME BlockTypeOK, [BlockNext]_blockVars PROVE BlockTypeOK' OBVIOUS
  <2>1. ASSUME NEW item \in Items, AddItem(item) PROVE BlockTypeOK'
    <3>1. Append(block, item) \in Seq(Items) BY DEF BlockTypeOK
    <3> QED BY <2>1, <3>1 DEF BlockTypeOK, AddItem
  <2>2. CASE UNCHANGED blockVars BY <2>2 DEF BlockTypeOK, blockVars
  <2> QED BY <2>1, <2>2 DEF BlockNext
<1>3. BlockTypeOK => BlockMeansTheSame
  <2> SUFFICES ASSUME BlockTypeOK, ~ Refused,
                      \A i \in DOMAIN block : block[i].calls = "lib" => block[i].args = 0 \/ block[i].marked
               PROVE  Effects(FlattenSeq(process_script_list)) = Meaning(block)
    BY DEF BlockMeansTheSame, Meaning
  <2>1. block \in Seq(Items) BY DEF BlockTypeOK
  <2>2. \A i \in DOMAIN block : MayBeInlined(block[i]) BY DEF Refused, MayBeInlined
  <2>3. Pieces = PiecesOf(block) BY DEF Pieces, PiecesOf
  <2> QED BY <2>1, <2>2, <2>3, BlockKeepsPieces, InliningKeepsMeaning
<1> QED BY <1>1, <1>2, <1>3, PTL DEF BlockSpec

(***************************************************************************)
(* Inlining: the steps of inline_bash_source, and what pragmas mark.       *)
(***************************************************************************)

LineKinds == {"command", "source", "allow", "start", "end", "next", "drop"}
ScriptTypeOK ==
  /\ script \in [ScriptFiles -> Seq([kind : LineKinds, to : {"main", "lib", "outside", "gone"}])]
  /\ \A f \in ScriptFiles : \A i \in DOMAIN script[f] : script[f][i] \in LinesOf(f)

CommandNames == ScriptFiles \X Nat
ScriptTexts == Seq(CommandNames)
ReadErrors == {"none", "pragma", "depth", "not_found"}
ReadStates == [text : ScriptTexts, processed : SUBSET ScriptFiles, inBlock : BOOLEAN, skipNext : BOOLEAN, error : ReadErrors]
ReadTables == [ScriptFiles -> [SUBSET ScriptFiles -> ReadStates]]

\* What the steps of the inliner make of a state is a state.
LEMMA StateTypes ==
  /\ \A processed \in SUBSET ScriptFiles : Reading(processed) \in ReadStates
  /\ \A state \in ReadStates, error \in ReadErrors : Fail(state, error) \in ReadStates
  /\ \A state \in ReadStates, text \in ScriptTexts : Keep(state, text) \in ReadStates
  /\ \A state \in ReadStates, inlined \in ReadStates : Carry(state, inlined) \in ReadStates
  /\ \A state \in ReadStates : /\ [state EXCEPT !.inBlock = TRUE] \in ReadStates
                           /\ [state EXCEPT !.inBlock = FALSE] \in ReadStates
                           /\ [state EXCEPT !.skipNext = TRUE] \in ReadStates
<1>1. \A t, u \in ScriptTexts : t \o u \in ScriptTexts BY DEF ScriptTexts
<1>2. <<>> \in ScriptTexts BY DEF ScriptTexts
<1> HIDE DEF ScriptTexts, ScriptFiles
<1>3. \A processed \in SUBSET ScriptFiles : Reading(processed) \in ReadStates BY <1>2 DEF Reading, ReadStates, ReadErrors
<1>4. \A state \in ReadStates, error \in ReadErrors : Fail(state, error) \in ReadStates BY DEF Fail, ReadStates
<1>5. \A state \in ReadStates, text \in ScriptTexts : Keep(state, text) \in ReadStates BY <1>1 DEF Keep, ReadStates
<1>6. \A state \in ReadStates, inlined \in ReadStates : Carry(state, inlined) \in ReadStates BY <1>1 DEF Carry, ReadStates
<1>7. \A state \in ReadStates : /\ [state EXCEPT !.inBlock = TRUE] \in ReadStates
                            /\ [state EXCEPT !.inBlock = FALSE] \in ReadStates
                            /\ [state EXCEPT !.skipNext = TRUE] \in ReadStates
  BY DEF ReadStates
<1> QED BY <1>3, <1>4, <1>5, <1>6, <1>7

\* The lines of a script.
LEMMA LineTypes ==
  ASSUME ScriptTypeOK, NEW file \in ScriptFiles, NEW i \in 1..Len(script[file])
  PROVE  /\ script[file][i].kind \in LineKinds
         /\ script[file][i].kind \in {"source", "allow"} /\ Allowed(script[file][i]) => script[file][i].to \in ScriptFiles
         /\ i \in DOMAIN script[file] /\ script[file][i] \in LinesOf(file)
<1> DEFINE Lines == [kind : LineKinds, to : {"main", "lib", "outside", "gone"}]
<1>1. script[file] \in Seq(Lines) BY DEF ScriptTypeOK
<1>2. script[file][i] \in Lines /\ i \in DOMAIN script[file]
  <2> HIDE DEF Lines
  <2> QED BY <1>1
<1>3. script[file][i] \in LinesOf(file) BY <1>2 DEF ScriptTypeOK
<1>4. \A l \in Lines : l.kind \in LineKinds /\ (Allowed(l) => l.to \in ScriptFiles) BY DEF Allowed, ScriptFiles
<1> HIDE DEF Lines
<1> QED BY <1>2, <1>3, <1>4

\* A line that is read gives a state.
LEMMA ReadLineType ==
  ASSUME ScriptTypeOK, NEW state \in ReadStates, NEW file \in ScriptFiles, NEW i \in 1..Len(script[file]),
         NEW sourced \in ReadTables
  PROVE  ReadScriptLine(state, file, i, sourced) \in ReadStates
<1> DEFINE line == script[file][i]
<1>1. line.kind \in LineKinds /\ (line.kind \in {"source", "allow"} /\ Allowed(line) => line.to \in ScriptFiles)
  BY LineTypes
<1>2. <<<<file, i>>>> \in ScriptTexts /\ <<>> \in ScriptTexts
  <2>1. i \in Nat BY DEF ScriptTypeOK
  <2> QED BY <2>1 DEF ScriptTexts, CommandNames
<1>3. state.processed \in SUBSET ScriptFiles BY DEF ReadStates
<1>4. \A g \in ScriptFiles : sourced[g][state.processed] \in ReadStates BY <1>3 DEF ReadTables
<1>5. "pragma" \in ReadErrors /\ "not_found" \in ReadErrors BY DEF ReadErrors
<1> HIDE DEF line, ReadStates, ScriptTexts, ReadTables, ReadErrors, ScriptFiles
<1> QED BY <1>1, <1>2, <1>4, <1>5, StateTypes DEF ReadScriptLine, line, LineKinds

Finish(end) == IF end.error = "none" /\ end.inBlock THEN Fail(end, "pragma") ELSE end

ReadBy(h, file, processed, sourced) ==
  /\ h \in [0..Len(script[file]) -> ReadStates]
  /\ h[0] = Reading(processed \cup {file})
  /\ \A i \in 1..Len(script[file]) : h[i] = ReadScriptLine(h[i - 1], file, i, sourced)
  /\ ReadScript(file, processed, sourced) = Finish(h[Len(script[file])])

\* Reading a file goes through one state for each line.
LEMMA ReadScriptSteps ==
  ASSUME ScriptTypeOK, NEW file \in ScriptFiles, NEW processed \in SUBSET ScriptFiles, NEW sourced \in ReadTables
  PROVE  \E h : ReadBy(h, file, processed, sourced)
<1> DEFINE n == Len(script[file])
           lines == [i \in 1..n |-> i]
           start == Reading(processed \cup {file})
           Eq(g) == g = [s \in SUBSET (DOMAIN lines) |->
                           IF s = {} THEN start
                           ELSE ReadScriptLine(g[s \ {Max(s)}], file, lines[Max(s)], sourced)]
           iter == CHOOSE g : Eq(g)
           next == [i \in 1..n |-> [st \in ReadStates |-> ReadScriptLine(st, file, i, sourced)]]
<1>1. n \in Nat /\ DOMAIN lines = 1..n /\ \A i \in 1..n : lines[i] = i BY DEF ScriptTypeOK
<1>2. start \in ReadStates
  <2>1. processed \cup {file} \in SUBSET ScriptFiles OBVIOUS
  <2> QED BY <2>1, StateTypes
<1>3. next \in [1..n -> [ReadStates -> ReadStates]]
  <2> HIDE DEF ReadStates, ReadTables
  <2> QED BY ReadLineType
<1> HIDE DEF n, start, lines, ReadStates
<1>4. PICK f : FoldsOver(f, n, ReadStates, start, next)
  <2> HIDE DEF next
  <2> QED BY <1>1, <1>2, <1>3, FoldExists
<1>5. Eq(f)
  <2>1. f \in [SUBSET (1..n) -> ReadStates]
        /\ f = [s \in SUBSET (1..n) |-> IF s = {} THEN start ELSE next[Max(s)][f[s \ {Max(s)}]]]
    <3> HIDE DEF next
    <3> QED BY <1>4 DEF FoldsOver
  <2>2. ASSUME NEW s \in SUBSET (1..n), s # {}
        PROVE  next[Max(s)][f[s \ {Max(s)}]] = ReadScriptLine(f[s \ {Max(s)}], file, lines[Max(s)], sourced)
    <3>1. Max(s) \in 1..n BY <1>1, <2>2, MaxOfSet
    <3>2. f[s \ {Max(s)}] \in ReadStates BY <2>1
    <3> QED BY <1>1, <3>1, <3>2
  <2> HIDE DEF next
  <2> QED BY <1>1, <2>1, <2>2
<1>6. Eq(iter)
  <2> HIDE DEF Eq
  <2> QED BY <1>5
<1>7. ReadScript(file, processed, sourced) = Finish(iter[DOMAIN lines])
  BY Zenon DEF ReadScript, FoldLeft, MapThenFoldSet, iter, Eq, start, Finish, lines, n
<1> HIDE DEF iter
<1>8. iter[{}] = start BY <1>1, <1>6
<1>9. ASSUME NEW i \in 1..n PROVE iter[1..i] = ReadScriptLine(iter[1..(i - 1)], file, i, sourced)
  <2>1. 1..i \in SUBSET (DOMAIN lines) /\ 1..i # {}
    <3>1. i \in 1..i /\ 1..i \subseteq 1..n BY <1>1
    <3> QED BY <1>1, <3>1
  <2>2. Max(1..i) = i /\ (1..i) \ {i} = 1..(i - 1) BY <1>1, MaxOfInterval
  <2> QED BY <1>1, <1>6, <2>1, <2>2
<1> HIDE DEF Eq
<1> DEFINE T == {i \in Nat : i <= n => iter[1..i] \in ReadStates}
<1>10. 0 \in T
  <2>1. 1..0 = {} OBVIOUS
  <2> QED BY <1>2, <1>8, <2>1
<1>11. ASSUME NEW i \in Nat, i \in T PROVE i + 1 \in T
  <2> SUFFICES ASSUME i + 1 <= n PROVE iter[1..(i + 1)] \in ReadStates OBVIOUS
  <2>1. i + 1 \in 1..n /\ (i + 1) - 1 = i BY <1>1
  <2>2. iter[1..i] \in ReadStates BY <1>1, <1>11
  <2>3. iter[1..(i + 1)] = ReadScriptLine(iter[1..i], file, i + 1, sourced) BY <1>9, <2>1
  <2> QED BY <2>1, <2>2, <2>3, ReadLineType DEF n
<1>12. Nat \subseteq T
  <2> HIDE DEF T
  <2> QED BY <1>10, <1>11, SetInduction
<1> DEFINE h == [i \in 0..n |-> iter[1..i]]
<1>13. h \in [0..n -> ReadStates] BY <1>1, <1>12
<1>14. h[0] = start
  <2>1. 1..0 = {} /\ 0 \in 0..n BY <1>1
  <2> QED BY <1>8, <2>1
<1>15. \A i \in 1..n : h[i] = ReadScriptLine(h[i - 1], file, i, sourced) BY <1>1, <1>9
<1>16. ReadScript(file, processed, sourced) = Finish(h[n])
  <2>1. n \in 0..n BY <1>1
  <2> QED BY <1>1, <1>7, <2>1
<1> HIDE DEF h
<1> QED BY <1>13, <1>14, <1>15, <1>16 DEF ReadBy, n, start

\* Reading a file ends in a state.
LEMMA ReadScriptType ==
  ASSUME ScriptTypeOK, NEW file \in ScriptFiles, NEW processed \in SUBSET ScriptFiles, NEW sourced \in ReadTables
  PROVE  ReadScript(file, processed, sourced) \in ReadStates
<1>1. PICK h : ReadBy(h, file, processed, sourced) BY ReadScriptSteps
<1>2. Len(script[file]) \in Nat BY DEF ScriptTypeOK
<1>3. h[Len(script[file])] \in ReadStates BY <1>1, <1>2 DEF ReadBy
<1>4. "pragma" \in ReadErrors BY DEF ReadErrors
<1> QED BY <1>1, <1>3, <1>4, StateTypes DEF ReadBy, Finish

NextLevel(sourced, file, processed) ==
  IF file \in processed THEN Reading(processed) ELSE ReadScript(file, processed, sourced)

\* The equations of the inliner: at the depth, above it, for a file processed before.
LEMMA InlineLaw ==
  ASSUME ScriptTypeOK
  PROVE  /\ \A levels \in Nat : Inline[levels] \in ReadTables
         /\ \A file \in ScriptFiles, processed \in SUBSET ScriptFiles :
              Inline[0][file][processed] = Fail(Reading(processed), "depth")
         /\ \A levels \in Nat : \A file \in ScriptFiles, processed \in SUBSET ScriptFiles :
              Inline[levels + 1][file][processed] = NextLevel(Inline[levels], file, processed)
<1> DEFINE Row(g, levels) ==
             [file \in ScriptFiles |-> [processed \in SUBSET ScriptFiles |->
               IF levels = 0 THEN Fail(Reading(processed), "depth")
               ELSE IF file \in processed THEN Reading(processed)
               ELSE ReadScript(file, processed, g[levels - 1])]]
           Eq(g) == g = [levels \in Nat |-> Row(g, levels)]
           none == [file \in ScriptFiles |-> [processed \in SUBSET ScriptFiles |->
                      Fail(Reading(processed), "depth")]]
           More(t) == [file \in ScriptFiles |-> [processed \in SUBSET ScriptFiles |-> NextLevel(t, file, processed)]]
           more == [levels \in Nat |-> [t \in ReadTables |-> More(t)]]
<1> HIDE DEF ScriptFiles, ReadStates
<1>1. none \in ReadTables
  <2>1. "depth" \in ReadErrors BY DEF ReadErrors
  <2> QED BY <2>1, StateTypes DEF ReadTables
<1>2. \A t \in ReadTables : More(t) \in ReadTables
  <2>1. ASSUME NEW t \in ReadTables, NEW file \in ScriptFiles, NEW processed \in SUBSET ScriptFiles
        PROVE  NextLevel(t, file, processed) \in ReadStates
    BY StateTypes, ReadScriptType DEF NextLevel
  <2> QED BY <2>1 DEF ReadTables
<1>3. more \in [Nat -> [ReadTables -> ReadTables]]
  <2> HIDE DEF More, ReadTables
  <2> QED BY <1>2
<1> HIDE DEF ReadTables
<1>4. PICK f : IteratesFrom(f, ReadTables, none, more)
  <2> HIDE DEF more, none
  <2> QED BY <1>1, <1>3, NatRecursion
<1>5. f \in [Nat -> ReadTables] /\ f[0] = none /\ \A n \in Nat : f[n + 1] = More(f[n])
  <2>1. f \in [Nat -> ReadTables] /\ f[0] = none /\ \A n \in Nat : f[n + 1] = more[n][f[n]]
    <3> HIDE DEF more, none
    <3> QED BY <1>4 DEF IteratesFrom
  <2>2. \A n \in Nat : more[n][f[n]] = More(f[n])
    <3> HIDE DEF More
    <3> QED BY <2>1
  <2> HIDE DEF more, none, More
  <2> QED BY <2>1, <2>2
<1>6. Eq(f)
  <2>1. ASSUME NEW n \in Nat PROVE f[n] = Row(f, n)
    <3>1. CASE n = 0
      <4>1. Row(f, 0) = none OBVIOUS
      <4> HIDE DEF Row, none
      <4> QED BY <1>5, <3>1, <4>1
    <3>2. CASE n # 0
      <4>1. n - 1 \in Nat /\ (n - 1) + 1 = n BY <3>2
      <4>2. f[n] = More(f[n - 1])
        <5> HIDE DEF More
        <5> QED BY <1>5, <4>1
      <4>3. More(f[n - 1]) = Row(f, n) BY <3>2 DEF NextLevel
      <4> HIDE DEF Row, More
      <4> QED BY <4>2, <4>3
    <3> QED BY <3>1, <3>2
  <2> HIDE DEF Row
  <2> QED BY <1>5, <2>1
<1>7. Inline = CHOOSE g : Eq(g) BY DEF Inline, Eq, Row
<1>8. Eq(Inline)
  <2> HIDE DEF Eq
  <2> QED BY <1>6, <1>7
<1>9. \A levels \in Nat : Inline[levels] = Row(Inline, levels)
  <2> HIDE DEF Row
  <2> QED BY <1>8
<1>10. Inline[0] = none
  <2>1. Row(Inline, 0) = none OBVIOUS
  <2> HIDE DEF Row, none
  <2> QED BY <1>9, <2>1
<1>11. ASSUME NEW levels \in Nat PROVE Inline[levels + 1] = More(Inline[levels])
  <2>1. levels + 1 \in Nat /\ levels + 1 # 0 /\ (levels + 1) - 1 = levels OBVIOUS
  <2>2. Row(Inline, levels + 1) = More(Inline[levels]) BY <2>1 DEF NextLevel
  <2> HIDE DEF Row, More
  <2> QED BY <1>9, <2>1, <2>2
<1> DEFINE T == {n \in Nat : Inline[n] \in ReadTables}
<1>12. Nat \subseteq T
  <2>1. 0 \in T
    <3> HIDE DEF none
    <3> QED BY <1>1, <1>10
  <2>2. \A n \in Nat : n \in T => n + 1 \in T
    <3> HIDE DEF More
    <3> QED BY <1>2, <1>11
  <2> HIDE DEF T
  <2> QED BY <2>1, <2>2, SetInduction
<1>13. \A file \in ScriptFiles, processed \in SUBSET ScriptFiles :
         Inline[0][file][processed] = Fail(Reading(processed), "depth")
  BY <1>10
<1>14. \A levels \in Nat : \A file \in ScriptFiles, processed \in SUBSET ScriptFiles :
         Inline[levels + 1][file][processed] = NextLevel(Inline[levels], file, processed)
  <2> TAKE levels \in Nat
  <2> TAKE file \in ScriptFiles, processed \in SUBSET ScriptFiles
  <2>1. More(Inline[levels])[file][processed] = NextLevel(Inline[levels], file, processed) OBVIOUS
  <2> HIDE DEF More
  <2> QED BY <1>11, <2>1
<1> QED BY <1>12, <1>13, <1>14

Apart(r, processed) ==
  processed \subseteq r.processed /\ \A k \in 1..Len(r.text) : r.text[k][1] \notin processed

\* A line adds no text of the files that were processed before its file was read.
LEMMA LineApart ==
  ASSUME ScriptTypeOK, NEW state \in ReadStates, NEW file \in ScriptFiles, NEW i \in 1..Len(script[file]),
         NEW sourced \in ReadTables, NEW processed \in SUBSET ScriptFiles, file \notin processed,
         Apart(state, processed),
         \A g \in ScriptFiles, q \in SUBSET ScriptFiles : Apart(sourced[g][q], q)
  PROVE  Apart(ReadScriptLine(state, file, i, sourced), processed)
<1> DEFINE line == script[file][i]
<1>1. line.kind \in {"source", "allow"} /\ Allowed(line) => line.to \in ScriptFiles BY LineTypes
<1>2. state.text \in ScriptTexts /\ state.processed \in SUBSET ScriptFiles BY DEF ReadStates
<1>3. ASSUME NEW t \in ScriptTexts, \A k \in 1..Len(t) : t[k][1] \notin processed
      PROVE  \A k \in 1..Len(state.text \o t) : (state.text \o t)[k][1] \notin processed
  BY <1>2, <1>3 DEF Apart, ScriptTexts
<1>4. ASSUME NEW t \in ScriptTexts, \A k \in 1..Len(t) : t[k][1] \notin processed PROVE Apart(Keep(state, t), processed)
  <2>1. CASE state.skipNext BY <2>1 DEF Keep, Apart, ReadStates
  <2>2. CASE ~ state.skipNext
    <3>1. Keep(state, t).text = state.text \o t /\ Keep(state, t).processed = state.processed
      BY <2>2 DEF Keep, ReadStates
    <3> QED BY <1>3, <1>4, <3>1 DEF Apart
  <2> QED BY <2>1, <2>2
<1>5. \A error \in ReadErrors : Apart(Fail(state, error), processed) BY DEF Fail, Apart, ReadStates
<1>6. /\ Apart([state EXCEPT !.inBlock = TRUE], processed) /\ Apart([state EXCEPT !.inBlock = FALSE], processed)
      /\ Apart([state EXCEPT !.skipNext = TRUE], processed)
  BY DEF Apart, ReadStates
<1>7. \A g \in ScriptFiles : Apart(Carry(state, sourced[g][state.processed]), processed)
  <2> TAKE g \in ScriptFiles
  <2> DEFINE r == sourced[g][state.processed]
  <2>1. r \in ReadStates BY <1>2 DEF ReadTables
  <2>2. Apart(r, state.processed) BY <1>2
  <2>3. r.text \in ScriptTexts /\ state.processed \subseteq r.processed BY <2>1, <2>2 DEF ReadStates, Apart
  <2>4. \A k \in 1..Len(r.text) : r.text[k][1] \notin processed BY <2>2 DEF Apart
  <2> HIDE DEF r
  <2>5. Carry(state, r).text = state.text \o r.text /\ Carry(state, r).processed = r.processed
    BY DEF Carry, ReadStates
  <2>6. \A k \in 1..Len(state.text \o r.text) : (state.text \o r.text)[k][1] \notin processed
    BY <1>3, <2>3, <2>4
  <2>7. Apart(Carry(state, r), processed) BY <2>3, <2>5, <2>6 DEF Apart
  <2> QED BY <2>7 DEF r
<1>8. Apart(Keep(state, <<<<file, i>>>>), processed) /\ Apart(Keep(state, <<>>), processed)
  <2>1. i \in Nat BY DEF ScriptTypeOK
  <2>2. <<<<file, i>>>> \in ScriptTexts /\ <<>> \in ScriptTexts BY <2>1 DEF ScriptTexts, CommandNames
  <2>3. \A k \in 1..Len(<<<<file, i>>>>) : <<<<file, i>>>>[k][1] \notin processed OBVIOUS
  <2>4. \A k \in 1..Len(<<>>) : <<>>[k][1] \notin processed OBVIOUS
  <2> QED BY <1>4, <2>2, <2>3, <2>4
<1>9. "pragma" \in ReadErrors /\ "not_found" \in ReadErrors BY DEF ReadErrors
<1>10. line.kind \in LineKinds BY LineTypes
<1> HIDE DEF line, ReadStates, ScriptTexts, ReadTables, ReadErrors, ScriptFiles, Apart
<1> QED BY <1>1, <1>5, <1>6, <1>7, <1>8, <1>9, <1>10 DEF ReadScriptLine, line, LineKinds

\* Neither does a file.
LEMMA ScriptApart ==
  ASSUME ScriptTypeOK, NEW file \in ScriptFiles, NEW sourced \in ReadTables,
         NEW processed \in SUBSET ScriptFiles, NEW apart \in SUBSET processed, file \notin apart,
         \A g \in ScriptFiles, q \in SUBSET ScriptFiles : Apart(sourced[g][q], q),
         NEW h, ReadBy(h, file, processed, sourced)
  PROVE  \A i \in 0..Len(script[file]) : Apart(h[i], apart)
<1> DEFINE n == Len(script[file])
           T == {i \in Nat : i <= n => Apart(h[i], apart)}
<1>1. n \in Nat BY DEF ScriptTypeOK
<1>2. h \in [0..n -> ReadStates] /\ \A i \in 1..n : h[i] = ReadScriptLine(h[i - 1], file, i, sourced) BY DEF ReadBy
<1>3. 0 \in T BY DEF ReadBy, Reading, Apart
<1>4. ASSUME NEW i \in Nat, i \in T PROVE i + 1 \in T
  <2> SUFFICES ASSUME i + 1 <= n PROVE Apart(h[i + 1], apart) OBVIOUS
  <2>1. i + 1 \in 1..n /\ (i + 1) - 1 = i /\ i \in 0..n BY <1>1
  <2>2. h[i] \in ReadStates /\ Apart(h[i], apart) BY <1>1, <1>2, <1>4, <2>1
  <2>3. h[i + 1] = ReadScriptLine(h[i], file, i + 1, sourced) BY <1>2, <2>1
  <2>4. apart \in SUBSET ScriptFiles OBVIOUS
  <2> HIDE DEF ReadStates, ReadTables, Apart
  <2> QED BY <2>1, <2>2, <2>3, <2>4, LineApart DEF n
<1>5. Nat \subseteq T
  <2> HIDE DEF T
  <2> QED BY <1>3, <1>4, SetInduction
<1> QED BY <1>1, <1>5

\* What a file becomes has no text of the files processed before, by induction over
\* the levels of sourcing.
LEMMA InlineApart ==
  ASSUME ScriptTypeOK
  PROVE  \A levels \in Nat : \A file \in ScriptFiles, processed \in SUBSET ScriptFiles :
           Apart(Inline[levels][file][processed], processed)
<1> DEFINE Good(n) == \A file \in ScriptFiles, processed \in SUBSET ScriptFiles :
                        Apart(Inline[n][file][processed], processed)
           T == {n \in Nat : Good(n)}
<1>0. \A processed \in SUBSET ScriptFiles :
        Apart(Reading(processed), processed) /\ Apart(Fail(Reading(processed), "depth"), processed)
  BY DEF Apart, Reading, Fail
<1>1. 0 \in T BY <1>0, InlineLaw
<1>2. ASSUME NEW n \in Nat, n \in T PROVE n + 1 \in T
  <2> SUFFICES ASSUME NEW file \in ScriptFiles, NEW processed \in SUBSET ScriptFiles
               PROVE  Apart(Inline[n + 1][file][processed], processed) OBVIOUS
  <2>1. Inline[n + 1][file][processed] = NextLevel(Inline[n], file, processed) BY InlineLaw
  <2>2. CASE file \in processed BY <1>0, <2>1, <2>2 DEF NextLevel
  <2>3. CASE file \notin processed
    <3>1. Inline[n] \in ReadTables BY InlineLaw
    <3>2. PICK h : ReadBy(h, file, processed, Inline[n]) BY <3>1, ReadScriptSteps
    <3>3. \A g \in ScriptFiles, q \in SUBSET ScriptFiles : Apart(Inline[n][g][q], q) BY <1>2
    <3>4. \A i \in 0..Len(script[file]) : Apart(h[i], processed) BY <2>3, <3>1, <3>2, <3>3, ScriptApart
    <3>5. Len(script[file]) \in 0..Len(script[file]) BY DEF ScriptTypeOK
    <3>6. Apart(h[Len(script[file])], processed) /\ h[Len(script[file])] \in ReadStates
      BY <3>2, <3>4, <3>5 DEF ReadBy
    <3>7. Apart(Finish(h[Len(script[file])]), processed) BY <3>6 DEF Finish, Apart, Fail, ReadStates
    <3> QED BY <2>1, <2>3, <3>2, <3>7 DEF NextLevel, ReadBy
  <2> QED BY <2>2, <2>3
<1>3. Nat \subseteq T
  <2> HIDE DEF T
  <2> QED BY <1>1, <1>2, SetInduction
<1> QED BY <1>3

\* A do-not-inline-next-line whose line has not come yet, before line i of main.
AwaitsLine(i) ==
  \E j \in 1..(i - 1) : /\ script["main"][j].kind = "next"
                        /\ \A k \in (j + 1)..(i - 1) : script["main"][k] \in Pragmas \/ InBlock(k)

\* The lines of main: pragmas and others.
LEMMA MainLines ==
  ASSUME ScriptTypeOK, NEW i \in 1..Len(script["main"])
  PROVE  /\ script["main"][i].kind \in LineKinds
         /\ script["main"][i] \in Pragmas <=> script["main"][i].kind \in {"start", "end", "next", "drop"}
<1>1. "main" \in ScriptFiles BY DEF ScriptFiles
<1>2. script["main"][i].kind \in LineKinds /\ script["main"][i] \in LinesOf("main") BY <1>1, LineTypes
<1>3. LinesOf("main") = {AnyCommand} \cup Sources("main") \cup Pragmas BY DEF LinesOf
<1>4. \A line \in {AnyCommand} \cup Sources("main") : line.kind \in {"command", "source", "allow"}
  BY DEF AnyCommand, Sources, Line
<1>5. \A line \in Pragmas : line.kind \in {"start", "end", "next", "drop"} BY DEF Pragmas, Line
<1> QED BY <1>2, <1>3, <1>4, <1>5

\* How a line begins, ends or leaves a block.
LEMMA BlockSteps ==
  ASSUME ScriptTypeOK, NEW i \in 1..Len(script["main"])
  PROVE  /\ ~ InBlock(1)
         /\ script["main"][i].kind = "start" => InBlock(i + 1)
         /\ script["main"][i].kind = "end" => ~ InBlock(i + 1)
         /\ script["main"][i].kind \notin {"start", "end"} => (InBlock(i + 1) <=> InBlock(i))
<1>1. i \in Nat /\ \A j \in Int : j \in 1..((i + 1) - 1) <=> j \in 1..(i - 1) \/ j = i BY DEF ScriptTypeOK
<1>2. \A j \in 1..(i - 1) : j \in Nat /\ j < i OBVIOUS
<1>3. ~ InBlock(1) BY DEF InBlock
<1>4. script["main"][i].kind = "start" => InBlock(i + 1)
  <2> SUFFICES ASSUME script["main"][i].kind = "start"
               PROVE  \E j \in {k \in 1..((i + 1) - 1) : script["main"][k].kind = "start"} :
                        \A k \in {l \in 1..((i + 1) - 1) : script["main"][l].kind = "end"} : k < j
    BY DEF InBlock
  <2> QED BY <1>1, <1>2
<1>5. script["main"][i].kind = "end" => ~ InBlock(i + 1)
  <2> SUFFICES ASSUME script["main"][i].kind = "end",
                      NEW j \in {k \in 1..((i + 1) - 1) : script["main"][k].kind = "start"}
               PROVE  \E k \in {l \in 1..((i + 1) - 1) : script["main"][l].kind = "end"} : ~ (k < j)
    BY DEF InBlock
  <2> QED BY <1>1, <1>2
<1>6. script["main"][i].kind \notin {"start", "end"} => (InBlock(i + 1) <=> InBlock(i))
  <2> SUFFICES ASSUME script["main"][i].kind \notin {"start", "end"} PROVE InBlock(i + 1) <=> InBlock(i) OBVIOUS
  <2>1. \A kind \in {"start", "end"} :
          {k \in 1..((i + 1) - 1) : script["main"][k].kind = kind} = {k \in 1..(i - 1) : script["main"][k].kind = kind}
    BY <1>1
  <2> QED BY <2>1 DEF InBlock
<1> QED BY <1>3, <1>4, <1>5, <1>6

\* How a line brings or uses up a do-not-inline-next-line.
LEMMA AwaitSteps ==
  ASSUME ScriptTypeOK, NEW i \in 1..Len(script["main"])
  PROVE  /\ ~ AwaitsLine(1)
         /\ script["main"][i].kind = "next" => AwaitsLine(i + 1)
         /\ script["main"][i].kind # "next" =>
              (AwaitsLine(i + 1) <=> AwaitsLine(i) /\ (script["main"][i] \in Pragmas \/ InBlock(i)))
<1>1. i \in Nat /\ \A j \in Int : j \in 1..((i + 1) - 1) <=> j \in 1..(i - 1) \/ j = i BY DEF ScriptTypeOK
<1>2. \A j \in 1..(i - 1) : \A k \in Int : k \in (j + 1)..((i + 1) - 1) <=> k \in (j + 1)..(i - 1) \/ k = i
  BY <1>1
<1>3. \A k \in (i + 1)..((i + 1) - 1) : FALSE BY <1>1
<1>4. ~ AwaitsLine(1) BY DEF AwaitsLine
<1>5. ASSUME script["main"][i].kind = "next" PROVE AwaitsLine(i + 1)
  BY <1>1, <1>3, <1>5 DEF AwaitsLine
<1>6. ASSUME script["main"][i].kind # "next"
      PROVE  AwaitsLine(i + 1) <=> AwaitsLine(i) /\ (script["main"][i] \in Pragmas \/ InBlock(i))
  BY <1>1, <1>2, <1>6 DEF AwaitsLine
<1> QED BY <1>4, <1>5, <1>6

\* A line of another script comes from a line of main before i that sources it.
SourcedBefore(text, i) ==
  \A f \in ScriptFiles \ {"main"} : \A k : Contains(text, <<f, k>>) =>
    \E j \in 1..Len(script["main"]) :
      j < i /\ script["main"][j].kind \in {"source", "allow"} /\ ~ MarkedOut(j)

\* What the inliner knows before line i of main.
MainState(state, i) ==
  /\ SourcedBefore(state.text, i)
  /\ state.inBlock <=> InBlock(i)
  /\ state.skipNext <=> AwaitsLine(i)
  /\ "main" \in state.processed
  /\ \A j \in 1..Len(script["main"]) : script["main"][j].kind = "command" =>
       (Contains(state.text, <<"main", j>>) <=> j < i /\ ~ MarkedOut(j))

\* What two texts contain together.
LEMMA ContainsConcat ==
  ASSUME NEW s \in ScriptTexts, NEW t \in ScriptTexts, NEW x
  PROVE  Contains(s \o t, x) <=> Contains(s, x) \/ Contains(t, x)
<1>1. Len(s) \in Nat /\ Len(t) \in Nat /\ Len(s \o t) = Len(s) + Len(t) BY DEF ScriptTexts
<1>2. \A k \in 1..Len(s) : (s \o t)[k] = s[k] BY DEF ScriptTexts
<1>3. \A k \in 1..Len(t) : (s \o t)[Len(s) + k] = t[k] /\ Len(s) + k \in 1..(Len(s) + Len(t)) BY <1>1 DEF ScriptTexts
<1>4. ASSUME NEW k \in 1..Len(s \o t), (s \o t)[k] = x PROVE Contains(s, x) \/ Contains(t, x)
  <2>1. CASE k <= Len(s) BY <1>1, <1>2, <1>4, <2>1 DEF Contains
  <2>2. CASE ~ (k <= Len(s))
    <3>1. k - Len(s) \in 1..Len(t) /\ Len(s) + (k - Len(s)) = k BY <1>1, <2>2
    <3>2. t[k - Len(s)] = x BY <1>3, <1>4, <3>1
    <3> QED BY <3>1, <3>2 DEF Contains
  <2> QED BY <2>1, <2>2
<1>5. ASSUME Contains(s, x) PROVE Contains(s \o t, x)
  <2>1. PICK k \in 1..Len(s) : s[k] = x BY <1>5 DEF Contains
  <2>2. k \in 1..Len(s \o t) BY <1>1
  <2> QED BY <1>2, <2>1, <2>2 DEF Contains
<1>6. ASSUME Contains(t, x) PROVE Contains(s \o t, x)
  <2>1. PICK k \in 1..Len(t) : t[k] = x BY <1>6 DEF Contains
  <2>2. Len(s) + k \in 1..Len(s \o t) /\ (s \o t)[Len(s) + k] = x BY <1>1, <1>3, <2>1
  <2> QED BY <2>2 DEF Contains
<1>7. Contains(s \o t, x) => \E k \in 1..Len(s \o t) : (s \o t)[k] = x BY DEF Contains
<1> QED BY <1>4, <1>5, <1>6, <1>7

\* A state that differs from another by its flags, and by its text and the files processed.
Flagged(new, state, inBlock, skipNext) ==
  /\ new.text = state.text /\ new.processed = state.processed
  /\ new.inBlock = inBlock /\ new.skipNext = skipNext /\ new.error = "none"
Extended(new, state, text, processed) ==
  /\ new.text = state.text \o text /\ new.processed = processed
  /\ new.inBlock = state.inBlock /\ new.skipNext = state.skipNext

\* What a line that is read without an error does to the state.
LineRead(next, state, file, i, sourced) ==
  LET line == script[file][i] IN
  /\ state.error = "none"
  /\ line.kind = "start" => Flagged(next, state, TRUE, state.skipNext)
  /\ line.kind = "end" => Flagged(next, state, FALSE, state.skipNext)
  /\ line.kind = "next" => Flagged(next, state, state.inBlock, TRUE)
  /\ line.kind = "drop" => Flagged(next, state, state.inBlock, state.skipNext)
  /\ line.kind \in {"command", "source", "allow"} /\ state.inBlock =>
       Flagged(next, state, TRUE, state.skipNext)
  /\ line.kind \in {"command", "source", "allow"} /\ ~ state.inBlock /\ state.skipNext =>
       Flagged(next, state, FALSE, FALSE)
  /\ line.kind = "command" /\ ~ state.inBlock /\ ~ state.skipNext =>
       Extended(next, state, <<<<file, i>>>>, state.processed)
  /\ line.kind \in {"source", "allow"} /\ ~ state.inBlock /\ ~ state.skipNext =>
       /\ line.to \in ScriptFiles
       /\ sourced[line.to][state.processed].error = "none"
       /\ Extended(next, state, sourced[line.to][state.processed].text,
                   sourced[line.to][state.processed].processed)

\* Each kind of line.
LEMMA LineCases ==
  ASSUME ScriptTypeOK, NEW state \in ReadStates, NEW file \in ScriptFiles, NEW i \in 1..Len(script[file]),
         NEW sourced \in ReadTables,
         NEW next, next = ReadScriptLine(state, file, i, sourced), next.error = "none"
  PROVE  LineRead(next, state, file, i, sourced)
<1> DEFINE line == script[file][i]
<1>1. line.kind \in LineKinds /\ (line.kind \in {"source", "allow"} /\ Allowed(line) => line.to \in ScriptFiles)
  BY LineTypes
<1>2. \A error : Fail(state, error).error = error BY DEF Fail, ReadStates
<1>3. state.error = "none" BY DEF ReadScriptLine
<1>4. state.inBlock \in BOOLEAN /\ state.skipNext \in BOOLEAN BY DEF ReadStates
<1>5. line.kind = "start" => Flagged(next, state, TRUE, state.skipNext)
  <2>1. line.kind = "start" => next = [state EXCEPT !.inBlock = TRUE] BY <1>2, <1>3 DEF ReadScriptLine
  <2> QED BY <1>3, <2>1 DEF Flagged, ReadStates
<1>6. line.kind = "end" => Flagged(next, state, FALSE, state.skipNext)
  <2>1. line.kind = "end" => next = [state EXCEPT !.inBlock = FALSE] BY <1>2, <1>3 DEF ReadScriptLine
  <2> QED BY <1>3, <2>1 DEF Flagged, ReadStates
<1>7. line.kind = "next" => Flagged(next, state, state.inBlock, TRUE)
  <2>1. line.kind = "next" => next = [state EXCEPT !.skipNext = TRUE] BY <1>3 DEF ReadScriptLine
  <2> QED BY <1>3, <2>1 DEF Flagged, ReadStates
<1>8. line.kind = "drop" => Flagged(next, state, state.inBlock, state.skipNext)
  <2>1. line.kind = "drop" => next = state BY <1>3 DEF ReadScriptLine
  <2> QED BY <1>3, <2>1 DEF Flagged
<1>9. line.kind \in {"command", "source", "allow"} /\ state.inBlock => Flagged(next, state, TRUE, state.skipNext)
  <2>1. line.kind \in {"command", "source", "allow"} /\ state.inBlock => next = state BY <1>3 DEF ReadScriptLine
  <2> QED BY <1>3, <1>4, <2>1 DEF Flagged
<1>10. \A text : state.skipNext => Flagged(Keep(state, text), state, state.inBlock, FALSE)
  BY <1>3 DEF Keep, Flagged, ReadStates
<1>11. \A text : ~ state.skipNext => Extended(Keep(state, text), state, text, state.processed)
  BY DEF Keep, Extended, ReadStates
<1>12. line.kind = "command" /\ ~ state.inBlock => next = Keep(state, <<<<file, i>>>>) BY <1>3 DEF ReadScriptLine
<1>13. line.kind \in {"source", "allow"} /\ ~ state.inBlock =>
         IF state.skipNext THEN next = Keep(state, <<>>)
         ELSE line.to \in ScriptFiles /\ next = Carry(state, sourced[line.to][state.processed])
  BY <1>1, <1>2, <1>3 DEF ReadScriptLine
<1>14. \A r : /\ Extended(Carry(state, r), state, r.text, r.processed)
              /\ Carry(state, r).error = r.error
  BY DEF Carry, Extended, ReadStates
<1>15. line.kind \in {"command", "source", "allow"} /\ ~ state.inBlock /\ state.skipNext =>
         Flagged(next, state, FALSE, FALSE)
  <2>1. state.inBlock = FALSE \/ state.inBlock BY <1>4
  <2> QED BY <1>10, <1>12, <1>13, <2>1
<1>16. line.kind = "command" /\ ~ state.inBlock /\ ~ state.skipNext =>
         Extended(next, state, <<<<file, i>>>>, state.processed)
  BY <1>11, <1>12
<1>17. line.kind \in {"source", "allow"} /\ ~ state.inBlock /\ ~ state.skipNext =>
         /\ line.to \in ScriptFiles
         /\ sourced[line.to][state.processed].error = "none"
         /\ Extended(next, state, sourced[line.to][state.processed].text,
                     sourced[line.to][state.processed].processed)
  BY <1>13, <1>14
<1> QED BY <1>3, <1>5, <1>6, <1>7, <1>8, <1>9, <1>15, <1>16, <1>17 DEF LineRead

\* A text apart from a file has none of its commands.
LEMMA ContainsNothing ==
  ASSUME NEW t \in ScriptTexts, NEW processed, \A k \in 1..Len(t) : t[k][1] \notin processed, NEW f \in processed, NEW j
  PROVE  ~ Contains(t, <<f, j>>)
BY DEF Contains

\* A line of main keeps the correspondence of flags and marks.
LEMMA MainStep ==
  ASSUME ScriptTypeOK, NEW state \in ReadStates, NEW i \in 1..Len(script["main"]), NEW sourced \in ReadTables,
         MainState(state, i), ReadScriptLine(state, "main", i, sourced).error = "none",
         \A g \in ScriptFiles, q \in SUBSET ScriptFiles : Apart(sourced[g][q], q)
  PROVE  state.error = "none" /\ MainState(ReadScriptLine(state, "main", i, sourced), i + 1)
<1>0. PICK next : next = ReadScriptLine(state, "main", i, sourced) OBVIOUS
<1> DEFINE line == script["main"][i]
           n == Len(script["main"])
<1>1. "main" \in ScriptFiles /\ i \in Nat /\ n \in Nat BY DEF ScriptFiles, ScriptTypeOK
<1>2. line.kind \in LineKinds /\ (line \in Pragmas <=> line.kind \in {"start", "end", "next", "drop"}) BY MainLines
<1>3. \A j \in 1..n : (j < i + 1 <=> j < i \/ j = i) BY <1>1
<1>4. MarkedOut(i) <=> InBlock(i) \/ AwaitsLine(i) BY DEF MarkedOut, AwaitsLine
<1>5. state.text \in ScriptTexts /\ state.processed \in SUBSET ScriptFiles BY DEF ReadStates
<1>6. state.inBlock = InBlock(i) /\ state.skipNext = AwaitsLine(i) /\ "main" \in state.processed
  <2>1. state.inBlock \in BOOLEAN /\ state.skipNext \in BOOLEAN BY DEF ReadStates
  <2>2. InBlock(i) \in BOOLEAN /\ AwaitsLine(i) \in BOOLEAN BY DEF InBlock, AwaitsLine
  <2> QED BY <2>1, <2>2 DEF MainState
\* what is read is settled by what the line does to the text and to the flags
<1>7. ASSUME "main" \in next.processed,
             next.inBlock <=> InBlock(i + 1), next.skipNext <=> AwaitsLine(i + 1),
             \A j \in 1..n : line.kind = "command" \/ j # i =>
               (Contains(next.text, <<"main", j>>) <=>
                  Contains(state.text, <<"main", j>>) \/ (j = i /\ ~ MarkedOut(i))),
             \A f \in ScriptFiles \ {"main"} : \A k : Contains(next.text, <<f, k>>) =>
               Contains(state.text, <<f, k>>) \/ (line.kind \in {"source", "allow"} /\ ~ MarkedOut(i))
      PROVE  MainState(next, i + 1)
  <2>1. ASSUME NEW j \in 1..n, script["main"][j].kind = "command"
        PROVE  Contains(next.text, <<"main", j>>) <=> j < i + 1 /\ ~ MarkedOut(j)
    <3>1. Contains(state.text, <<"main", j>>) <=> j < i /\ ~ MarkedOut(j) BY <2>1 DEF MainState
    <3>2. j < i => j # i BY <1>1
    <3> QED BY <1>3, <1>7, <2>1, <3>1, <3>2
  <2>2. SourcedBefore(next.text, i + 1)
    <3>1. SourcedBefore(state.text, i) /\ i \in 1..n BY DEF MainState
    <3> QED BY <1>3, <1>7, <3>1 DEF SourcedBefore
  <2> QED BY <1>6, <1>7, <2>1, <2>2 DEF MainState
<1>8. LineRead(next, state, "main", i, sourced) /\ state.error = "none"
  <2>1. LineRead(next, state, "main", i, sourced) BY <1>0, <1>1, LineCases
  <2> QED BY <2>1 DEF LineRead
\* a line that leaves the text alone: a pragma, or a line that is marked
<1>9. ASSUME NEW inBlock, NEW skipNext, Flagged(next, state, inBlock, skipNext),
             inBlock <=> InBlock(i + 1), skipNext <=> AwaitsLine(i + 1),
             line.kind = "command" => MarkedOut(i)
      PROVE  MainState(next, i + 1)
  <2>1. /\ next.text = state.text /\ next.processed = state.processed
        /\ next.inBlock = inBlock /\ next.skipNext = skipNext
    BY <1>9 DEF Flagged
  <2> QED BY <1>6, <1>7, <1>9, <2>1
<1>10. CASE line.kind = "start"
  <2>1. Flagged(next, state, TRUE, state.skipNext) BY <1>8, <1>10 DEF LineRead
  <2>2. InBlock(i + 1) /\ (AwaitsLine(i + 1) <=> AwaitsLine(i)) BY <1>2, <1>10, BlockSteps, AwaitSteps
  <2> QED BY <1>0, <1>6, <1>8, <1>9, <1>10, <2>1, <2>2
<1>11. CASE line.kind = "end"
  <2>1. Flagged(next, state, FALSE, state.skipNext) BY <1>8, <1>11 DEF LineRead
  <2>2. ~ InBlock(i + 1) /\ (AwaitsLine(i + 1) <=> AwaitsLine(i)) BY <1>2, <1>11, BlockSteps, AwaitSteps
  <2> QED BY <1>0, <1>6, <1>8, <1>9, <1>11, <2>1, <2>2
<1>12. CASE line.kind = "next"
  <2>1. Flagged(next, state, state.inBlock, TRUE) BY <1>8, <1>12 DEF LineRead
  <2>2. (InBlock(i + 1) <=> InBlock(i)) /\ AwaitsLine(i + 1) BY <1>2, <1>12, BlockSteps, AwaitSteps
  <2> QED BY <1>0, <1>6, <1>8, <1>9, <1>12, <2>1, <2>2
<1>13. CASE line.kind = "drop"
  <2>1. Flagged(next, state, state.inBlock, state.skipNext) BY <1>8, <1>13 DEF LineRead
  <2>2. (InBlock(i + 1) <=> InBlock(i)) /\ (AwaitsLine(i + 1) <=> AwaitsLine(i))
    BY <1>2, <1>13, BlockSteps, AwaitSteps
  <2> QED BY <1>0, <1>6, <1>8, <1>9, <1>13, <2>1, <2>2
<1>14. CASE line.kind \in {"command", "source", "allow"}
  <2>1. (InBlock(i + 1) <=> InBlock(i)) /\ (AwaitsLine(i + 1) <=> AwaitsLine(i) /\ InBlock(i))
    BY <1>2, <1>14, BlockSteps, AwaitSteps
  <2>2. CASE InBlock(i)
    <3>1. Flagged(next, state, TRUE, state.skipNext) BY <1>6, <1>8, <1>14, <2>2 DEF LineRead
    <3> QED BY <1>0, <1>4, <1>6, <1>8, <1>9, <2>1, <2>2, <3>1
  <2>3. CASE ~ InBlock(i) /\ AwaitsLine(i)
    <3>1. Flagged(next, state, FALSE, FALSE) BY <1>6, <1>8, <1>14, <2>3 DEF LineRead
    <3> QED BY <1>0, <1>4, <1>6, <1>8, <1>9, <2>1, <2>3, <3>1
  <2>4. CASE ~ InBlock(i) /\ ~ AwaitsLine(i)
    <3>1. PICK t \in ScriptTexts, p \in SUBSET ScriptFiles :
            /\ Extended(next, state, t, p) /\ state.processed \subseteq p
            /\ line.kind = "command" => t = <<<<"main", i>>>>
            /\ line.kind # "command" => \A j : ~ Contains(t, <<"main", j>>)
      <4>1. CASE line.kind = "command"
        <5>1. Extended(next, state, <<<<"main", i>>>>, state.processed)
          BY <1>6, <1>8, <2>4, <4>1 DEF LineRead
        <5>2. <<<<"main", i>>>> \in ScriptTexts BY <1>1 DEF ScriptTexts, CommandNames
        <5> QED BY <1>5, <4>1, <5>1, <5>2
      <4>2. CASE line.kind # "command"
        <5> DEFINE r == sourced[line.to][state.processed]
        <5>1. line.to \in ScriptFiles /\ Extended(next, state, r.text, r.processed)
          BY <1>6, <1>8, <1>14, <2>4, <4>2 DEF LineRead
        <5>2. r \in ReadStates BY <1>5, <5>1 DEF ReadTables
        <5>3. Apart(r, state.processed) BY <1>5, <5>1
        <5> HIDE DEF r
        <5>4. r.text \in ScriptTexts /\ r.processed \in SUBSET ScriptFiles BY <5>2 DEF ReadStates
        <5>5. state.processed \subseteq r.processed BY <5>3 DEF Apart
        <5>6. \A j : ~ Contains(r.text, <<"main", j>>)
          BY <1>6, <5>3, <5>4, ContainsNothing DEF Apart
        <5> QED BY <4>2, <5>1, <5>4, <5>5, <5>6
      <4> QED BY <4>1, <4>2
    <3>2. /\ next.text = state.text \o t /\ next.processed = p
          /\ next.inBlock = state.inBlock /\ next.skipNext = state.skipNext
      BY <3>1 DEF Extended
    <3>3. \A j : Contains(next.text, <<"main", j>>) <=> Contains(state.text, <<"main", j>>) \/ Contains(t, <<"main", j>>)
      BY <1>5, <3>2, ContainsConcat
    <3>4. \A j : Contains(<<<<"main", i>>>>, <<"main", j>>) <=> j = i BY DEF Contains
    <3>5. "main" \in next.processed BY <1>6, <3>1, <3>2
    <3>6. \A j \in 1..n : line.kind = "command" \/ j # i =>
            (Contains(next.text, <<"main", j>>) <=> Contains(state.text, <<"main", j>>) \/ (j = i /\ ~ MarkedOut(i)))
      BY <1>4, <2>4, <3>1, <3>3, <3>4
    <3>7. ASSUME NEW f \in ScriptFiles \ {"main"}, NEW k, Contains(next.text, <<f, k>>)
          PROVE  Contains(state.text, <<f, k>>) \/ (line.kind \in {"source", "allow"} /\ ~ MarkedOut(i))
      <4>1. Contains(state.text, <<f, k>>) \/ Contains(t, <<f, k>>)
        BY <1>5, <3>2, <3>7, ContainsConcat
      <4>2. ~ Contains(<<<<"main", i>>>>, <<f, k>>) BY DEF Contains
      <4> QED BY <1>4, <1>14, <2>4, <3>1, <4>1, <4>2
    <3> QED BY <1>0, <1>6, <1>7, <1>8, <2>1, <2>4, <3>2, <3>5, <3>6, <3>7
  <2> QED BY <2>2, <2>3, <2>4
<1> QED BY <1>2, <1>10, <1>11, <1>12, <1>13, <1>14 DEF LineKinds

\* An inlined script without an error is the last state of main.
LEMMA InlinedText ==
  ASSUME ScriptTypeOK, Inlined.error = "none"
  PROVE  \E h : /\ ReadBy(h, "main", {}, Inline[MaxDepth])
                /\ h[Len(script["main"])].error = "none"
                /\ Inlined = h[Len(script["main"])]
                /\ Inlined = ReadScript("main", {}, Inline[MaxDepth])
<1> DEFINE main == Inline[MaxDepth + 1]["main"][{}]
           n == Len(script["main"])
<1>1. "main" \in ScriptFiles /\ {} \in SUBSET ScriptFiles /\ MaxDepth \in Nat /\ MaxDepth + 1 \in Nat /\ n \in Nat
  BY InliningAssumption DEF ScriptFiles, ScriptTypeOK
<1>2. Inline[MaxDepth + 1] \in ReadTables /\ Inline[MaxDepth] \in ReadTables BY <1>1, InlineLaw
<1>3. main \in ReadStates BY <1>1, <1>2 DEF ReadTables
<1>4. Inlined = IF main.error = "none" /\ main.text = <<>> THEN Fail(main, "empty") ELSE main BY DEF Inlined
<1>5. Inlined = main /\ main.error = "none"
  <2> HIDE DEF main
  <2>1. Fail(main, "empty").error = "empty" BY <1>3 DEF Fail, ReadStates
  <2> QED BY <1>4, <2>1
<1>6. main = ReadScript("main", {}, Inline[MaxDepth]) BY <1>1, InlineLaw DEF NextLevel
<1> HIDE DEF main
<1>7. PICK h : ReadBy(h, "main", {}, Inline[MaxDepth]) BY <1>1, <1>2, ReadScriptSteps
<1>8. main = Finish(h[n]) /\ h[n] \in ReadStates BY <1>1, <1>6, <1>7 DEF ReadBy
<1>9. Fail(h[n], "pragma").error = "pragma" BY <1>8 DEF Fail, ReadStates
<1>10. main = h[n] BY <1>5, <1>8, <1>9 DEF Finish
<1> QED BY <1>5, <1>6, <1>7, <1>10

\* Scripts are made of the lines their files may have.
LEMMA ScriptType == ScriptSpec => []ScriptTypeOK
<1> DEFINE Lines == [kind : LineKinds, to : {"main", "lib", "outside", "gone"}]
<1>1. ScriptInit => ScriptTypeOK BY DEF ScriptInit, ScriptTypeOK
<1>2. ScriptTypeOK /\ [ScriptNext]_script => ScriptTypeOK'
  <2> SUFFICES ASSUME ScriptTypeOK, [ScriptNext]_script PROVE ScriptTypeOK' OBVIOUS
  <2>1. CASE UNCHANGED script BY <2>1 DEF ScriptTypeOK
  <2>2. ASSUME NEW file \in ScriptFiles, NEW line \in LinesOf(file), AddLine(file, line) PROVE ScriptTypeOK'
    <3>1. \A f \in ScriptFiles : LinesOf(f) \subseteq Lines
      BY DEF LinesOf, ScriptFiles, AnyCommand, Sources, Pragmas, Line, LineKinds
    <3>2. script \in [ScriptFiles -> Seq(Lines)] /\ line \in Lines BY <3>1 DEF ScriptTypeOK
    <3>3. script' = [script EXCEPT ![file] = Append(@, line)] BY <2>2 DEF AddLine
    <3> HIDE DEF Lines
    <3>4. script' \in [ScriptFiles -> Seq(Lines)] BY <3>2, <3>3
    <3>5. ASSUME NEW f \in ScriptFiles, NEW i \in DOMAIN script'[f] PROVE script'[f][i] \in LinesOf(f)
      <4>1. CASE f # file
        <5>1. script'[f] = script[f] BY <3>2, <3>3, <4>1
        <5> QED BY <3>5, <5>1 DEF ScriptTypeOK
      <4>2. CASE f = file
        <5>1. script'[f] = Append(script[f], line) /\ script[f] \in Seq(Lines) BY <3>2, <3>3, <4>2
        <5>2. i = Len(script[f]) + 1 \/ i \in DOMAIN script[f] BY <3>5, <5>1
        <5>3. CASE i = Len(script[f]) + 1 BY <2>2, <3>2, <4>2, <5>1, <5>3
        <5>4. CASE i \in DOMAIN script[f]
          <6>1. script'[f][i] = script[f][i] BY <3>2, <5>1, <5>4
          <6> QED BY <5>4, <6>1 DEF ScriptTypeOK
        <5> QED BY <5>2, <5>3, <5>4
      <4> QED BY <4>1, <4>2
    <3> QED BY <3>4, <3>5 DEF ScriptTypeOK, Lines
  <2> QED BY <2>1, <2>2 DEF ScriptNext
<1> QED BY <1>1, <1>2, PTL DEF ScriptSpec

\* For scripts of any length and any depth of sourcing, every command of main that no
\* pragma marks is kept, and what is inlined comes from a source line that none marks
\* (inline_bash_source).
THEOREM UnmarkedLinesAreKept == ScriptSpec => []PragmasReachOnlyTheirLines
<1>1. ScriptTypeOK => PragmasReachOnlyTheirLines
  <2> SUFFICES ASSUME ScriptTypeOK, Inlined.error = "none"
               PROVE  PragmasReachOnlyTheirLines
    BY DEF PragmasReachOnlyTheirLines
  <2> DEFINE n == Len(script["main"])
  <2>1. PICK h : ReadBy(h, "main", {}, Inline[MaxDepth]) /\ h[n].error = "none" /\ Inlined = h[n]
    BY InlinedText
  <2>2. "main" \in ScriptFiles /\ n \in Nat /\ DOMAIN script["main"] = 1..n
        /\ \A i \in 1..n : i < n + 1
    BY DEF ScriptFiles, ScriptTypeOK
  <2>3. Inline[MaxDepth] \in ReadTables BY InliningAssumption, InlineLaw
  <2>4. \A g \in ScriptFiles, q \in SUBSET ScriptFiles : Apart(Inline[MaxDepth][g][q], q)
    BY InliningAssumption, InlineApart
  <2>5. h \in [0..n -> ReadStates] /\ h[0] = Reading({} \cup {"main"})
        /\ \A k \in 1..n : h[k] = ReadScriptLine(h[k - 1], "main", k, Inline[MaxDepth])
    BY <2>1 DEF ReadBy
  <2> DEFINE T == {k \in Nat : k <= n /\ h[k].error = "none" => MainState(h[k], k + 1)}
  <2>6. 0 \in T
    <3>1. ~ InBlock(1)
      <4>1. \A j \in 1..(1 - 1) : FALSE OBVIOUS
      <4> QED BY <4>1 DEF InBlock
    <3>2. ~ AwaitsLine(1)
      <4>1. \A j \in 1..(1 - 1) : FALSE OBVIOUS
      <4> QED BY <4>1 DEF AwaitsLine
    <3>3. h[0].text = <<>> /\ "main" \in h[0].processed /\ h[0].inBlock = FALSE /\ h[0].skipNext = FALSE
      BY <2>5 DEF Reading
    <3>4. \A x : ~ Contains(<<>>, x) BY DEF Contains
    <3>5. \A j \in 1..n : ~ (j < 1) BY <2>2
    <3> QED BY <3>1, <3>2, <3>3, <3>4, <3>5 DEF MainState, SourcedBefore
  <2>7. ASSUME NEW k \in Nat, k \in T PROVE k + 1 \in T
    <3> SUFFICES ASSUME k + 1 <= n, h[k + 1].error = "none" PROVE MainState(h[k + 1], (k + 1) + 1) OBVIOUS
    <3>1. k + 1 \in 1..n /\ (k + 1) - 1 = k /\ k \in 0..n /\ k <= n BY <2>2
    <3>2. h[k] \in ReadStates /\ h[k + 1] = ReadScriptLine(h[k], "main", k + 1, Inline[MaxDepth]) BY <2>5, <3>1
    <3>3. LineRead(h[k + 1], h[k], "main", k + 1, Inline[MaxDepth]) BY <2>2, <2>3, <3>1, <3>2, LineCases
    <3>4. MainState(h[k], k + 1) BY <2>7, <3>1, <3>3 DEF LineRead
    <3> QED BY <2>3, <2>4, <3>1, <3>2, <3>4, MainStep
  <2>8. Nat \subseteq T
    <3> HIDE DEF T
    <3> QED BY <2>6, <2>7, SetInduction
  <2>9. MainState(h[n], n + 1) BY <2>1, <2>2, <2>8
  <2> QED BY <2>1, <2>2, <2>9 DEF MainState, SourcedBefore, PragmasReachOnlyTheirLines
<1> QED BY <1>1, ScriptType, PTL

(***************************************************************************)
(* Inlining against bash: each file once, in the order of bash.            *)
(***************************************************************************)

\* A text without the commands that are in X or come a second time.
Unseen(t, X) ==
  FlattenSeq([i \in DOMAIN t |-> IF t[i] \in X \/ \E j \in 1..(i - 1) : t[j] = t[i] THEN <<>> ELSE <<t[i]>>])
Elements(t) == {t[k] : k \in 1..Len(t)}

\* One command more.
LEMMA UnseenGrows ==
  ASSUME NEW t \in ScriptTexts, NEW x \in CommandNames, NEW X
  PROVE  /\ Unseen(t, X) \in ScriptTexts
         /\ Unseen(Append(t, x), X) = Unseen(t, X) \o (IF x \in X \/ x \in Elements(t) THEN <<>> ELSE <<x>>)
<1> DEFINE kept(s) == [i \in DOMAIN s |-> IF s[i] \in X \/ \E j \in 1..(i - 1) : s[j] = s[i] THEN <<>> ELSE <<s[i]>>]
           more == Append(t, x)
           last == IF x \in X \/ x \in Elements(t) THEN <<>> ELSE <<x>>
           n == Len(t)
<1>0. t \in Seq(CommandNames) /\ x \in CommandNames BY DEF ScriptTexts
<1>1. n \in Nat /\ DOMAIN t = 1..n /\ Len(more) = n + 1 /\ DOMAIN more = 1..(n + 1) /\ more[n + 1] = x
  BY <1>0
<1>2. \A i \in 1..n : more[i] = t[i] /\ t[i] \in CommandNames BY <1>0
<1>3. kept(t) \in Seq(Seq(CommandNames)) BY <1>1, <1>2
<1>4. last \in Seq(CommandNames) BY <1>0
<1>5. kept(more) = Append(kept(t), last)
  <2>1. Len(kept(t)) = n BY <1>1
  <2>2. DOMAIN kept(more) = 1..(n + 1) /\ DOMAIN Append(kept(t), last) = 1..(n + 1) BY <1>1, <1>3, <1>4, <2>1
  <2>3. ASSUME NEW i \in 1..n PROVE kept(more)[i] = Append(kept(t), last)[i]
    <3>1. \A j \in 1..(i - 1) : j \in 1..n BY <1>1
    <3>2. kept(more)[i] = kept(t)[i] BY <1>1, <1>2, <3>1
    <3>3. Append(kept(t), last)[i] = kept(t)[i] BY <1>1, <1>3, <1>4, <2>1
    <3> QED BY <3>2, <3>3
  <2>4. kept(more)[n + 1] = last
    <3>1. (n + 1) - 1 = n /\ n + 1 \in 1..(n + 1) BY <1>1
    <3>2. (\E j \in 1..n : more[j] = x) <=> x \in Elements(t) BY <1>2 DEF Elements
    <3>3. kept(more)[n + 1] = IF more[n + 1] \in X \/ \E j \in 1..((n + 1) - 1) : more[j] = more[n + 1]
                              THEN <<>> ELSE <<more[n + 1]>>
      BY <1>1, <3>1
    <3> HIDE DEF kept, more
    <3> QED BY <1>1, <3>1, <3>2, <3>3
  <2>5. Append(kept(t), last)[n + 1] = last BY <1>3, <1>4, <2>1
  <2>6. \A i \in 1..(n + 1) : i \in 1..n \/ i = n + 1 BY <1>1
  <2>7. \A i \in 1..(n + 1) : kept(more)[i] = Append(kept(t), last)[i] BY <2>3, <2>4, <2>5, <2>6
  <2>8. kept(more) = [i \in 1..(n + 1) |-> kept(more)[i]] BY <1>1
  <2>9. Append(kept(t), last) = [i \in 1..(n + 1) |-> Append(kept(t), last)[i]]
    <3>1. Append(kept(t), last) \in Seq(Seq(CommandNames))
      <4> HIDE DEF kept, last
      <4> QED BY <1>3, <1>4
    <3>2. \A s \in Seq(Seq(CommandNames)) : s = [i \in DOMAIN s |-> s[i]] OBVIOUS
    <3> HIDE DEF kept, last
    <3> QED BY <2>2, <3>1, <3>2
  <2> HIDE DEF kept, more, last
  <2> QED BY <2>7, <2>8, <2>9
<1>6. FlattenSeq(kept(t)) \in Seq(CommandNames) BY <1>3, FlattenSeqType
<1>7. FlattenSeq(kept(more)) = FlattenSeq(kept(t)) \o last
  <2> HIDE DEF kept, last
  <2> QED BY <1>3, <1>4, <1>5, FlattenSeqAppend
<1> QED BY <1>6, <1>7 DEF Unseen, ScriptTexts

\* Nothing to leave out.
LEMMA UnseenEmpty == ASSUME NEW X PROVE Unseen(<<>>, X) = <<>>
<1> DEFINE kept == [i \in DOMAIN <<>> |-> IF <<>>[i] \in X \/ \E j \in 1..(i - 1) : <<>>[j] = <<>>[i] THEN <<>> ELSE <<(<<>>[i])>>]
<1>1. kept = <<>> OBVIOUS
<1>2. Unseen(<<>>, X) = FlattenSeq(kept) BY DEF Unseen
<1> HIDE DEF kept
<1> QED BY <1>1, <1>2, FlattenSeqEmpty

\* The commands of a text.
LEMMA ElementsOf ==
  /\ Elements(<<>>) = {}
  /\ \A t \in ScriptTexts : \A x \in CommandNames : Append(t, x) \in ScriptTexts /\ Elements(Append(t, x)) = Elements(t) \cup {x}
  /\ \A s, t \in ScriptTexts : s \o t \in ScriptTexts /\ Elements(s \o t) = Elements(s) \cup Elements(t)
  /\ \A x \in CommandNames : <<x>> \in ScriptTexts /\ Elements(<<x>>) = {x}
<1>1. Elements(<<>>) = {} BY DEF Elements
<1>2. ASSUME NEW t \in Seq(CommandNames), NEW x \in CommandNames
      PROVE  Append(t, x) \in Seq(CommandNames) /\ Elements(Append(t, x)) = Elements(t) \cup {x}
  <2>1. /\ Append(t, x) \in Seq(CommandNames) /\ Len(Append(t, x)) = Len(t) + 1 /\ Append(t, x)[Len(t) + 1] = x
        /\ \A k \in 1..Len(t) : Append(t, x)[k] = t[k]
        /\ \A k \in 1..(Len(t) + 1) : k \in 1..Len(t) \/ k = Len(t) + 1
        /\ \A k \in 1..Len(t) : k \in 1..(Len(t) + 1)
        /\ Len(t) + 1 \in 1..(Len(t) + 1)
    OBVIOUS
  <2> QED BY <2>1 DEF Elements
<1>3. ASSUME NEW s \in Seq(CommandNames), NEW t \in Seq(CommandNames)
      PROVE  s \o t \in Seq(CommandNames) /\ Elements(s \o t) = Elements(s) \cup Elements(t)
  <2>1. /\ s \o t \in Seq(CommandNames) /\ Len(s \o t) = Len(s) + Len(t)
        /\ \A k \in 1..Len(s) : (s \o t)[k] = s[k] /\ k \in 1..(Len(s) + Len(t))
        /\ \A k \in 1..Len(t) : (s \o t)[Len(s) + k] = t[k] /\ Len(s) + k \in 1..(Len(s) + Len(t))
    OBVIOUS
  <2>2. \A k \in 1..(Len(s) + Len(t)) : k \in 1..Len(s) \/ (k - Len(s) \in 1..Len(t) /\ Len(s) + (k - Len(s)) = k)
    OBVIOUS
  <2>3. Elements(s \o t) \subseteq Elements(s) \cup Elements(t)
    <3> SUFFICES ASSUME NEW k \in 1..(Len(s) + Len(t)) PROVE (s \o t)[k] \in Elements(s) \cup Elements(t)
      BY <2>1 DEF Elements
    <3> QED BY <2>1, <2>2 DEF Elements
  <2>4. Elements(s) \cup Elements(t) \subseteq Elements(s \o t) BY <2>1 DEF Elements
  <2> QED BY <2>1, <2>3, <2>4
<1>4. \A x \in CommandNames : <<x>> \in Seq(CommandNames) /\ Elements(<<x>>) = {x} BY DEF Elements
<1> QED BY <1>1, <1>2, <1>3, <1>4 DEF ScriptTexts

\* Of two texts, the second is left what the first had not.
LEMMA UnseenConcat ==
  ASSUME NEW s \in ScriptTexts, NEW t \in ScriptTexts, NEW X
  PROVE  Unseen(s \o t, X) = Unseen(s, X) \o Unseen(t, X \cup Elements(s))
<1> DEFINE Y == X \cup Elements(s)
           T == {u \in Seq(CommandNames) : Unseen(s \o u, X) = Unseen(s, X) \o Unseen(u, Y)}
<1>0. s \in Seq(CommandNames) /\ t \in Seq(CommandNames) /\ ScriptTexts = Seq(CommandNames) BY DEF ScriptTexts
<1>1. <<>> \in T
  <2>1. s \o <<>> = s /\ <<>> \in Seq(CommandNames) BY <1>0
  <2>2. Unseen(s, X) \o <<>> = Unseen(s, X)
    <3>1. \A u \in Seq(CommandNames) : u \o <<>> = u OBVIOUS
    <3>2. <<"main", 0>> \in CommandNames BY DEF ScriptFiles, CommandNames
    <3> QED BY <1>0, <3>1, <3>2, UnseenGrows
  <2> QED BY <2>1, <2>2, UnseenEmpty
<1>2. ASSUME NEW u \in Seq(CommandNames), NEW x \in CommandNames, u \in T PROVE Append(u, x) \in T
  <2> DEFINE last(v, Z) == IF x \in Z \/ x \in Elements(v) THEN <<>> ELSE <<x>>
  <2>0. \A v \in ScriptTexts : \A Z : Unseen(Append(v, x), Z) = Unseen(v, Z) \o last(v, Z) BY UnseenGrows
  <2>1. s \o Append(u, x) = Append(s \o u, x) /\ Append(u, x) \in Seq(CommandNames) /\ s \o u \in Seq(CommandNames) BY <1>0
  <2>2. Unseen(Append(s \o u, x), X) = Unseen(s \o u, X) \o last(s \o u, X)
    <3> HIDE DEF last
    <3> QED BY <1>0, <2>0, <2>1
  <2>3. Unseen(Append(u, x), Y) = Unseen(u, Y) \o last(u, Y)
    <3> HIDE DEF Y, last
    <3> QED BY <1>0, <2>0
  <2>4. Elements(s \o u) = Elements(s) \cup Elements(u) BY <1>0, ElementsOf
  <2>5. last(s \o u, X) = last(u, Y) BY <2>4
  <2>6. last(u, Y) \in Seq(CommandNames) OBVIOUS
  <2>7. Unseen(s, X) \in Seq(CommandNames) /\ Unseen(u, Y) \in Seq(CommandNames)
    <3> HIDE DEF Y
    <3> QED BY <1>0, UnseenGrows
  <2>8. Unseen(s \o u, X) = Unseen(s, X) \o Unseen(u, Y) BY <1>2
  <2> HIDE DEF Y, last
  <2>9. (Unseen(s, X) \o Unseen(u, Y)) \o last(u, Y) = Unseen(s, X) \o (Unseen(u, Y) \o last(u, Y))
    BY <2>6, <2>7, ConcatAssociative
  <2> QED BY <2>1, <2>2, <2>3, <2>5, <2>8, <2>9
<1>3. Seq(CommandNames) \subseteq T
  <2> HIDE DEF T
  <2> QED BY <1>1, <1>2, SeqInduction
<1> QED BY <1>0, <1>3

\* Only the commands of the text matter.
LEMMA UnseenAlike ==
  ASSUME NEW t \in ScriptTexts, NEW X, NEW Y, \A x \in Elements(t) : x \in X <=> x \in Y
  PROVE  Unseen(t, X) = Unseen(t, Y)
<1>1. DOMAIN t = 1..Len(t) BY DEF ScriptTexts
<1>2. \A i \in DOMAIN t : t[i] \in X <=> t[i] \in Y BY <1>1 DEF Elements
<1> QED BY <1>2 DEF Unseen

\* A text of commands seen before is left out.
LEMMA UnseenNothing ==
  ASSUME NEW t \in ScriptTexts, NEW X, Elements(t) \subseteq X
  PROVE  Unseen(t, X) = <<>>
<1> DEFINE T == {u \in Seq(CommandNames) : Elements(u) \subseteq X => Unseen(u, X) = <<>>}
<1>0. t \in Seq(CommandNames) /\ ScriptTexts = Seq(CommandNames) BY DEF ScriptTexts
<1>1. <<>> \in T BY UnseenEmpty
<1>2. ASSUME NEW u \in Seq(CommandNames), NEW x \in CommandNames, u \in T PROVE Append(u, x) \in T
  <2>1. Append(u, x) \in Seq(CommandNames) /\ Elements(Append(u, x)) = Elements(u) \cup {x} BY <1>0, ElementsOf
  <2>2. Unseen(Append(u, x), X) = Unseen(u, X) \o (IF x \in X \/ x \in Elements(u) THEN <<>> ELSE <<x>>)
    BY <1>0, UnseenGrows
  <2>3. <<>> \o <<>> = <<>> OBVIOUS
  <2> QED BY <1>2, <2>1, <2>2, <2>3
<1>3. Seq(CommandNames) \subseteq T
  <2> HIDE DEF T
  <2> QED BY <1>1, <1>2, SeqInduction
<1> QED BY <1>0, <1>3

\* FirstOnly leaves out what was seen in the text itself.
LEMMA FirstAreUnseen == ASSUME NEW t \in ScriptTexts PROVE FirstOnly(t) = Unseen(t, {})
BY DEF FirstOnly, Unseen

NoFlags(s) == s.inBlock = FALSE /\ s.skipNext = FALSE
Plainly(f) == \A i \in 1..Len(script[f]) : script[f][i].kind \in {"command", "source", "allow"}

\* A file without pragmas that is read without an error: every line is, and none is skipped.
LEMMA PlainReads ==
  ASSUME ScriptTypeOK, NEW f \in ScriptFiles, NEW P \in SUBSET ScriptFiles, NEW sourced \in ReadTables,
         NEW h, ReadBy(h, f, P, sourced), h[Len(script[f])].error = "none", Plainly(f)
  PROVE  \A i \in 1..Len(script[f]) : /\ LineRead(h[i], h[i - 1], f, i, sourced)
                                      /\ NoFlags(h[i - 1])
<1> DEFINE n == Len(script[f])
           Sound == {k \in Nat : k <= n => h[n - k].error = "none"}
           Clear == {k \in Nat : k <= n => NoFlags(h[k])}
<1>1. n \in Nat BY DEF ScriptTypeOK
<1>2. /\ h \in [0..n -> ReadStates] /\ h[0] = Reading(P \cup {f})
      /\ \A i \in 1..n : h[i] = ReadScriptLine(h[i - 1], f, i, sourced)
  BY DEF ReadBy
<1>3. ASSUME NEW i \in 1..n, h[i].error = "none" PROVE LineRead(h[i], h[i - 1], f, i, sourced)
  <2>1. h[i - 1] \in ReadStates
    <3>1. i - 1 \in 0..n BY <1>1
    <3> QED BY <1>2, <3>1
  <2> QED BY <1>2, <1>3, <2>1, LineCases
<1>4. 0 \in Sound
  <2>1. n - 0 = n BY <1>1
  <2> QED BY <2>1
<1>5. ASSUME NEW k \in Nat, k \in Sound PROVE k + 1 \in Sound
  <2> SUFFICES ASSUME k + 1 <= n PROVE h[n - (k + 1)].error = "none" OBVIOUS
  <2>1. n - k \in 1..n /\ (n - k) - 1 = n - (k + 1) /\ k <= n BY <1>1
  <2> QED BY <1>3, <1>5, <2>1 DEF LineRead
<1>6. Nat \subseteq Sound
  <2> HIDE DEF Sound
  <2> QED BY <1>4, <1>5, SetInduction
<1>7. \A i \in 1..n : h[i].error = "none"
  <2> TAKE i \in 1..n
  <2>1. n - i \in Nat /\ n - i <= n /\ n - (n - i) = i BY <1>1
  <2> QED BY <1>6, <2>1
<1>8. 0 \in Clear BY <1>2 DEF Reading, NoFlags
<1>9. ASSUME NEW k \in Nat, k \in Clear PROVE k + 1 \in Clear
  <2> SUFFICES ASSUME k + 1 <= n PROVE NoFlags(h[k + 1]) OBVIOUS
  <2>1. k + 1 \in 1..n /\ (k + 1) - 1 = k /\ k <= n BY <1>1
  <2>2. LineRead(h[k + 1], h[k], f, k + 1, sourced) BY <1>3, <1>7, <2>1
  <2>3. NoFlags(h[k]) BY <1>9, <2>1
  <2>4. script[f][k + 1].kind \in {"command", "source", "allow"} BY <2>1 DEF Plainly
  <2> QED BY <2>2, <2>3, <2>4 DEF LineRead, Extended, NoFlags
<1>10. Nat \subseteq Clear
  <2> HIDE DEF Clear
  <2> QED BY <1>8, <1>9, SetInduction
<1>11. \A i \in 1..n : i - 1 \in Nat /\ i - 1 <= n BY <1>1
<1> HIDE DEF n
<1> QED BY <1>3, <1>7, <1>10, <1>11 DEF n

ScriptCommands == {x \in CommandNames : x[2] \in 1..Len(script[x[1]]) /\ script[x[1]][x[2]].kind = "command"}
OfFiles(P) == {x \in CommandNames : x[1] \in P}

\* What sourcing a script comes to, where it was bash text t and the files in P
\* had been processed.
Served(r, t, P, closed) ==
  /\ r.text = Unseen(t, OfFiles(P))
  /\ P \subseteq r.processed /\ r.processed \in closed
  /\ \A x \in ScriptCommands : x[1] \in r.processed <=> x[1] \in P \/ x \in Elements(t)

LineText(f, i, bash) == IF script[f][i].kind = "command" THEN <<<<f, i>>>> ELSE bash[script[f][i].to]
LineTexts(f, bash) == [i \in DOMAIN script[f] |-> LineText(f, i, bash)]

Serves(f, bash, sourced, closed) ==
  \A i \in 1..Len(script[f]) : script[f][i].kind # "command" /\ script[f][i].to \in ScriptFiles =>
    LET g == script[f][i].to IN
    /\ bash[g] \in ScriptTexts /\ Elements(bash[g]) \subseteq ScriptCommands \ OfFiles({f})
    /\ \A Q \in SUBSET ScriptFiles :
         Q \in closed /\ f \in Q /\ sourced[g][Q].error = "none" => Served(sourced[g][Q], bash[g], Q, closed)

\* What is known of a state before line i + 1 of f, where bash has run t by then.
FileState(s, t, f, i, P, closed) ==
  /\ s.text = Unseen(t, OfFiles(P))
  /\ P \cup {f} \subseteq s.processed /\ s.processed \in closed
  /\ t \in ScriptTexts /\ Elements(t) \subseteq ScriptCommands
  /\ \A x \in ScriptCommands : x[1] # f => (x[1] \in s.processed <=> x[1] \in P \/ x \in Elements(t))
  /\ \A x \in ScriptCommands : x[1] = f => (x \in Elements(t) <=> x[2] <= i)

\* A command is added to both texts.
LEMMA CommandIsAdded ==
  ASSUME ScriptTypeOK, NEW f \in ScriptFiles, NEW P \in SUBSET ScriptFiles, f \notin P,
         NEW i \in 1..Len(script[f]), script[f][i].kind = "command",
         NEW s, NEW new, NEW t, NEW closed, FileState(s, t, f, i - 1, P, closed),
         Extended(new, s, <<<<f, i>>>>, s.processed)
  PROVE  FileState(new, t \o <<<<f, i>>>>, f, i, P, closed)
<1>0. PICK x : x = <<f, i>> OBVIOUS
<1>1. i \in Nat /\ Len(script[f]) \in Nat BY DEF ScriptTypeOK
<1>2. x \in ScriptCommands /\ x \in CommandNames BY <1>0, <1>1 DEF ScriptCommands, CommandNames
<1>3. t \in ScriptTexts /\ Elements(t) \subseteq ScriptCommands BY DEF FileState
<1>4. x \notin OfFiles(P) /\ x \notin Elements(t)
  <2>1. ~ (i <= i - 1) BY <1>1
  <2> QED BY <1>0, <1>2, <2>1 DEF OfFiles, CommandNames, FileState
<1>5. t \o <<x>> \in ScriptTexts /\ Elements(t \o <<x>>) = Elements(t) \cup {x} BY <1>2, <1>3, ElementsOf
<1>6. Unseen(t \o <<x>>, OfFiles(P)) = Unseen(t, OfFiles(P)) \o <<x>>
  <2>1. t \o <<x>> = Append(t, x) BY <1>2, <1>3 DEF ScriptTexts
  <2>2. \A X : Unseen(Append(t, x), X) = Unseen(t, X) \o (IF x \in X \/ x \in Elements(t) THEN <<>> ELSE <<x>>)
    BY <1>2, <1>3, UnseenGrows
  <2> QED BY <1>4, <2>1, <2>2
<1>7. new.text = s.text \o <<x>> /\ new.processed = s.processed BY <1>0 DEF Extended
<1>8. \A y \in ScriptCommands : y[1] = f => (y[2] <= i <=> y[2] <= i - 1 \/ y = x)
  BY <1>0, <1>1 DEF ScriptCommands, CommandNames
<1>9. \A y \in ScriptCommands : y[1] # f => y # x BY <1>0
<1> QED BY <1>0, <1>2, <1>3, <1>5, <1>6, <1>7, <1>8, <1>9 DEF FileState

\* A sourced file adds to the text what bash had not run yet.
LEMMA SourceIsAdded ==
  ASSUME ScriptTypeOK, NEW f \in ScriptFiles, NEW P \in SUBSET ScriptFiles, f \notin P,
         NEW i \in 1..Len(script[f]), script[f][i].kind # "command",
         NEW s, NEW new, NEW t, NEW closed, FileState(s, t, f, i - 1, P, closed),
         NEW u \in ScriptTexts, Elements(u) \subseteq ScriptCommands \ OfFiles({f}),
         NEW r, Served(r, u, s.processed, closed), Extended(new, s, r.text, r.processed)
  PROVE  FileState(new, t \o u, f, i, P, closed)
<1>1. i \in Nat /\ Len(script[f]) \in Nat BY DEF ScriptTypeOK
<1>2. t \in ScriptTexts /\ Elements(t) \subseteq ScriptCommands BY DEF FileState
<1>3. t \o u \in ScriptTexts /\ Elements(t \o u) = Elements(t) \cup Elements(u) BY <1>2, ElementsOf
<1>4. \A x \in ScriptCommands : x[1] # f => (x[1] \in s.processed <=> x[1] \in P \/ x \in Elements(t)) BY DEF FileState
<1>5. \A x \in ScriptCommands : x \in CommandNames BY DEF ScriptCommands
<1>6. \A x \in Elements(u) : x \in OfFiles(s.processed) <=> x \in OfFiles(P) \cup Elements(t)
  BY <1>4, <1>5 DEF OfFiles, CommandNames
<1>7. Unseen(t \o u, OfFiles(P)) = Unseen(t, OfFiles(P)) \o Unseen(u, OfFiles(s.processed))
  <2>1. Unseen(u, OfFiles(s.processed)) = Unseen(u, OfFiles(P) \cup Elements(t)) BY <1>6, UnseenAlike
  <2>2. \A X : Unseen(t \o u, X) = Unseen(t, X) \o Unseen(u, X \cup Elements(t)) BY <1>2, UnseenConcat
  <2> QED BY <2>1, <2>2
<1>8. new.text = s.text \o r.text /\ new.processed = r.processed BY DEF Extended
<1>9. r.text = Unseen(u, OfFiles(s.processed)) /\ s.processed \subseteq r.processed /\ r.processed \in closed BY DEF Served
<1>10. new.text = Unseen(t \o u, OfFiles(P)) BY <1>7, <1>8, <1>9 DEF FileState
<1>11. \A x \in ScriptCommands : x[1] # f => (x[1] \in new.processed <=> x[1] \in P \/ x \in Elements(t \o u))
  BY <1>3, <1>4, <1>8 DEF Served
<1>12. \A x \in ScriptCommands : x[1] = f => (x \in Elements(t \o u) <=> x[2] <= i)
  <2>1. \A x \in ScriptCommands : x[1] = f => x \notin Elements(u) BY <1>5 DEF OfFiles, CommandNames
  <2>2. \A x \in ScriptCommands : x[1] = f => x # <<f, i>> BY DEF ScriptCommands, CommandNames
  <2>3. \A x \in ScriptCommands : x[1] = f => x[2] # i
    <3>1. \A x \in CommandNames : x = <<x[1], x[2]>> BY DEF CommandNames
    <3> QED BY <1>5, <2>2, <3>1
  <2>4. \A x \in ScriptCommands : x[2] \in Nat BY <1>5 DEF CommandNames
  <2>5. \A x \in ScriptCommands : x[1] = f => (x[2] <= i <=> x[2] <= i - 1) BY <1>1, <2>3, <2>4
  <2> QED BY <1>3, <2>1, <2>5 DEF FileState
<1>13. P \cup {f} \subseteq new.processed /\ new.processed \in closed BY <1>8, <1>9 DEF FileState
<1> QED BY <1>2, <1>3, <1>10, <1>11, <1>12, <1>13 DEF FileState

\* A file is served if the files it sources are: by induction over its lines, the text
\* is what bash runs without what ran before, and the files processed are those met.
LEMMA FileServed ==
  ASSUME ScriptTypeOK, NEW f \in ScriptFiles, NEW P \in SUBSET ScriptFiles, f \notin P, NEW sourced \in ReadTables,
         NEW bash, NEW closed, P \cup {f} \in closed, Plainly(f), Serves(f, bash, sourced, closed),
         ReadScript(f, P, sourced).error = "none"
  PROVE  Served(ReadScript(f, P, sourced), FlattenSeq(LineTexts(f, bash)), P, closed)
<1> DEFINE n == Len(script[f])
           parts == LineTexts(f, bash)
<1>1. n \in Nat /\ DOMAIN script[f] = 1..n BY DEF ScriptTypeOK
<1>2. PICK h : ReadBy(h, f, P, sourced) BY ReadScriptSteps
<1>3. /\ h \in [0..n -> ReadStates] /\ h[0] = Reading(P \cup {f})
      /\ ReadScript(f, P, sourced) = Finish(h[n]) /\ h[n] \in ReadStates
  BY <1>1, <1>2 DEF ReadBy
<1>4. ReadScript(f, P, sourced) = h[n] /\ h[n].error = "none"
  <2>1. Fail(h[n], "pragma").error = "pragma" BY <1>3 DEF Fail, ReadStates
  <2> QED BY <1>3, <2>1 DEF Finish
<1>5. \A i \in 1..n : LineRead(h[i], h[i - 1], f, i, sourced) /\ NoFlags(h[i - 1]) BY <1>2, <1>4, PlainReads
\* every line was read, and every source line found its script
<1>6. \A i \in 1..n : script[f][i].kind # "command" =>
        LET r == sourced[script[f][i].to][h[i - 1].processed]
        IN script[f][i].to \in ScriptFiles /\ r.error = "none" /\ Extended(h[i], h[i - 1], r.text, r.processed)
  BY <1>5 DEF Plainly, LineRead, NoFlags
<1>7. \A i \in 1..n : script[f][i].kind = "command" => Extended(h[i], h[i - 1], <<<<f, i>>>>, h[i - 1].processed)
  BY <1>5 DEF LineRead, NoFlags
<1>8. \A i \in 1..n : LineText(f, i, bash) \in ScriptTexts
  <2> TAKE i \in 1..n
  <2>1. CASE script[f][i].kind = "command"
    <3>1. <<<<f, i>>>> \in ScriptTexts BY <1>1 DEF ScriptTexts, CommandNames
    <3> QED BY <2>1, <3>1 DEF LineText
  <2>2. CASE script[f][i].kind # "command" BY <1>6, <2>2 DEF LineText, Serves
  <2> QED BY <2>1, <2>2
<1>9. parts \in Seq(Seq(CommandNames)) /\ Len(parts) = n /\ \A i \in 1..n : parts[i] = LineText(f, i, bash)
  <2>1. parts = [i \in 1..n |-> LineText(f, i, bash)] BY <1>1 DEF LineTexts
  <2> HIDE DEF parts
  <2> QED BY <1>1, <1>8, <2>1 DEF ScriptTexts
<1> HIDE DEF parts
<1>10. PICK j : JoinsTo(j, parts, CommandNames) BY <1>9, JoinExists
<1>11. j[0] = <<>> /\ \A i \in 1..n : j[i] = j[i - 1] \o LineText(f, i, bash) BY <1>9, <1>10 DEF JoinsTo
<1>12. FlattenSeq(parts) = j[n] BY <1>9, <1>10, FlattenSeqJoins
<1> DEFINE T == {k \in Nat : k <= n => FileState(h[k], j[k], f, k, P, closed)}
<1>13. 0 \in T
  <2>1. h[0].text = <<>> /\ h[0].processed = P \cup {f} BY <1>3 DEF Reading
  <2>2. <<>> \in ScriptTexts /\ Elements(<<>>) = {} /\ Unseen(<<>>, OfFiles(P)) = <<>> BY ElementsOf, UnseenEmpty DEF ScriptTexts
  <2>3. \A x \in ScriptCommands : ~ (x[2] <= 0) BY DEF ScriptCommands, ScriptTypeOK
  <2> QED BY <1>11, <2>1, <2>2, <2>3 DEF FileState
<1>14. ASSUME NEW k \in Nat, k \in T PROVE k + 1 \in T
  <2> SUFFICES ASSUME k + 1 <= n PROVE FileState(h[k + 1], j[k + 1], f, k + 1, P, closed) OBVIOUS
  <2>1. k + 1 \in 1..n /\ (k + 1) - 1 = k /\ k \in 0..n /\ k <= n BY <1>1
  <2>2. FileState(h[k], j[k], f, (k + 1) - 1, P, closed) /\ j[k + 1] = j[k] \o LineText(f, k + 1, bash)
    BY <1>11, <1>14, <2>1
  <2>3. CASE script[f][k + 1].kind = "command"
    <3>1. Extended(h[k + 1], h[k], <<<<f, k + 1>>>>, h[k].processed) BY <1>7, <2>1, <2>3
    <3>2. j[k + 1] = j[k] \o <<<<f, k + 1>>>> BY <2>2, <2>3 DEF LineText
    <3>3. FileState(h[k + 1], j[k] \o <<<<f, k + 1>>>>, f, k + 1, P, closed)
      BY <2>1, <2>2, <2>3, <3>1, CommandIsAdded
    <3> QED BY <3>2, <3>3
  <2>4. CASE script[f][k + 1].kind # "command"
    <3> DEFINE g == script[f][k + 1].to
               r == sourced[g][h[k].processed]
    <3>1. g \in ScriptFiles /\ r.error = "none" /\ Extended(h[k + 1], h[k], r.text, r.processed)
      BY <1>6, <2>1, <2>4
    <3>2. h[k].processed \in SUBSET ScriptFiles /\ f \in h[k].processed /\ h[k].processed \in closed
      BY <1>3, <2>1, <2>2 DEF FileState, ReadStates
    <3>3. /\ bash[g] \in ScriptTexts /\ Elements(bash[g]) \subseteq ScriptCommands \ OfFiles({f})
          /\ Served(r, bash[g], h[k].processed, closed)
      BY <2>1, <2>4, <3>1, <3>2 DEF Serves
    <3>4. j[k + 1] = j[k] \o bash[g] BY <2>2, <2>4 DEF LineText
    <3> HIDE DEF g, r
    <3>5. FileState(h[k + 1], j[k] \o bash[g], f, k + 1, P, closed)
      BY <2>1, <2>2, <2>4, <3>1, <3>3, SourceIsAdded
    <3> QED BY <3>4, <3>5
  <2> QED BY <2>3, <2>4
<1>15. Nat \subseteq T
  <2> HIDE DEF T
  <2> QED BY <1>13, <1>14, SetInduction
<1>16. FileState(h[n], j[n], f, n, P, closed) BY <1>1, <1>15
<1>17. \A x \in ScriptCommands : x[1] = f => x[2] <= n BY <1>1 DEF ScriptCommands
<1>18. Served(h[n], j[n], P, closed) BY <1>16, <1>17 DEF FileState, Served
<1> QED BY <1>4, <1>12, <1>18 DEF parts

\* Who sources whom in scripts that do not source themselves.
LEMMA ScriptShape ==
  ASSUME ScriptTypeOK, Plain, ~ Circular
  PROVE  /\ \A f \in ScriptFiles : Plainly(f)
         /\ \A i \in 1..Len(script["outside"]) : script["outside"][i].kind = "command"
         /\ \A i \in 1..Len(script["lib"]) : script["lib"][i].kind # "command" => script["lib"][i].to = "outside"
         /\ \A i \in 1..Len(script["main"]) :
              script["main"][i].kind # "command" => script["main"][i].to \in {"lib", "outside", "gone"}
<1>1. "main" \in ScriptFiles /\ "lib" \in ScriptFiles /\ "outside" \in ScriptFiles
      /\ \A f \in ScriptFiles : f = "main" \/ f = "lib" \/ f = "outside"
  BY DEF ScriptFiles
<1>2. \A f \in ScriptFiles : \A i \in 1..Len(script[f]) :
        /\ i \in DOMAIN script[f] /\ script[f][i] \in LinesOf(f)
        /\ script[f][i].kind \in {"source", "allow"} => script[f][i].to \in Sourced(f)
  BY LineTypes DEF Sourced
<1>3. \A line \in Sources("main") : line.kind \in {"source", "allow"} /\ line.to \in {"lib", "outside", "gone"}
  BY DEF Sources, Line
<1>4. \A line \in Sources("lib") : line.kind \in {"source", "allow"} /\ line.to \in {"main", "outside"}
  BY DEF Sources, Line
<1>5. \A line \in Sources("outside") : line.kind \in {"source", "allow"} /\ line.to \in {"lib", "outside"}
  BY DEF Sources, Line
<1>6. AnyCommand.kind = "command" BY DEF AnyCommand, Line
<1>7. "outside" \notin Sourced("outside") /\ "main" \notin Sourced("lib") /\ "lib" \notin Sourced("outside")
  BY <1>1 DEF Circular
<1>8. ASSUME NEW i \in 1..Len(script["main"])
      PROVE  script["main"][i] \in {AnyCommand} \cup Sources("main")
  BY <1>1, <1>2 DEF Plain, LinesOf
<1>9. ASSUME NEW i \in 1..Len(script["lib"]) PROVE script["lib"][i] \in {AnyCommand} \cup Sources("lib")
  BY <1>1, <1>2 DEF LinesOf
<1>10. ASSUME NEW i \in 1..Len(script["outside"]) PROVE script["outside"][i] \in {AnyCommand} \cup Sources("outside")
  BY <1>1, <1>2 DEF LinesOf
<1> HIDE DEF Sources
<1>11. \A f \in ScriptFiles : Plainly(f)
  <2>1. Plainly("main") BY <1>3, <1>6, <1>8 DEF Plainly
  <2>2. Plainly("lib") BY <1>4, <1>6, <1>9 DEF Plainly
  <2>3. Plainly("outside") BY <1>5, <1>6, <1>10 DEF Plainly
  <2> QED BY <1>1, <2>1, <2>2, <2>3
<1>12. \A i \in 1..Len(script["outside"]) : script["outside"][i].kind = "command"
  <2> TAKE i \in 1..Len(script["outside"])
  <2>1. script["outside"][i] \in Sources("outside") => script["outside"][i].to \in Sourced("outside") BY <1>1, <1>2, <1>5
  <2> QED BY <1>5, <1>6, <1>7, <1>10, <2>1
<1>13. \A i \in 1..Len(script["lib"]) : script["lib"][i].kind # "command" => script["lib"][i].to = "outside"
  <2> TAKE i \in 1..Len(script["lib"])
  <2>1. script["lib"][i] \in Sources("lib") => script["lib"][i].to \in Sourced("lib") BY <1>1, <1>2, <1>4
  <2> QED BY <1>4, <1>6, <1>7, <1>9, <2>1
<1>14. \A i \in 1..Len(script["main"]) :
         script["main"][i].kind # "command" => script["main"][i].to \in {"lib", "outside", "gone"}
  BY <1>3, <1>6, <1>8
<1> QED BY <1>11, <1>12, <1>13, <1>14

\* Joined texts have the commands of their parts.
LEMMA JoinedElements ==
  ASSUME NEW ss \in Seq(ScriptTexts), NEW U, \A i \in 1..Len(ss) : Elements(ss[i]) \subseteq U
  PROVE  FlattenSeq(ss) \in ScriptTexts /\ Elements(FlattenSeq(ss)) \subseteq U
<1> DEFINE n == Len(ss)
<1>1. ss \in Seq(Seq(CommandNames)) /\ n \in Nat BY DEF ScriptTexts
<1>2. PICK j : JoinsTo(j, ss, CommandNames) BY <1>1, JoinExists
<1>3. j \in [Nat -> ScriptTexts] /\ j[0] = <<>> /\ \A i \in 1..n : j[i] = j[i - 1] \o ss[i] BY <1>2 DEF JoinsTo, ScriptTexts
<1> DEFINE T == {k \in Nat : k <= n => Elements(j[k]) \subseteq U}
<1>4. 0 \in T BY <1>3, ElementsOf
<1>5. ASSUME NEW k \in Nat, k \in T PROVE k + 1 \in T
  <2> SUFFICES ASSUME k + 1 <= n PROVE Elements(j[k + 1]) \subseteq U OBVIOUS
  <2>1. k + 1 \in 1..n /\ (k + 1) - 1 = k /\ k <= n BY <1>1
  <2>2. j[k + 1] = j[k] \o ss[k + 1] BY <1>3, <2>1
  <2>3. j[k] \in ScriptTexts /\ ss[k + 1] \in ScriptTexts BY <1>3, <2>1
  <2>4. Elements(j[k + 1]) = Elements(j[k]) \cup Elements(ss[k + 1]) BY <2>2, <2>3, ElementsOf
  <2> QED BY <1>5, <2>1, <2>4
<1>6. Nat \subseteq T
  <2> HIDE DEF T
  <2> QED BY <1>4, <1>5, SetInduction
<1>7. FlattenSeq(ss) = j[n] BY <1>1, <1>2, FlattenSeqJoins
<1> QED BY <1>1, <1>3, <1>6, <1>7

\* What a script comes to in bash, from what the scripts come to that it sources.
BashText(f, bash) == FlattenSeq(LineTexts(f, bash))

\* A script comes to its own commands and those of what it sources.
LEMMA BashTextElements ==
  ASSUME ScriptTypeOK, NEW f \in ScriptFiles, NEW bash, NEW U \in SUBSET ScriptCommands, ScriptCommands \cap OfFiles({f}) \subseteq U,
         \A i \in 1..Len(script[f]) : script[f][i].kind # "command" =>
           bash[script[f][i].to] \in ScriptTexts /\ Elements(bash[script[f][i].to]) \subseteq U
  PROVE  BashText(f, bash) \in ScriptTexts /\ Elements(BashText(f, bash)) \subseteq U
<1> DEFINE n == Len(script[f])
<1>1. n \in Nat /\ DOMAIN script[f] = 1..n BY DEF ScriptTypeOK
<1>2. ASSUME NEW i \in 1..n PROVE LineText(f, i, bash) \in ScriptTexts /\ Elements(LineText(f, i, bash)) \subseteq U
  <2>1. CASE script[f][i].kind = "command"
    <3>1. PICK x : x = <<f, i>> OBVIOUS
    <3>2. x \in CommandNames BY <1>1, <3>1 DEF CommandNames
    <3>3. x \in ScriptCommands \cap OfFiles({f}) BY <2>1, <3>1, <3>2 DEF ScriptCommands, OfFiles
    <3>4. LineText(f, i, bash) = <<x>> BY <2>1, <3>1 DEF LineText
    <3> QED BY <3>2, <3>3, <3>4, ElementsOf
  <2>2. CASE script[f][i].kind # "command" BY <2>2 DEF LineText
  <2> QED BY <2>1, <2>2
<1>3. LineTexts(f, bash) = [i \in 1..n |-> LineText(f, i, bash)] BY <1>1 DEF LineTexts
<1>4. LineTexts(f, bash) \in Seq(ScriptTexts) /\ Len(LineTexts(f, bash)) = n /\ \A i \in 1..n : LineTexts(f, bash)[i] = LineText(f, i, bash)
  BY <1>1, <1>2, <1>3
<1> QED BY <1>2, <1>4, JoinedElements DEF BashText

\* The equation of what bash runs.
LEMMA BashLaw ==
  ASSUME ScriptTypeOK,
         \A f \in ScriptFiles : \A i \in 1..Len(script[f]) :
           script[f][i].kind # "command" => script[f][i].to \in ScriptFiles
  PROVE  \A levels \in Nat : /\ BashRuns[levels] \in [ScriptFiles -> ScriptTexts]
                             /\ \A f \in ScriptFiles : BashRuns[levels + 1][f] = BashText(f, BashRuns[levels])
<1> DEFINE Row(g, levels) == [f \in ScriptFiles |-> IF levels = 0 THEN <<>> ELSE BashText(f, g[levels - 1])]
           Eq(g) == g = [levels \in Nat |-> Row(g, levels)]
           TextTables == [ScriptFiles -> ScriptTexts]
           none == [f \in ScriptFiles |-> <<>>]
           More(t) == [f \in ScriptFiles |-> BashText(f, t)]
           more == [levels \in Nat |-> [t \in TextTables |-> More(t)]]
<1> HIDE DEF ScriptFiles
<1>1. none \in TextTables BY DEF ScriptTexts
<1>2. \A t \in TextTables : More(t) \in TextTables
  <2>1. ASSUME NEW t \in TextTables, NEW f \in ScriptFiles PROVE BashText(f, t) \in ScriptTexts
    <3>1. ASSUME NEW i \in 1..Len(script[f]), script[f][i].kind # "command"
          PROVE  t[script[f][i].to] \in ScriptTexts
      BY <3>1
    <3>2. DOMAIN script[f] = 1..Len(script[f]) /\ Len(script[f]) \in Nat BY DEF ScriptTypeOK
    <3>3. ASSUME NEW i \in 1..Len(script[f]) PROVE LineText(f, i, t) \in ScriptTexts
      <4>1. <<<<f, i>>>> \in ScriptTexts BY <3>2 DEF ScriptTexts, CommandNames
      <4> QED BY <3>1, <4>1 DEF LineText
    <3>4. LineTexts(f, t) = [i \in 1..Len(script[f]) |-> LineText(f, i, t)] BY <3>2 DEF LineTexts
    <3>5. LineTexts(f, t) \in Seq(Seq(CommandNames)) BY <3>2, <3>3, <3>4 DEF ScriptTexts
    <3> QED BY <3>5, FlattenSeqType DEF BashText, ScriptTexts
  <2> QED BY <2>1
<1>3. more \in [Nat -> [TextTables -> TextTables]]
  <2> HIDE DEF More, TextTables
  <2> QED BY <1>2
<1> HIDE DEF TextTables
<1>4. PICK f : IteratesFrom(f, TextTables, none, more)
  <2> HIDE DEF more, none
  <2> QED BY <1>1, <1>3, NatRecursion
<1>5. f \in [Nat -> TextTables] /\ f[0] = none /\ \A n \in Nat : f[n + 1] = More(f[n])
  <2>1. f \in [Nat -> TextTables] /\ f[0] = none /\ \A n \in Nat : f[n + 1] = more[n][f[n]]
    <3> HIDE DEF more, none
    <3> QED BY <1>4 DEF IteratesFrom
  <2>2. \A n \in Nat : more[n][f[n]] = More(f[n])
    <3> HIDE DEF More
    <3> QED BY <2>1
  <2> HIDE DEF more, none, More
  <2> QED BY <2>1, <2>2
<1>6. Eq(f)
  <2>1. ASSUME NEW n \in Nat PROVE f[n] = Row(f, n)
    <3>1. CASE n = 0
      <4>1. Row(f, 0) = none OBVIOUS
      <4> HIDE DEF Row, none
      <4> QED BY <1>5, <3>1, <4>1
    <3>2. CASE n # 0
      <4>1. n - 1 \in Nat /\ (n - 1) + 1 = n BY <3>2
      <4>2. f[n] = More(f[n - 1])
        <5> HIDE DEF More
        <5> QED BY <1>5, <4>1
      <4>3. More(f[n - 1]) = Row(f, n) BY <3>2
      <4> HIDE DEF Row, More
      <4> QED BY <4>2, <4>3
    <3> QED BY <3>1, <3>2
  <2> HIDE DEF Row
  <2> QED BY <1>5, <2>1
<1>7. BashRuns = CHOOSE g : Eq(g) BY DEF BashRuns, Eq, Row, BashText, LineTexts, LineText
<1>8. Eq(BashRuns)
  <2> HIDE DEF Eq
  <2> QED BY <1>6, <1>7
<1>9. \A levels \in Nat : BashRuns[levels] = Row(BashRuns, levels)
  <2> HIDE DEF Row
  <2> QED BY <1>8
<1>10. BashRuns[0] = none
  <2>1. Row(BashRuns, 0) = none OBVIOUS
  <2> HIDE DEF Row, none
  <2> QED BY <1>9, <2>1
<1>11. ASSUME NEW levels \in Nat PROVE BashRuns[levels + 1] = More(BashRuns[levels])
  <2>1. levels + 1 \in Nat /\ levels + 1 # 0 /\ (levels + 1) - 1 = levels OBVIOUS
  <2>2. Row(BashRuns, levels + 1) = More(BashRuns[levels]) BY <2>1
  <2> HIDE DEF Row, More
  <2> QED BY <1>9, <2>1, <2>2
<1> DEFINE T == {n \in Nat : BashRuns[n] \in TextTables}
<1>12. Nat \subseteq T
  <2>1. 0 \in T
    <3> HIDE DEF none
    <3> QED BY <1>1, <1>10
  <2>2. \A n \in Nat : n \in T => n + 1 \in T
    <3> HIDE DEF More
    <3> QED BY <1>2, <1>11
  <2> HIDE DEF T
  <2> QED BY <2>1, <2>2, SetInduction
<1>13. \A levels \in Nat : \A file \in ScriptFiles : BashRuns[levels + 1][file] = BashText(file, BashRuns[levels])
  <2> TAKE levels \in Nat
  <2> TAKE file \in ScriptFiles
  <2>1. More(BashRuns[levels])[file] = BashText(file, BashRuns[levels]) OBVIOUS
  <2> HIDE DEF More
  <2> QED BY <1>11, <2>1
<1> QED BY <1>12, <1>13 DEF TextTables

\* A file processed before adds nothing.
LEMMA AlreadyServed ==
  ASSUME NEW Q \in SUBSET ScriptFiles, NEW t \in ScriptTexts, Elements(t) \subseteq OfFiles(Q), NEW closed, Q \in closed
  PROVE  Served(Reading(Q), t, Q, closed)
<1>1. Unseen(t, OfFiles(Q)) = <<>> BY UnseenNothing
<1> QED BY <1>1 DEF Served, Reading, OfFiles

\* outside comes to its own commands.
LEMMA OutsideText ==
  ASSUME ScriptTypeOK, \A i \in 1..Len(script["outside"]) : script["outside"][i].kind = "command", NEW bash
  PROVE  /\ BashText("outside", bash) \in ScriptTexts
         /\ Elements(BashText("outside", bash)) \subseteq ScriptCommands \cap OfFiles({"outside"})
<1>1. "outside" \in ScriptFiles BY DEF ScriptFiles
<1>2. \A i \in 1..Len(script["outside"]) : script["outside"][i].kind # "command" =>
        bash[script["outside"][i].to] \in ScriptTexts
        /\ Elements(bash[script["outside"][i].to]) \subseteq ScriptCommands \cap OfFiles({"outside"})
  OBVIOUS
<1> QED BY <1>1, <1>2, BashTextElements

\* outside is served, for it sources nothing.
LEMMA OutsideServed ==
  ASSUME ScriptTypeOK, \A i \in 1..Len(script["outside"]) : script["outside"][i].kind = "command",
         NEW bash, NEW n \in Nat, NEW Q \in SUBSET ScriptFiles, Inline[n]["outside"][Q].error = "none"
  PROVE  \A closed : Q \cup {"outside"} \in closed =>
           Served(Inline[n]["outside"][Q], BashText("outside", bash), Q, closed)
<1> DEFINE t == BashText("outside", bash)
<1>1. "outside" \in ScriptFiles BY DEF ScriptFiles
<1>2. t \in ScriptTexts /\ Elements(t) \subseteq ScriptCommands \cap OfFiles({"outside"}) BY OutsideText
<1>3. Inline[n]["outside"][Q] = IF n = 0 THEN Fail(Reading(Q), "depth") ELSE NextLevel(Inline[n - 1], "outside", Q)
  <2>1. n = 0 \/ (n - 1 \in Nat /\ (n - 1) + 1 = n) OBVIOUS
  <2> QED BY <1>1, <2>1, InlineLaw
<1>4. n # 0 /\ n - 1 \in Nat
  <2>1. Fail(Reading(Q), "depth").error = "depth" BY DEF Fail, Reading
  <2> QED BY <1>3, <2>1
<1>5. ASSUME NEW closed, Q \cup {"outside"} \in closed PROVE Served(Inline[n]["outside"][Q], t, Q, closed)
  <2>1. CASE "outside" \in Q
    <3>1. Elements(t) \subseteq OfFiles(Q) BY <1>2, <2>1 DEF OfFiles
    <3>2. Q \cup {"outside"} = Q BY <2>1
    <3>3. Inline[n]["outside"][Q] = Reading(Q) BY <1>3, <1>4, <2>1 DEF NextLevel
    <3> HIDE DEF t
    <3> QED BY <1>2, <1>5, <3>1, <3>2, <3>3, AlreadyServed
  <2>2. CASE "outside" \notin Q
    <3>1. Inline[n]["outside"][Q] = ReadScript("outside", Q, Inline[n - 1]) BY <1>3, <1>4, <2>2 DEF NextLevel
    <3>2. Inline[n - 1] \in ReadTables BY <1>4, InlineLaw
    <3>3. Plainly("outside") /\ Serves("outside", bash, Inline[n - 1], closed) BY DEF Plainly, Serves
    <3>4. ReadScript("outside", Q, Inline[n - 1]).error = "none" BY <3>1
    <3>5. Served(ReadScript("outside", Q, Inline[n - 1]), FlattenSeq(LineTexts("outside", bash)), Q, closed)
      BY <1>1, <1>5, <2>2, <3>2, <3>3, <3>4, FileServed
    <3> QED BY <3>1, <3>5 DEF BashText
  <2> QED BY <2>1, <2>2
<1> QED BY <1>5

\* The sets of files processed that hold what lib sources if they hold lib.
WithSources(t) == {Q \in SUBSET ScriptFiles : "lib" \in Q => Elements(t) \subseteq OfFiles(Q)}

\* lib is served, for it sources outside only.
LEMMA LibServed ==
  ASSUME ScriptTypeOK, \A i \in 1..Len(script["outside"]) : script["outside"][i].kind = "command",
         \A i \in 1..Len(script["lib"]) : script["lib"][i].kind # "command" => script["lib"][i].to = "outside",
         Plainly("lib"), NEW bash, NEW below, bash["outside"] = BashText("outside", below),
         NEW n \in Nat, NEW Q \in WithSources(BashText("lib", bash)), Inline[n]["lib"][Q].error = "none"
  PROVE  Served(Inline[n]["lib"][Q], BashText("lib", bash), Q, WithSources(BashText("lib", bash)))
<1> DEFINE t == BashText("lib", bash)
           closed == SUBSET ScriptFiles
<1>1. "lib" \in ScriptFiles /\ "outside" \in ScriptFiles /\ Q \in SUBSET ScriptFiles BY DEF ScriptFiles, WithSources
<1>2. bash["outside"] \in ScriptTexts /\ Elements(bash["outside"]) \subseteq ScriptCommands \cap OfFiles({"outside"}) BY OutsideText
<1>3. t \in ScriptTexts /\ Elements(t) \subseteq ScriptCommands
  <2>1. ScriptCommands \cap OfFiles({"lib"}) \subseteq ScriptCommands /\ ScriptCommands \in SUBSET ScriptCommands OBVIOUS
  <2>2. \A i \in 1..Len(script["lib"]) : script["lib"][i].kind # "command" =>
          bash[script["lib"][i].to] \in ScriptTexts /\ Elements(bash[script["lib"][i].to]) \subseteq ScriptCommands
    BY <1>2
  <2> QED BY <1>1, <2>1, <2>2, BashTextElements
<1>4. Inline[n]["lib"][Q] = IF n = 0 THEN Fail(Reading(Q), "depth") ELSE NextLevel(Inline[n - 1], "lib", Q)
  <2>1. n = 0 \/ (n - 1 \in Nat /\ (n - 1) + 1 = n) OBVIOUS
  <2> QED BY <1>1, <2>1, InlineLaw
<1>5. n # 0 /\ n - 1 \in Nat
  <2>1. Fail(Reading(Q), "depth").error = "depth" BY DEF Fail, Reading
  <2> QED BY <1>4, <2>1
<1>6. CASE "lib" \in Q
  <2>1. Elements(t) \subseteq OfFiles(Q) BY <1>6 DEF WithSources
  <2>2. Inline[n]["lib"][Q] = Reading(Q) BY <1>4, <1>5, <1>6 DEF NextLevel
  <2> HIDE DEF t
  <2> QED BY <1>1, <1>3, <2>1, <2>2, AlreadyServed DEF t
<1>7. CASE "lib" \notin Q
  <2> DEFINE r == ReadScript("lib", Q, Inline[n - 1])
  <2>1. Inline[n]["lib"][Q] = r BY <1>4, <1>5, <1>7 DEF NextLevel
  <2>2. Inline[n - 1] \in ReadTables BY <1>5, InlineLaw
  <2>3. Serves("lib", bash, Inline[n - 1], closed)
    <3> SUFFICES ASSUME NEW i \in 1..Len(script["lib"]), script["lib"][i].kind # "command"
                 PROVE  /\ bash["outside"] \in ScriptTexts /\ Elements(bash["outside"]) \subseteq ScriptCommands \ OfFiles({"lib"})
                        /\ \A P \in SUBSET ScriptFiles : Inline[n - 1]["outside"][P].error = "none" =>
                             Served(Inline[n - 1]["outside"][P], bash["outside"], P, closed)
      BY DEF Serves
    <3>1. Elements(bash["outside"]) \subseteq ScriptCommands \ OfFiles({"lib"}) BY <1>2 DEF OfFiles
    <3>2. ASSUME NEW P \in SUBSET ScriptFiles, Inline[n - 1]["outside"][P].error = "none"
          PROVE  Served(Inline[n - 1]["outside"][P], bash["outside"], P, closed)
      <4>1. P \cup {"outside"} \in closed BY <1>1
      <4> HIDE DEF closed
      <4> QED BY <1>5, <3>2, <4>1, OutsideServed
    <3> QED BY <1>2, <3>1, <3>2
  <2>4. Q \cup {"lib"} \in closed BY <1>1
  <2>5. Served(r, t, Q, closed)
    <3> HIDE DEF closed
    <3> QED BY <1>1, <1>7, <2>1, <2>2, <2>3, <2>4, FileServed DEF BashText
  <2> HIDE DEF r
  <2>6. Elements(t) \subseteq OfFiles(r.processed) BY <1>3, <2>5 DEF Served, OfFiles, ScriptCommands
  <2>7. r.processed \in WithSources(t) BY <2>5, <2>6 DEF WithSources, Served
  <2> QED BY <2>1, <2>5, <2>7 DEF Served
<1> QED BY <1>6, <1>7

\* For scripts of any length in which no file sources itself, and any depth at which
\* the inliner reports no error, the inlined text runs what bash would run, each file
\* once (inline_bash_source).
THEOREM InlinedScriptsRunLikeBash == ScriptSpec => []RunsLikeBash
<1>1. ScriptTypeOK => RunsLikeBash
  <2> SUFFICES ASSUME ScriptTypeOK, Plain, ~ Circular, Inlined.error = "none"
               PROVE  Inlined.text = FirstOnly(BashRuns[3]["main"])
    BY DEF RunsLikeBash
  <2> DEFINE t == BashText("lib", BashRuns[1])
             bash == BashRuns[2]
             n == Len(script["main"])
             closed == WithSources(t)
             sourced == Inline[MaxDepth]
  <2>1. "main" \in ScriptFiles /\ "lib" \in ScriptFiles /\ "outside" \in ScriptFiles /\ {} \in SUBSET ScriptFiles
        /\ \A f \in ScriptFiles : f = "main" \/ f = "lib" \/ f = "outside"
    BY DEF ScriptFiles
  <2>2. PICK h : ReadBy(h, "main", {}, sourced) /\ h[n].error = "none" /\ Inlined = h[n]
                  /\ Inlined = ReadScript("main", {}, sourced)
    BY InlinedText
  <2>3. sourced \in ReadTables BY InliningAssumption, InlineLaw
  <2>4. /\ \A f \in ScriptFiles : Plainly(f)
        /\ \A i \in 1..Len(script["outside"]) : script["outside"][i].kind = "command"
        /\ \A i \in 1..Len(script["lib"]) : script["lib"][i].kind # "command" => script["lib"][i].to = "outside"
        /\ \A i \in 1..n : script["main"][i].kind # "command" => script["main"][i].to \in {"lib", "outside", "gone"}
    BY ScriptShape
  <2>5. \A i \in 1..n : script["main"][i].kind # "command" => script["main"][i].to \in ScriptFiles
    <3>1. \A i \in 1..n : LineRead(h[i], h[i - 1], "main", i, sourced) /\ NoFlags(h[i - 1])
      BY <2>1, <2>2, <2>3, <2>4, PlainReads
    <3> QED BY <2>1, <2>4, <3>1 DEF LineRead, NoFlags, Plainly
  <2>6. \A f \in ScriptFiles : \A i \in 1..Len(script[f]) :
          script[f][i].kind # "command" => script[f][i].to \in ScriptFiles
    BY <2>1, <2>4, <2>5
  <2>7. /\ BashRuns[3]["main"] = BashText("main", bash)
        /\ bash["lib"] = t /\ bash["outside"] = BashText("outside", BashRuns[1])
        /\ BashRuns[1]["outside"] = BashText("outside", BashRuns[0])
        /\ bash \in [ScriptFiles -> ScriptTexts] /\ BashRuns[3] \in [ScriptFiles -> ScriptTexts]
    <3>1. 0 + 1 = 1 /\ 1 + 1 = 2 /\ 2 + 1 = 3 OBVIOUS
    <3> QED BY <2>1, <2>6, <3>1, BashLaw
  <2> HIDE DEF bash
  <2>8. BashText("outside", BashRuns[0]) \in ScriptTexts
        /\ Elements(BashText("outside", BashRuns[0])) \subseteq ScriptCommands \cap OfFiles({"outside"})
        /\ Elements(BashText("outside", BashRuns[1])) \subseteq ScriptCommands \cap OfFiles({"outside"})
    BY <2>4, OutsideText
  <2>9. Elements(t) \subseteq ScriptCommands \ OfFiles({"main"})
    <3>1. ScriptCommands \cap OfFiles({"lib"}) \subseteq ScriptCommands \ OfFiles({"main"}) BY DEF OfFiles
    <3>2. ScriptCommands \cap OfFiles({"outside"}) \subseteq ScriptCommands \ OfFiles({"main"}) BY DEF OfFiles
    <3>3. ScriptCommands \ OfFiles({"main"}) \in SUBSET ScriptCommands OBVIOUS
    <3>4. \A i \in 1..Len(script["lib"]) : script["lib"][i].kind # "command" =>
            /\ BashRuns[1][script["lib"][i].to] \in ScriptTexts
            /\ Elements(BashRuns[1][script["lib"][i].to]) \subseteq ScriptCommands \ OfFiles({"main"})
      BY <2>4, <2>7, <2>8, <3>2
    <3> QED BY <2>1, <3>1, <3>3, <3>4, BashTextElements
  <2>10. Serves("main", bash, sourced, closed)
    <3> SUFFICES ASSUME NEW i \in 1..n, script["main"][i].kind # "command",
                        NEW g, g = script["main"][i].to, g \in ScriptFiles
                 PROVE  /\ bash[g] \in ScriptTexts /\ Elements(bash[g]) \subseteq ScriptCommands \ OfFiles({"main"})
                        /\ \A Q \in SUBSET ScriptFiles : Q \in closed /\ sourced[g][Q].error = "none" =>
                             Served(sourced[g][Q], bash[g], Q, closed)
      BY DEF Serves
    <3>1. bash[g] \in ScriptTexts BY <2>7
    <3>2. g = "lib" \/ g = "outside" BY <2>1, <2>4
    <3>3. CASE g = "lib"
      <4>1. ASSUME NEW Q \in closed, sourced["lib"][Q].error = "none" PROVE Served(sourced["lib"][Q], t, Q, closed)
        BY <2>1, <2>4, <2>7, <4>1, InliningAssumption, LibServed
      <4> QED BY <2>7, <2>9, <3>1, <3>3, <4>1
    <3>4. CASE g = "outside"
      <4>1. ASSUME NEW Q \in SUBSET ScriptFiles, Q \in closed, sourced["outside"][Q].error = "none"
            PROVE  Served(sourced["outside"][Q], bash["outside"], Q, closed)
        <5>1. Q \cup {"outside"} \in closed BY <2>1, <4>1 DEF WithSources, OfFiles
        <5> HIDE DEF closed
        <5> QED BY <2>4, <2>7, <4>1, <5>1, InliningAssumption, OutsideServed
      <4>2. Elements(bash["outside"]) \subseteq ScriptCommands \ OfFiles({"main"}) BY <2>7, <2>8 DEF OfFiles
      <4> QED BY <3>1, <3>4, <4>1, <4>2
    <3> QED BY <3>2, <3>3, <3>4
  <2>11. {} \cup {"main"} \in closed BY <2>1 DEF WithSources
  <2>12. ReadScript("main", {}, sourced).error = "none" /\ Inlined = ReadScript("main", {}, sourced) BY <2>2
  <2>13. Served(Inlined, BashText("main", bash), {}, closed)
    <3> HIDE DEF closed, sourced
    <3> QED BY <2>1, <2>3, <2>4, <2>10, <2>11, <2>12, FileServed DEF BashText
  <2>14. OfFiles({}) = {} BY DEF OfFiles
  <2>15. BashRuns[3]["main"] \in ScriptTexts BY <2>1, <2>7
  <2> QED BY <2>7, <2>13, <2>14, <2>15, FirstAreUnseen DEF Served
<1> QED BY <1>1, ScriptType, PTL

(***************************************************************************)
(* The commands together.                                                  *)
(***************************************************************************)

\* Every behavior of the parts together is a behavior of each of them.
THEOREM PartsKeepTheirSpecs ==
  ToolsSpec => /\ CliSpec /\ SettingsSpec /\ TriggerSpec /\ RunnerSpec /\ AutogitSpec /\ HookSpec
               /\ MapSpec /\ ScriptSpec /\ BlockSpec /\ RoundSpec /\ ValidationSpec /\ InputsSpec
<1>1. ToolsInit => /\ CliInit /\ SettingsInit /\ TriggerInit /\ RunnerInit /\ AutogitInit /\ HookInit
                   /\ MapInit /\ ScriptInit /\ BlockInit /\ RoundInit /\ ValidationInit /\ InputsInit
  BY DEF ToolsInit
<1>2. [ToolsNext]_toolsVars =>
        /\ [CliNext]_cliVars /\ [SettingsNext]_layersSet /\ [TriggerNext]_triggerVars /\ [RunnerNext]_runnerVars
        /\ [AutogitNext]_gitVars /\ [HookNext]_hookVars /\ [MapNext]_mapVars /\ [ScriptNext]_script
        /\ [BlockNext]_blockVars /\ [RoundNext]_roundVars /\ [ValidationNext]_validateVars
        /\ [InputsNext]_inputsVars
  BY DEF ToolsNext, toolsVars, CliPart, SettingsPart, TriggerPart, RunnerPart, GitPart, HookPart, MapPart,
         ScriptPart, BlockPart, RoundPart, ValidatePart, InputsPart
<1> QED
  BY <1>1, <1>2, PTL DEF ToolsSpec, CliSpec, SettingsSpec, TriggerSpec, RunnerSpec, AutogitSpec, HookSpec, MapSpec,
                         ScriptSpec, BlockSpec, RoundSpec, ValidationSpec, InputsSpec

\* Whatever the commands do, each keeps to its types.
THEOREM ToolsTypes == ToolsSpec => []ToolsTypeOK
<1>1. SettingsSpec => []TypeOKSettings
  <2>1. SettingsInit => TypeOKSettings BY DEF SettingsInit, TypeOKSettings
  <2>2. TypeOKSettings /\ [SettingsNext]_layersSet => TypeOKSettings'
    BY DEF TypeOKSettings, SettingsNext, SetLayer, UnsetLayer
  <2> QED BY <2>1, <2>2, PTL DEF SettingsSpec
<1>2. TriggerInv => TriggerTypeOK BY DEF TriggerInv
<1>3. RunnerInv => RunnerTypeOK BY DEF RunnerInv
<1>4. AutogitInv => AutogitTypeOK BY DEF AutogitInv
<1>5. HookInv => HookTypeOK BY DEF HookInv
<1>6. MapInv => MapTypeOK BY DEF MapInv
<1> QED
  BY <1>1, <1>2, <1>3, <1>4, <1>5, <1>6, PartsKeepTheirSpecs, TriggerInvariant, RunnerInvariant, AutogitInvariant,
     HookInvariant, MapInvariant, ValidationTypes, InputsTypes, PTL DEF ToolsTypeOK
=============================================================================
