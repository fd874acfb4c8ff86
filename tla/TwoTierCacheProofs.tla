------------------------- MODULE TwoTierCacheProofs -------------------------
(***************************************************************************)
(* Proofs about TwoTierCache for every number of requests and processes,   *)
(* every set of models, of prompts and of embeddings.  What is said of the *)
(* hash holds of prompts without separators.                               *)
(***************************************************************************)
EXTENDS TwoTierCache, FiniteSetTheorems, SequenceTheorems,
        WellFoundedInduction, TLAPS

-----------------------------------------------------------------------------
(* Induction over the natural numbers, with sets in the place of predicates.  *)
LEMMA LeastNatural ==
  ASSUME NEW T \in SUBSET Nat, T # {}
  PROVE  \E x \in T : \A y \in T : x <= y
<1> DEFINE R == {ss \in Nat \X Nat : ss[1] < ss[2]}
<1>1. IsWellFoundedOn(OpToRel(<, Nat), Nat)
  BY NatLessThanWellFounded
<1>2. OpToRel(<, Nat) = R
  BY Zenon DEF OpToRel
<1>3. IsWellFoundedOn(R, Nat)
  BY <1>1, <1>2, Zenon
<1>4. PICK x \in T : \A y \in T : ~(<<y, x>> \in R)
  BY <1>3, WFMin, Zenon
<1>5. \A y \in Nat : y < x => <<y, x>> \in R
  OBVIOUS
<1>6. ASSUME NEW y \in T
      PROVE  x <= y
  <2>1. x \in Nat /\ y \in Nat
    OBVIOUS
  <2>2. ~(y < x)
    BY <1>4, <1>5, <2>1, Zenon
  <2>3. QED BY <2>1, <2>2
<1>7. QED BY <1>6

LEMMA SetInduction ==
  ASSUME NEW S \in SUBSET Nat, 0 \in S, \A n \in S : n + 1 \in S
  PROVE  S = Nat
<1>1. SUFFICES ASSUME Nat \ S # {}
               PROVE  FALSE
  OBVIOUS
<1>2. PICK x \in Nat \ S : \A y \in Nat \ S : x <= y
  BY <1>1, LeastNatural
<1>3. x - 1 \in Nat /\ x - 1 \notin Nat \ S
  BY <1>2
<1>4. QED BY <1>2, <1>3

-----------------------------------------------------------------------------
(* prompt_hash separates plain prompts.  It joins the messages to the model,  *)
(* one after the other; f[n] is the text joined from the first n messages.    *)
Symbols == Models \cup Roles \cup Words \cup {"|", ":"}

Message == [role: Roles, content: Seq(Words)]

Join(s, x) == s \o <<"|", x.role, ":">> \o x.content

Joins(f, len, m, p) ==
  /\ f \in [0..len -> Seq(Symbols)]
  /\ f[0] = <<m>>
  /\ \A n \in 1..len : f[n] = Join(f[n - 1], p[n])

LEMMA PromptTypes ==
  ASSUME NEW p \in Prompts
  PROVE  /\ p \in Seq(Message) /\ Len(p) \in Nat
         /\ \A n \in 1..Len(p) : p[n] \in Message
  BY PromptAssumption, LenProperties, ElementOfSeq DEF Message

LEMMA ConcatFacts ==
  ASSUME NEW S, NEW u \in Seq(S), NEW v \in Seq(S)
  PROVE  /\ u \o v \in Seq(S) /\ Len(u) \in Nat /\ Len(v) \in Nat
         /\ Len(u \o v) = Len(u) + Len(v)
         /\ \A i \in 1..Len(u) : (u \o v)[i] = u[i]
         /\ \A i \in 1..Len(v) : (u \o v)[Len(u) + i] = v[i]
<1>1. Len(u) \in Nat /\ Len(v) \in Nat
  BY LenProperties
<1>2. /\ u \o v \in Seq(S) /\ Len(u \o v) = Len(u) + Len(v)
      /\ \A i \in 1..(Len(u) + Len(v)) :
           (u \o v)[i] = IF i <= Len(u) THEN u[i] ELSE v[i - Len(u)]
  BY ConcatProperties
<1>3. ASSUME NEW i \in 1..Len(v)
      PROVE  (u \o v)[Len(u) + i] = v[i]
  <2>1. /\ Len(u) + i \in 1..(Len(u) + Len(v)) /\ ~(Len(u) + i <= Len(u))
        /\ (Len(u) + i) - Len(u) = i
    BY <1>1
  <2>2. QED BY <1>2, <2>1
<1>4. ASSUME NEW i \in 1..Len(u)
      PROVE  (u \o v)[i] = u[i]
  <2>1. i \in 1..(Len(u) + Len(v)) /\ i <= Len(u)
    BY <1>1
  <2>2. QED BY <1>2, <2>1
<1>5. QED BY <1>1, <1>2, <1>3, <1>4

(* What t has at which places, if it is s joined with the message x.          *)
Joined(t, s, x) ==
  /\ t \in Seq(Symbols)
  /\ Len(s) \in Nat /\ Len(x.content) \in Nat
  /\ Len(t) = Len(s) + 3 + Len(x.content)
  /\ \A i \in 1..Len(s) : t[i] = s[i]
  /\ t[Len(s) + 1] = "|" /\ t[Len(s) + 2] = x.role
  /\ \A i \in 1..Len(x.content) : t[Len(s) + 3 + i] = x.content[i]

LEMMA JoinFacts ==
  ASSUME NEW s \in Seq(Symbols), NEW x \in Message
  PROVE  Joined(Join(s, x), s, x)
<1> DEFINE c == x.content
           mark == <<"|", x.role, ":">>
           sm == s \o mark
<1>1. x.role \in Roles /\ c \in Seq(Words)
  BY DEF Message
<1>2. c \in Seq(Symbols)
  BY <1>1 DEF Symbols
<1>3. mark \in Seq(Symbols)
  BY <1>1 DEF Symbols
<1>4. Len(mark) = 3 /\ mark[1] = "|" /\ mark[2] = x.role
  OBVIOUS
<1>5. Join(s, x) = sm \o c
  BY DEF Join
<1> HIDE DEF c, mark
<1>6. /\ sm \in Seq(Symbols) /\ Len(s) \in Nat /\ Len(sm) = Len(s) + 3
      /\ \A i \in 1..Len(s) : sm[i] = s[i]
      /\ \A i \in 1..3 : sm[Len(s) + i] = mark[i]
  <2>1. sm \in Seq(Symbols)
    BY <1>3, ConcatFacts
  <2>2. Len(s) \in Nat /\ Len(sm) = Len(s) + Len(mark)
    BY <1>3, ConcatFacts
  <2>3. \A i \in 1..Len(s) : sm[i] = s[i]
    BY <1>3, ConcatFacts
  <2>4. \A i \in 1..Len(mark) : sm[Len(s) + i] = mark[i]
    BY <1>3, ConcatFacts
  <2>5. QED BY <1>4, <2>1, <2>2, <2>3, <2>4
<1> HIDE DEF sm
<1>7. /\ Len(c) \in Nat
      /\ sm \o c \in Seq(Symbols) /\ Len(sm \o c) = Len(sm) + Len(c)
      /\ \A i \in 1..Len(sm) : (sm \o c)[i] = sm[i]
      /\ \A i \in 1..Len(c) : (sm \o c)[Len(sm) + i] = c[i]
  <2>1. sm \o c \in Seq(Symbols)
    BY <1>2, <1>6, ConcatFacts
  <2>2. Len(c) \in Nat /\ Len(sm \o c) = Len(sm) + Len(c)
    BY <1>2, <1>6, ConcatFacts
  <2>3. \A i \in 1..Len(sm) : (sm \o c)[i] = sm[i]
    BY <1>2, <1>6, ConcatFacts
  <2>4. \A i \in 1..Len(c) : (sm \o c)[Len(sm) + i] = c[i]
    BY <1>2, <1>6, ConcatFacts
  <2>5. QED BY <2>1, <2>2, <2>3, <2>4
<1>8. \A i \in 1..Len(s) : (sm \o c)[i] = s[i]
  <2>1. \A i \in 1..Len(s) : i \in 1..Len(sm)
    BY <1>6
  <2>2. QED BY <1>6, <1>7, <2>1
<1>9. (sm \o c)[Len(s) + 1] = "|" /\ (sm \o c)[Len(s) + 2] = x.role
  <2>1. Len(s) + 1 \in 1..Len(sm) /\ Len(s) + 2 \in 1..Len(sm) /\ 1 \in 1..3 /\ 2 \in 1..3
    BY <1>6
  <2>2. QED BY <1>4, <1>6, <1>7, <2>1
<1>10. Len(sm \o c) = Len(s) + 3 + Len(c)
  BY <1>6, <1>7
<1>11. \A i \in 1..Len(c) : (sm \o c)[Len(s) + 3 + i] = c[i]
  BY <1>6, <1>7
<1>12. QED BY <1>5, <1>6, <1>7, <1>8, <1>9, <1>10, <1>11 DEF c, Joined

(* The recursive definition of prompt_hash has a solution, ...                *)
LEMMA JoinExists ==
  ASSUME NEW m \in Models, NEW p \in Prompts
  PROVE  \E f : Joins(f, Len(p), m, p)
<1> DEFINE S == {k \in Nat : k <= Len(p) => \E f : Joins(f, k, m, p)}
<1>1. Len(p) \in Nat /\ \A n \in 1..Len(p) : p[n] \in Message
  BY PromptTypes
<1>2. 0 \in S
  <2>1. <<m>> \in Seq(Symbols)
    BY DEF Symbols
  <2> DEFINE f == [i \in 0..0 |-> <<m>>]
  <2>2. Joins(f, 0, m, p)
    BY <2>1 DEF Joins
  <2>3. QED BY <2>2
<1>3. ASSUME NEW k \in S
      PROVE  k + 1 \in S
  <2>1. SUFFICES ASSUME k + 1 <= Len(p)
                 PROVE  \E f : Joins(f, k + 1, m, p)
    OBVIOUS
  <2>2. k \in Nat /\ k + 1 \in 1..Len(p) /\ (k + 1) - 1 = k
    BY <1>1, <2>1
  <2>3. PICK f : Joins(f, k, m, p)
    BY <1>1, <2>1, <2>2
  <2>4. f \in [0..k -> Seq(Symbols)] /\ f[k] \in Seq(Symbols)
    BY <2>2, <2>3 DEF Joins
  <2> DEFINE t == Join(f[k], p[k + 1])
             g == [i \in 0..(k + 1) |-> IF i = k + 1 THEN t ELSE f[i]]
  <2>5. t \in Seq(Symbols)
    BY <1>1, <2>2, <2>4, JoinFacts DEF Joined
  <2> HIDE DEF t
  <2>6. g \in [0..(k + 1) -> Seq(Symbols)]
    BY <2>2, <2>4, <2>5
  <2>7. g[k + 1] = t /\ \A i \in 0..k : g[i] = f[i]
    BY <2>2
  <2> HIDE DEF g
  <2>8. g[0] = <<m>>
    BY <2>2, <2>3, <2>7 DEF Joins
  <2>9. ASSUME NEW n \in 1..(k + 1)
        PROVE  g[n] = Join(g[n - 1], p[n])
    <3>1. n - 1 \in 0..k /\ g[n - 1] = f[n - 1]
      BY <2>2, <2>7
    <3>2. CASE n = k + 1
      BY <2>2, <2>7, <3>1, <3>2 DEF t
    <3>3. CASE n # k + 1
      <4>1. n \in 1..k /\ n \in 0..k
        BY <2>2, <3>3
      <4>2. QED BY <2>3, <2>7, <3>1, <4>1 DEF Joins
    <3>4. QED BY <3>2, <3>3
  <2>10. Joins(g, k + 1, m, p)
    BY <2>6, <2>8, <2>9 DEF Joins
  <2>11. QED BY <2>10
<1>4. S = Nat
  <2> HIDE DEF S
  <2>1. S \in SUBSET Nat
    BY DEF S
  <2>2. QED BY <1>2, <1>3, <2>1, SetInduction
<1>5. QED BY <1>1, <1>4

(* ... which prompt_hash is the end of.                                       *)
LEMMA HashJoins ==
  ASSUME NEW m \in Models, NEW p \in Prompts, p # <<>>
  PROVE  \E f : Joins(f, Len(p), m, p) /\ PromptHash(m, p) = f[Len(p)]
<1> DEFINE Raw(f) == f = [n \in 0..Len(p) |->
                            IF n = 0 THEN <<m>> ELSE Join(f[n - 1], p[n])]
           raw == CHOOSE f : Raw(f)
           S == {k \in Nat : k <= Len(p) => raw[k] \in Seq(Symbols)}
<1>1. Len(p) \in Nat /\ \A n \in 1..Len(p) : p[n] \in Message
  BY PromptTypes
<1>2. \E f : Raw(f)
  <2>1. PICK f : Joins(f, Len(p), m, p)
    BY JoinExists
  <2>2. f = [n \in 0..Len(p) |-> f[n]]
    BY <2>1 DEF Joins
  <2>3. f[0] = <<m>> /\ \A n \in 1..Len(p) : f[n] = Join(f[n - 1], p[n])
    BY <2>1, Zenon DEF Joins
  <2>4. \A n \in 0..Len(p) : n = 0 \/ n \in 1..Len(p)
    BY <1>1
  <2>5. \A n \in 0..Len(p) : f[n] = IF n = 0 THEN <<m>> ELSE Join(f[n - 1], p[n])
    BY <2>3, <2>4, Zenon
  <2>6. Raw(f)
    BY <2>2, <2>5
  <2>7. QED BY <2>6
<1>3. Raw(raw)
  <2> HIDE DEF Raw
  <2>1. QED BY <1>2
<1>4. PromptHash(m, p) = raw[Len(p)]
  BY Zenon DEF PromptHash, Join
<1> HIDE DEF raw
<1>5. /\ raw[0] = <<m>> /\ \A n \in 1..Len(p) : raw[n] = Join(raw[n - 1], p[n])
      /\ raw = [n \in 0..Len(p) |-> raw[n]]
  <2>1. \A n \in 0..Len(p) : raw[n] = IF n = 0 THEN <<m>> ELSE Join(raw[n - 1], p[n])
    BY <1>3, Zenon
  <2>2. 0 \in 0..Len(p) /\ \A n \in 1..Len(p) : n \in 0..Len(p) /\ n # 0
    BY <1>1
  <2>3. raw[0] = <<m>> /\ \A n \in 1..Len(p) : raw[n] = Join(raw[n - 1], p[n])
    BY <2>1, <2>2, Zenon
  <2>4. raw = [n \in 0..Len(p) |-> raw[n]]
    BY <1>3
  <2>5. QED BY <2>3, <2>4
<1> HIDE DEF Raw
<1>6. 0 \in S
  <2>1. <<m>> \in Seq(Symbols)
    BY DEF Symbols
  <2>2. QED BY <1>5, <2>1
<1>7. ASSUME NEW k \in S
      PROVE  k + 1 \in S
  <2>1. SUFFICES ASSUME k + 1 <= Len(p)
                 PROVE  raw[k + 1] \in Seq(Symbols)
    OBVIOUS
  <2>2. k \in Nat /\ k + 1 \in 1..Len(p) /\ (k + 1) - 1 = k
    BY <1>1, <2>1
  <2>3. raw[k] \in Seq(Symbols)
    BY <1>1, <2>1, <2>2
  <2>4. raw[k + 1] = Join(raw[k], p[k + 1])
    BY <1>5, <2>2
  <2>5. p[k + 1] \in Message
    BY <1>1, <2>2
  <2>6. QED BY <2>3, <2>4, <2>5, JoinFacts DEF Joined
<1>8. S = Nat
  <2> HIDE DEF S
  <2>1. S \in SUBSET Nat
    BY DEF S
  <2>2. QED BY <1>6, <1>7, <2>1, SetInduction
<1>9. raw \in [0..Len(p) -> Seq(Symbols)]
  <2>1. \A k \in 0..Len(p) : k \in Nat /\ k <= Len(p)
    BY <1>1
  <2>2. \A k \in 0..Len(p) : raw[k] \in Seq(Symbols)
    BY <1>8, <2>1, Zenon
  <2> HIDE DEF S
  <2>3. QED BY <1>5, <2>2, Zenon
<1>10. QED BY <1>4, <1>5, <1>9 DEF Joins

(* The text of the first n messages begins the text of them all.              *)
Begins(s, t) ==
  /\ Len(s) \in Nat /\ Len(t) \in Nat /\ Len(s) <= Len(t)
  /\ \A i \in 1..Len(s) : t[i] = s[i]

LEMMA BeginsTrans ==
  ASSUME NEW s, NEW t, NEW u, Begins(s, t), Begins(t, u)
  PROVE  Begins(s, u)
<1>1. \A i \in 1..Len(s) : i \in 1..Len(t)
  BY DEF Begins
<1>2. QED BY <1>1 DEF Begins

LEMMA JoinedBegins ==
  ASSUME NEW t, NEW s, NEW x, Joined(t, s, x)
  PROVE  Begins(s, t)
<1> DEFINE a == Len(s)
           k == Len(x.content)
           l == Len(t)
<1>1. a \in Nat /\ k \in Nat /\ l = a + 3 + k
  BY DEF Joined
<1>2. \A i \in 1..a : t[i] = s[i]
  BY DEF Joined
<1>3. l \in Nat /\ a <= l
  <2> HIDE DEF a, k, l
  <2>1. QED BY <1>1
<1>4. QED BY <1>1, <1>2, <1>3 DEF Begins

LEMMA JoinStep ==
  ASSUME NEW m \in Models, NEW p \in Prompts, NEW f, Joins(f, Len(p), m, p),
         NEW n \in 0..(Len(p) - 1)
  PROVE  Joined(f[n + 1], f[n], p[n + 1])
<1>1. n + 1 \in 1..Len(p) /\ n \in 0..Len(p) /\ (n + 1) - 1 = n
  BY PromptTypes
<1>2. p[n + 1] \in Message /\ f[n] \in Seq(Symbols)
  BY <1>1, PromptTypes DEF Joins
<1>3. f[n + 1] = Join(f[n], p[n + 1])
  BY <1>1 DEF Joins
<1>4. QED BY <1>2, <1>3, JoinFacts

LEMMA JoinGrows ==
  ASSUME NEW m \in Models, NEW p \in Prompts, NEW f, Joins(f, Len(p), m, p),
         NEW n \in 0..Len(p)
  PROVE  Begins(f[n], f[Len(p)])
<1> DEFINE S == {k \in Nat : n + k <= Len(p) => Begins(f[n], f[n + k])}
<1>1. Len(p) \in Nat /\ n \in Nat
  BY PromptTypes
<1>2. Len(f[n]) \in Nat
  BY LenProperties DEF Joins
<1>3. 0 \in S
  <2>1. n + 0 = n
    BY <1>1
  <2>2. Begins(f[n], f[n])
    BY <1>2 DEF Begins
  <2>3. QED BY <2>1, <2>2
<1>4. ASSUME NEW k \in S
      PROVE  k + 1 \in S
  <2>1. SUFFICES ASSUME n + (k + 1) <= Len(p)
                 PROVE  Begins(f[n], f[n + (k + 1)])
    OBVIOUS
  <2> DEFINE a == n + k
  <2>2. k \in Nat /\ a \in 0..(Len(p) - 1) /\ n + (k + 1) = a + 1
    BY <1>1, <2>1
  <2>3. Begins(f[n], f[a])
    BY <1>1, <2>1, <2>2
  <2> HIDE DEF a
  <2>4. Joined(f[a + 1], f[a], p[a + 1])
    BY <2>2, JoinStep
  <2>5. Begins(f[a], f[a + 1])
    BY <2>4, JoinedBegins
  <2>6. Begins(f[n], f[a + 1])
    BY <2>3, <2>5, BeginsTrans
  <2>7. QED BY <2>2, <2>6
<1>5. S = Nat
  <2> HIDE DEF S
  <2>1. S \in SUBSET Nat
    BY DEF S
  <2>2. QED BY <1>3, <1>4, <2>1, SetInduction
<1>6. Len(p) - n \in Nat /\ n + (Len(p) - n) = Len(p)
  BY <1>1
<1>7. \A k \in Nat : n + k <= Len(p) => Begins(f[n], f[n + k])
  BY <1>5
<1>8. n + (Len(p) - n) <= Len(p)
  BY <1>1
<1>9. QED BY <1>6, <1>7, <1>8

(* Where the message x lies in the text h, if what is before it has length a; *)
(* and that a separator follows it, or nothing does.                          *)
MessageAt(h, a, x) ==
  /\ a \in Nat /\ Len(h) \in Nat /\ Len(x.content) \in Nat
  /\ a + 3 + Len(x.content) <= Len(h)
  /\ h[a + 2] = x.role
  /\ \A i \in 1..Len(x.content) : h[a + 3 + i] = x.content[i]
  /\ a + 3 + Len(x.content) = Len(h) \/ h[a + 3 + Len(x.content) + 1] = "|"

LEMMA MessageIn ==
  ASSUME NEW t, NEW s, NEW x, NEW h, Joined(t, s, x), Begins(t, h),
         Len(t) = Len(h) \/ h[Len(t) + 1] = "|"
  PROVE  MessageAt(h, Len(s), x)
<1> DEFINE a == Len(s)
           k == Len(x.content)
           l == Len(t)
<1>1. a \in Nat /\ k \in Nat /\ l = a + 3 + k /\ Len(h) \in Nat /\ l <= Len(h)
  BY DEF Joined, Begins
<1>2. a + 2 \in 1..l /\ \A i \in 1..k : a + 3 + i \in 1..l
  <2> HIDE DEF a, k, l
  <2>1. QED BY <1>1
<1>3. h[a + 2] = x.role /\ \A i \in 1..k : h[a + 3 + i] = x.content[i]
  BY <1>2 DEF Joined, Begins
<1>4. a + 3 + k = Len(h) \/ h[a + 3 + k + 1] = "|"
  BY <1>1
<1>5. QED BY <1>1, <1>3, <1>4 DEF MessageAt

LEMMA MessageFound ==
  ASSUME NEW m \in Models, NEW p \in Prompts, NEW f, Joins(f, Len(p), m, p),
         NEW n \in 0..(Len(p) - 1)
  PROVE  MessageAt(f[Len(p)], Len(f[n]), p[n + 1])
<1> DEFINE h == f[Len(p)]
<1>1. n + 1 \in 0..Len(p) /\ n + 1 \in Nat /\ Len(p) \in Nat
  BY PromptTypes
<1>2. Joined(f[n + 1], f[n], p[n + 1]) /\ Begins(f[n + 1], h)
  BY <1>1, JoinStep, JoinGrows
<1>3. Len(f[n + 1]) = Len(h) \/ h[Len(f[n + 1]) + 1] = "|"
  <2>1. CASE n + 1 = Len(p)
    BY <2>1
  <2>2. CASE n + 1 # Len(p)
    <3>1. n + 1 \in 0..(Len(p) - 1) /\ (n + 1) + 1 \in 0..Len(p)
      BY <1>1, <2>2
    <3>2. Joined(f[(n + 1) + 1], f[n + 1], p[(n + 1) + 1])
      BY <3>1, JoinStep
    <3>3. Begins(f[(n + 1) + 1], h)
      BY <3>1, JoinGrows
    <3>4. Len(f[n + 1]) + 1 \in 1..Len(f[(n + 1) + 1])
      <4> DEFINE a == Len(f[n + 1])
                 k == Len(p[(n + 1) + 1].content)
                 l == Len(f[(n + 1) + 1])
      <4>1. a \in Nat /\ k \in Nat /\ l = a + 3 + k
        BY <3>2 DEF Joined
      <4> HIDE DEF a, k, l
      <4>2. a + 1 \in 1..l
        BY <4>1
      <4>3. QED BY <4>2 DEF a, l
    <3>5. h[Len(f[n + 1]) + 1] = f[(n + 1) + 1][Len(f[n + 1]) + 1]
      BY <3>3, <3>4 DEF Begins
    <3>6. f[(n + 1) + 1][Len(f[n + 1]) + 1] = "|"
      BY <3>2 DEF Joined
    <3>7. QED BY <3>5, <3>6
  <2>3. QED BY <2>1, <2>2
<1>4. QED BY <1>2, <1>3, MessageIn

PlainMessage(x) == \A i \in 1..Len(x.content) : x.content[i] # "|"

(* Two plain messages at the same place of a text are the same message.       *)
LEMMA SameMessage ==
  ASSUME NEW h, NEW a, NEW x \in Message, NEW y \in Message,
         PlainMessage(x), PlainMessage(y),
         MessageAt(h, a, x), MessageAt(h, a, y)
  PROVE  x = y
<1>1. ASSUME NEW v \in Message, NEW w \in Message, PlainMessage(w),
             MessageAt(h, a, v), MessageAt(h, a, w)
      PROVE  Len(w.content) <= Len(v.content)
  <2> DEFINE k == Len(v.content)
             l == Len(w.content)
  <2>1. /\ a \in Nat /\ Len(h) \in Nat /\ k \in Nat /\ l \in Nat
        /\ a + 3 + l <= Len(h)
        /\ a + 3 + k = Len(h) \/ h[a + 3 + k + 1] = "|"
        /\ \A i \in 1..l : h[a + 3 + i] = w.content[i]
    BY <1>1 DEF MessageAt
  <2>3. \A i \in 1..l : w.content[i] # "|"
    BY <1>1 DEF PlainMessage
  <2> HIDE DEF k, l
  <2>4. SUFFICES ASSUME k < l
                 PROVE  FALSE
    BY <2>1 DEF k, l
  <2>5. k + 1 \in 1..l /\ a + 3 + k # Len(h) /\ a + 3 + k + 1 = a + 3 + (k + 1)
    BY <2>1, <2>4
  <2>6. QED BY <2>1, <2>3, <2>5
<1>2. Len(x.content) = Len(y.content) /\ Len(x.content) \in Nat
  <2>1. Len(y.content) <= Len(x.content)
    BY <1>1
  <2>2. Len(x.content) <= Len(y.content)
    BY <1>1
  <2>3. QED BY <2>1, <2>2 DEF MessageAt
<1>3. \A i \in 1..Len(x.content) : x.content[i] = y.content[i]
  BY <1>2 DEF MessageAt
<1>4. x.content \in Seq(Words) /\ y.content \in Seq(Words)
  BY DEF Message
<1>5. x.content = y.content
  BY <1>2, <1>3, <1>4, SeqEqual
<1>6. x.role = y.role
  BY DEF MessageAt
<1>7. QED BY <1>5, <1>6 DEF Message

(* A text is read from the left in one way only.                              *)
LEMMA ReadAlike ==
  ASSUME NEW m \in Models, NEW p \in Prompts, NEW q \in Prompts, NEW f, NEW g,
         Joins(f, Len(p), m, p), Joins(g, Len(q), m, q), f[Len(p)] = g[Len(q)],
         Plain(p), Plain(q)
  PROVE  Len(p) <= Len(q) /\ \A n \in 1..Len(p) : p[n] = q[n]
<1> DEFINE Alike(n) == n <= Len(q) /\ f[n] = g[n] /\ \A i \in 1..n : p[i] = q[i]
           S == {n \in Nat : n <= Len(p) => Alike(n)}
<1>1. Len(p) \in Nat /\ Len(q) \in Nat
  BY PromptTypes
<1>2. 0 \in S
  <2>1. f[0] = g[0]
    BY DEF Joins
  <2>2. QED BY <1>1, <2>1
<1>3. ASSUME NEW n \in S
      PROVE  n + 1 \in S
  <2>1. SUFFICES ASSUME n + 1 <= Len(p)
                 PROVE  Alike(n + 1)
    OBVIOUS
  <2>2. n \in Nat /\ n \in 0..(Len(p) - 1) /\ n + 1 \in 1..Len(p) /\ n <= Len(p)
    BY <1>1, <2>1
  <2>3. n <= Len(q) /\ f[n] = g[n] /\ \A i \in 1..n : p[i] = q[i]
    BY <2>2
  <2> DEFINE h == f[Len(p)]
             a == Len(f[n])
  <2>4. MessageAt(h, a, p[n + 1])
    BY <2>2, MessageFound
  <2>5. n # Len(q)
    <3>1. SUFFICES ASSUME n = Len(q)
                   PROVE  FALSE
      OBVIOUS
    <3>2. Len(h) = a
      BY <2>3, <3>1
    <3> DEFINE k == Len(p[n + 1].content)
    <3>3. a \in Nat /\ k \in Nat /\ a + 3 + k <= Len(h)
      BY <2>4 DEF MessageAt
    <3> HIDE DEF a, h, k
    <3>4. QED BY <3>2, <3>3
  <2>6. n \in 0..(Len(q) - 1) /\ n + 1 \in 1..Len(q) /\ n + 1 <= Len(q) /\ (n + 1) - 1 = n
    BY <1>1, <2>2, <2>3, <2>5
  <2>7. MessageAt(g[Len(q)], Len(g[n]), q[n + 1])
    BY <2>6, MessageFound
  <2>8. MessageAt(h, a, q[n + 1])
    BY <2>3, <2>7
  <2>9. p[n + 1] \in Message /\ q[n + 1] \in Message
    BY <2>2, <2>6, PromptTypes
  <2>10. p[n + 1] = q[n + 1]
    <3>1. PlainMessage(p[n + 1]) /\ PlainMessage(q[n + 1])
      BY <2>2, <2>6 DEF Plain, PlainMessage
    <3>2. QED BY <2>4, <2>8, <2>9, <3>1, SameMessage
  <2>11. f[n + 1] = g[n + 1]
    BY <2>2, <2>3, <2>6, <2>10 DEF Joins
  <2>12. \A i \in 1..(n + 1) : i \in 1..n \/ i = n + 1
    BY <2>2
  <2>13. QED BY <2>3, <2>6, <2>10, <2>11, <2>12
<1>4. S = Nat
  <2> HIDE DEF S
  <2>1. S \in SUBSET Nat
    BY DEF S
  <2>2. QED BY <1>2, <1>3, <2>1, SetInduction
<1>5. \A n \in Nat : n <= Len(p) => Alike(n)
  BY <1>4
<1>6. Alike(Len(p))
  BY <1>1, <1>5
<1>7. QED BY <1>6

(* The hash of a prompt with messages has more in it than that of none.       *)
LEMMA HashOfNone ==
  ASSUME NEW m \in Models, NEW p \in Prompts, p # <<>>
  PROVE  PromptHash(m, p) # <<m, "|">>
<1>1. PICK f : Joins(f, Len(p), m, p) /\ PromptHash(m, p) = f[Len(p)]
  BY HashJoins
<1>2. p \in Seq(Message) /\ Len(p) \in Nat
  BY PromptTypes
<1>3. Len(p) # 0
  BY <1>2, EmptySeq
<1>4. 0 \in 0..(Len(p) - 1) /\ 0 + 1 = 1
  BY <1>2, <1>3
<1>5. MessageAt(f[Len(p)], Len(f[0]), p[1])
  BY <1>1, <1>4, MessageFound
<1>6. Len(f[Len(p)]) >= 3
  <2> DEFINE h == Len(f[Len(p)])
             a == Len(f[0])
             k == Len(p[1].content)
  <2>1. a \in Nat /\ h \in Nat /\ k \in Nat /\ a + 3 + k <= h
    BY <1>5 DEF MessageAt
  <2> HIDE DEF a, h, k
  <2>2. h >= 3
    BY <2>1
  <2>3. QED BY <2>2 DEF h
<1>7. Len(<<m, "|">>) = 2
  OBVIOUS
<1>8. ASSUME PromptHash(m, p) = <<m, "|">>
      PROVE  Len(f[Len(p)]) = 2
  BY <1>1, <1>7, <1>8, Zenon
<1>9. Len(f[Len(p)]) = 2 => FALSE
  BY <1>6
<1>10. QED BY <1>8, <1>9, Zenon

(* Two plain prompts of one model with one hash are the same prompt.          *)
LEMMA SamePrompt ==
  ASSUME NEW m \in Models, NEW p \in Prompts, NEW q \in Prompts,
         Plain(p), Plain(q), PromptHash(m, p) = PromptHash(m, q)
  PROVE  p = q
<1>1. CASE p = <<>> \/ q = <<>>
  <2>1. PromptHash(m, <<>>) = <<m, "|">>
    BY Zenon DEF PromptHash
  <2>2. QED BY <1>1, <2>1, HashOfNone
<1>2. CASE p # <<>> /\ q # <<>>
  <2>1. PICK f : Joins(f, Len(p), m, p) /\ PromptHash(m, p) = f[Len(p)]
    BY <1>2, HashJoins
  <2>2. PICK g : Joins(g, Len(q), m, q) /\ PromptHash(m, q) = g[Len(q)]
    BY <1>2, HashJoins
  <2>3. Len(p) <= Len(q) /\ \A n \in 1..Len(p) : p[n] = q[n]
    BY <2>1, <2>2, ReadAlike
  <2>4. Len(q) <= Len(p)
    BY <2>1, <2>2, ReadAlike
  <2>5. /\ p \in Seq(Message) /\ q \in Seq(Message)
        /\ Len(p) \in Nat /\ Len(q) \in Nat
    BY PromptTypes
  <2>6. Len(p) = Len(q)
    BY <2>3, <2>4, <2>5
  <2>7. QED BY <2>3, <2>5, <2>6, SeqEqual
<1>3. QED BY <1>1, <1>2

(* The L1 key tells any two pairs of a model and a prompt apart whose         *)
(* contents have no separator in them, whatever their roles and however many  *)
(* messages they have, none included.                                         *)
THEOREM HashSeparatesPrompts ==
  \A m, n \in Models : \A p, q \in Prompts :
    /\ Plain(p) /\ Plain(q)
    /\ <<m, PromptHash(m, p)>> = <<n, PromptHash(n, q)>>
    => m = n /\ p = q
<1> SUFFICES ASSUME NEW m \in Models, NEW n \in Models,
                    NEW p \in Prompts, NEW q \in Prompts, Plain(p), Plain(q),
                    <<m, PromptHash(m, p)>> = <<n, PromptHash(n, q)>>
             PROVE  m = n /\ p = q
  BY Zenon
<1>1. ASSUME NEW a, NEW b, NEW c, NEW d, <<a, b>> = <<c, d>>
      PROVE  a = c /\ b = d
  BY <1>1
<1>2. m = n /\ PromptHash(m, p) = PromptHash(n, q)
  BY <1>1, Zenon
<1>3. QED BY <1>2, SamePrompt, Zenon

-----------------------------------------------------------------------------
(* The inductive invariant.  What was given to the requests, and never        *)
(* changes: the keys are those of the prompts, equal prompts have equal       *)
(* embeddings.                                                                *)
GivenInv ==
  /\ \A r \in Requests : key[r] = <<model[r], PromptHash(model[r], prompt[r])>>
  /\ \A q, r \in Requests : prompt[q] = prompt[r] => vector[q] = vector[r]

(* Both tiers hold answers that a backend gave, L1 each under its own key.    *)
StoreInv ==
  /\ \A k \in Keys : l1[k] # Nobody => key[l1[k]] = k /\ got[l1[k]] = l1[k]
  /\ \A q \in l2 : got[q] = q

(* What holds of a request r at each of its awaits.                           *)
RequestInv(r) ==
  /\ pc[r] \in {"idle", "l1", "embed", "l2", "call"} => got[r] = Nobody
  /\ pc[r] \in {"putL1", "embedPut", "putL2"} => got[r] = r
  /\ pc[r] # "done" => tier[r] = "none"
  /\ tier[r] = "L1" => got[r] \in Requests /\ key[got[r]] = key[r]
  /\ got[r] # Nobody => model[got[r]] = model[r]
  /\ pc[r] \in {"l2", "call", "putL1", "embedPut", "putL2"} =>
       service[at[r]] # "unresolved"
  /\ before[r] \subseteq l2

CacheInv ==
  /\ TypeOK
  /\ GivenInv
  /\ StoreInv
  /\ \A r \in Requests : RequestInv(r)
  /\ NoRepeatedCall

USE DEF given, Goto

(* A search of a table that ef_search covers sees every row of it, and finds  *)
(* one that is close enough if there is one.                                  *)
LEMMA SearchFinds ==
  ASSUME CacheInv, NEW r \in Requests, Cardinality(l2) <= ef,
         NEW scan \in Scans(r), NEW q \in before[r],
         model[q] = model[r], Distance(q, r) <= Near
  PROVE  Found(r, scan) # {} /\ \A o \in Found(r, scan) : Close(o, r)
<1>1. /\ l2 \in SUBSET Requests /\ ef \in Nat /\ vector \in [Requests -> Int]
      /\ Near \in Nat
  BY CacheAssumption DEF CacheInv, TypeOK
<1>2. IsFiniteSet(l2) /\ Cardinality(l2) \in Nat
  BY <1>1, CacheAssumption, FS_Subset, FS_CardinalityType
<1>3. scan = l2
  <2>1. scan = l2 \/ (scan \in SUBSET l2 /\ Cardinality(scan) = ef)
    BY DEF Scans
  <2>2. CASE scan \in SUBSET l2 /\ Cardinality(scan) = ef
    <3>1. Cardinality(scan) <= Cardinality(l2)
      BY <1>2, <2>2, FS_Subset
    <3>2. Cardinality(scan) = Cardinality(l2)
      BY <1>1, <1>2, <2>2, <3>1
    <3>3. QED BY <1>2, <2>2, <3>2, FS_Subset
  <2>3. QED BY <2>1, <2>2
<1>4. \A o \in Requests : Distance(o, r) \in Nat
  BY <1>1 DEF Distance
<1>5. q \in l2 /\ q \in Requests
  BY <1>1 DEF CacheInv, RequestInv
<1> DEFINE rows == {o \in l2 : model[o] = model[r]}
           T == {Distance(o, r) : o \in rows}
<1>6. T \in SUBSET Nat /\ T # {}
  BY <1>1, <1>4, <1>5
<1>7. PICK d \in T : \A e \in T : d <= e
  BY <1>6, LeastNatural
<1>8. PICK o \in rows : d = Distance(o, r)
  BY <1>7
<1>9. o \in Found(r, scan)
  BY <1>3, <1>7, <1>8 DEF Found
<1>10. ASSUME NEW c \in Found(r, scan)
       PROVE  Close(c, r)
  <2>1. c \in l2 /\ Distance(c, r) <= Distance(q, r)
    BY <1>3, <1>5 DEF Found
  <2>2. c \in Requests
    BY <1>1, <2>1
  <2>3. QED BY <1>1, <1>4, <1>5, <2>1, <2>2 DEF Close
<1>11. QED BY <1>9, <1>10

(* What the invariant asks of a step of r alone.                              *)
StepOf(r) ==
  /\ UNCHANGED given
  /\ \A q \in Requests \ {r} :
       /\ pc'[q] = pc[q] /\ got'[q] = got[q]
       /\ tier'[q] = tier[q] /\ before'[q] = before[q]
  /\ \A p \in Processes : service[p] # "unresolved" => service'[p] = service[p]
  /\ l2 \subseteq l2'

(* No call of r is a repeated one.                                            *)
FreshCall(r) ==
  pc[r] = "call" /\ service[at[r]] = "on" /\ Cardinality(l2) <= ef =>
    ~\E q \in before[r] : model[q] = model[r] /\ Distance(q, r) <= Near

LEMMA OthersInv ==
  ASSUME CacheInv, NEW r \in Requests, StepOf(r), TypeOK', RequestInv(r)', FreshCall(r)'
  PROVE  /\ GivenInv'
         /\ \A q \in Requests : RequestInv(q)'
         /\ NoRepeatedCall'
<1>1. GivenInv'
  BY DEF CacheInv, GivenInv, StepOf
<1>2. ASSUME NEW q \in Requests
      PROVE  RequestInv(q)'
  <2>1. CASE q = r
    BY <2>1
  <2>2. CASE q # r
    <3>1. at[q] \in Processes
      BY DEF CacheInv, TypeOK
    <3>2. QED BY <2>2, <3>1 DEF CacheInv, RequestInv, StepOf
  <2>3. QED BY <2>1, <2>2
<1>3. IsFiniteSet(l2') /\ Cardinality(l2) \in Nat /\ Cardinality(l2') \in Nat
      /\ Cardinality(l2) <= Cardinality(l2')
  <2>1. l2' \in SUBSET Requests /\ l2 \in SUBSET l2'
    BY DEF TypeOK, StepOf
  <2>2. IsFiniteSet(l2')
    BY <2>1, CacheAssumption, FS_Subset
  <2>3. QED BY <2>1, <2>2, FS_Subset, FS_CardinalityType
<1>4. ASSUME NEW q \in Requests
      PROVE  FreshCall(q)'
  <2>1. CASE q = r
    BY <2>1
  <2>2. CASE q # r
    <3>1. SUFFICES ASSUME pc'[q] = "call", service'[at'[q]] = "on",
                          Cardinality(l2') <= ef'
                   PROVE  ~\E o \in before'[q] :
                             model'[o] = model'[q] /\ Distance(o, q)' <= Near
      BY DEF FreshCall
    <3>2. at'[q] = at[q] /\ at[q] \in Processes /\ ef' = ef /\ ef \in Nat
      BY CacheAssumption DEF StepOf, CacheInv, TypeOK
    <3>3. pc[q] = "call" /\ before'[q] = before[q]
      BY <2>2, <3>1 DEF StepOf
    <3>4. service[at[q]] # "unresolved"
      BY <3>3 DEF CacheInv, RequestInv
    <3>5. service[at[q]] = "on"
      BY <3>1, <3>2, <3>4 DEF StepOf
    <3>6. Cardinality(l2) <= ef
      BY <1>3, <3>1, <3>2
    <3>7. ~\E o \in before[q] : model[o] = model[q] /\ Distance(o, q) <= Near
      BY <3>3, <3>5, <3>6 DEF CacheInv, NoRepeatedCall
    <3>8. model' = model /\ \A o : Distance(o, q)' = Distance(o, q)
      BY DEF StepOf, Distance
    <3>9. QED BY <3>3, <3>7, <3>8
  <2>3. QED BY <2>1, <2>2
<1>5. NoRepeatedCall'
  BY <1>4 DEF FreshCall, NoRepeatedCall
<1>6. QED BY <1>1, <1>2, <1>5

(* A request begins.                                                          *)
LEMMA BeginInv ==
  ASSUME CacheInv, NEW r \in Requests, Begin(r)
  PROVE  CacheInv'
<1>1. TypeOK'
  BY DEF Begin, CacheInv, TypeOK, Steps
<1>2. StoreInv'
  BY DEF Begin, CacheInv, TypeOK, StoreInv
<1>3. StepOf(r)
  BY DEF Begin, CacheInv, TypeOK, StepOf
<1>4. RequestInv(r)'
  BY DEF Begin, CacheInv, TypeOK, RequestInv
<1>5. FreshCall(r)'
  BY DEF Begin, CacheInv, TypeOK, FreshCall
<1>6. QED BY <1>1, <1>2, <1>3, <1>4, <1>5, OthersInv DEF CacheInv

(* A request that hits has no answer yet, so it is none that is stored.       *)
LEMMA HitKeepsStore ==
  ASSUME CacheInv, NEW r \in Requests, pc[r] \in {"l1", "l2"}, NEW q,
         got' = [got EXCEPT ![r] = q], UNCHANGED <<l1, l2, key>>
  PROVE  StoreInv'
<1>1. got[r] = Nobody /\ Nobody # r
  BY CacheAssumption DEF CacheInv, RequestInv
<1>2. got \in [Requests -> Requests \cup {Nobody}]
  BY DEF CacheInv, TypeOK
<1>3. QED BY <1>1, <1>2 DEF CacheInv, StoreInv

(* Requests with the same key ask the same model, and the same messages if    *)
(* they have no separator in them.                                            *)
LEMMA SameKey ==
  ASSUME CacheInv, NEW q \in Requests, NEW r \in Requests, key[q] = key[r]
  PROVE  /\ model[q] = model[r]
         /\ Plain(prompt[q]) /\ Plain(prompt[r]) => prompt[q] = prompt[r]
<1>1. ASSUME NEW a, NEW b, NEW c, NEW d, <<a, b>> = <<c, d>>
      PROVE  a = c /\ b = d
  BY <1>1
<1>2. /\ key[q] = <<model[q], PromptHash(model[q], prompt[q])>>
      /\ key[r] = <<model[r], PromptHash(model[r], prompt[r])>>
  BY DEF CacheInv, GivenInv
<1> DEFINE hq == PromptHash(model[q], prompt[q])
           hr == PromptHash(model[r], prompt[r])
<1> HIDE DEF hq, hr
<1>3. <<model[q], hq>> = <<model[r], hr>>
  BY <1>2 DEF hq, hr
<1>4. model[q] = model[r] /\ hq = hr
  BY <1>1, <1>3
<1>5. model[r] \in Models /\ prompt[q] \in Prompts /\ prompt[r] \in Prompts
  BY DEF CacheInv, TypeOK
<1>6. QED BY <1>4, <1>5, SamePrompt DEF hq, hr

(* ExactCache.get: what a hit serves was put under the key of r.              *)
LEMMA GetL1Inv ==
  ASSUME CacheInv, NEW r \in Requests, GetL1(r)
  PROVE  CacheInv'
<1> DEFINE q == l1[key[r]]
<1>1. TypeOK'
  BY DEF GetL1, Hit, Miss, CacheInv, TypeOK, Steps
<1>2. StoreInv'
  <2>1. CASE q # Nobody
    BY <2>1, HitKeepsStore DEF GetL1, Hit
  <2>2. CASE q = Nobody
    BY <2>2 DEF GetL1, Miss, CacheInv, StoreInv
  <2>3. QED BY <2>1, <2>2
<1>3. StepOf(r)
  BY DEF GetL1, Hit, Miss, CacheInv, TypeOK, StepOf
<1>4. RequestInv(r)'
  <2>1. CASE q # Nobody
    <3>1. q \in Requests /\ key[q] = key[r]
      BY <2>1 DEF CacheInv, TypeOK, StoreInv
    <3>2. model[q] = model[r]
      BY <3>1, SameKey
    <3>3. /\ pc'[r] = "done" /\ got'[r] = q /\ tier'[r] = "L1" /\ before'[r] \subseteq l2'
          /\ key' = key /\ model' = model
      BY <2>1 DEF GetL1, Hit, CacheInv, TypeOK, RequestInv
    <3>4. QED BY <3>1, <3>2, <3>3 DEF RequestInv
  <2>2. CASE q = Nobody
    BY <2>2 DEF GetL1, Miss, CacheInv, TypeOK, RequestInv
  <2>3. QED BY <2>1, <2>2
<1>5. FreshCall(r)'
  BY DEF GetL1, Hit, Miss, CacheInv, TypeOK, FreshCall
<1>6. QED BY <1>1, <1>2, <1>3, <1>4, <1>5, OthersInv DEF CacheInv

(* SemanticCache.get: a hit is a row of the model of r; a miss of a table that *)
(* ef_search covers shows that no row was close.                              *)
LEMMA GetL2Inv ==
  ASSUME CacheInv, NEW r \in Requests, GetL2(r)
  PROVE  CacheInv'
<1>1. PICK scan \in Scans(r) :
        \/ \E q \in Found(r, scan) :
             IF Close(q, r) THEN Hit(r, q, "L2") ELSE Miss(r, "call")
        \/ Found(r, scan) = {} /\ Miss(r, "call")
  BY Zenon DEF GetL2
<1>2. /\ pc[r] = "l2" /\ UNCHANGED <<given, service, l1, l2, before>>
  BY DEF GetL2
<1>3. /\ pc \in [Requests -> Steps] /\ got \in [Requests -> Requests \cup {Nobody}]
      /\ tier \in [Requests -> {"none", "L1", "L2"}] /\ l2 \subseteq Requests
  BY DEF CacheInv, TypeOK
<1>4. RequestInv(r)
  BY DEF CacheInv
<1>5. ASSUME NEW q \in Found(r, scan), Hit(r, q, "L2")
      PROVE  CacheInv'
  <2>1. q \in l2 /\ q \in Requests /\ model[q] = model[r]
    BY <1>3 DEF Found, Scans
  <2>2. TypeOK'
    BY <1>2, <1>5, <2>1 DEF Hit, CacheInv, TypeOK, Steps
  <2>3. StoreInv'
    BY <1>2, <1>5, HitKeepsStore DEF Hit
  <2>4. StepOf(r)
    BY <1>2, <1>3, <1>5 DEF Hit, StepOf
  <2>5. RequestInv(r)'
    BY <1>2, <1>3, <1>4, <1>5, <2>1 DEF Hit, RequestInv
  <2>6. FreshCall(r)'
    BY <1>3, <1>5 DEF Hit, FreshCall
  <2>7. QED BY <2>2, <2>3, <2>4, <2>5, <2>6, OthersInv DEF CacheInv
<1>6. ASSUME Miss(r, "call"),
             Found(r, scan) = {} \/ \E q \in Found(r, scan) : ~Close(q, r)
      PROVE  CacheInv'
  <2>1. TypeOK'
    BY <1>2, <1>6 DEF Miss, CacheInv, TypeOK, Steps
  <2>2. StoreInv'
    BY <1>2, <1>6 DEF Miss, CacheInv, StoreInv
  <2>3. StepOf(r)
    BY <1>2, <1>3, <1>6 DEF Miss, StepOf
  <2>4. RequestInv(r)'
    BY <1>2, <1>3, <1>4, <1>6 DEF Miss, RequestInv
  <2>5. Cardinality(l2) <= ef =>
          ~\E q \in before[r] : model[q] = model[r] /\ Distance(q, r) <= Near
    BY <1>6, SearchFinds
  <2>6. \A q : Distance(q, r)' = Distance(q, r)
    BY <1>2 DEF Distance
  <2>7. FreshCall(r)'
    BY <1>2, <2>5, <2>6 DEF FreshCall
  <2>8. QED BY <2>1, <2>2, <2>3, <2>4, <2>7, OthersInv DEF CacheInv
<1>7. QED BY <1>1, <1>5, <1>6

(* The embedding of the prompt, for the lookup and for the insert.            *)
LEMMA EmbedGetInv ==
  ASSUME CacheInv, NEW r \in Requests, NEW result \in {"on", "off"}, EmbedGet(r, result)
  PROVE  CacheInv'
<1>1. TypeOK'
  BY DEF EmbedGet, Embed, CacheInv, TypeOK, Steps
<1>2. StoreInv'
  BY DEF EmbedGet, Embed, CacheInv, TypeOK, StoreInv
<1>3. StepOf(r)
  BY DEF EmbedGet, Embed, CacheInv, TypeOK, StepOf
<1>4. RequestInv(r)'
  BY DEF EmbedGet, Embed, CacheInv, TypeOK, RequestInv
<1>5. FreshCall(r)'
  BY DEF EmbedGet, Embed, CacheInv, TypeOK, FreshCall
<1>6. QED BY <1>1, <1>2, <1>3, <1>4, <1>5, OthersInv DEF CacheInv

LEMMA EmbedPutInv ==
  ASSUME CacheInv, NEW r \in Requests, NEW result \in {"on", "off"}, EmbedPut(r, result)
  PROVE  CacheInv'
<1>1. TypeOK'
  BY DEF EmbedPut, Embed, CacheInv, TypeOK, Steps
<1>2. StoreInv'
  BY DEF EmbedPut, Embed, CacheInv, TypeOK, StoreInv
<1>3. StepOf(r)
  BY DEF EmbedPut, Embed, CacheInv, TypeOK, StepOf
<1>4. RequestInv(r)'
  BY DEF EmbedPut, Embed, CacheInv, TypeOK, RequestInv
<1>5. FreshCall(r)'
  BY DEF EmbedPut, Embed, CacheInv, TypeOK, FreshCall
<1>6. QED BY <1>1, <1>2, <1>3, <1>4, <1>5, OthersInv DEF CacheInv

(* A backend answers.                                                         *)
LEMMA CallInv ==
  ASSUME CacheInv, NEW r \in Requests, Call(r)
  PROVE  CacheInv'
<1>1. TypeOK'
  BY DEF Call, CacheInv, TypeOK, Steps
<1>2. StoreInv'
  BY DEF Call, CacheInv, TypeOK, StoreInv
<1>3. StepOf(r)
  BY DEF Call, CacheInv, TypeOK, StepOf
<1>4. RequestInv(r)'
  BY DEF Call, CacheInv, TypeOK, RequestInv
<1>5. FreshCall(r)'
  BY DEF Call, CacheInv, TypeOK, FreshCall
<1>6. QED BY <1>1, <1>2, <1>3, <1>4, <1>5, OthersInv DEF CacheInv

(* The answer of r goes under the key of r, and into the table.               *)
LEMMA PutL1Inv ==
  ASSUME CacheInv, NEW r \in Requests, PutL1(r)
  PROVE  CacheInv'
<1>1. TypeOK'
  BY DEF PutL1, CacheInv, TypeOK, Steps
<1>2. StoreInv'
  <2>1. got[r] = r /\ key[r] \in Keys /\ l1 \in [Keys -> Requests \cup {Nobody}]
    BY DEF PutL1, CacheInv, TypeOK, RequestInv
  <2>2. QED BY <2>1 DEF PutL1, CacheInv, StoreInv
<1>3. StepOf(r)
  BY DEF PutL1, CacheInv, TypeOK, StepOf
<1>4. RequestInv(r)'
  BY DEF PutL1, CacheInv, TypeOK, RequestInv
<1>5. FreshCall(r)'
  BY DEF PutL1, CacheInv, TypeOK, FreshCall
<1>6. QED BY <1>1, <1>2, <1>3, <1>4, <1>5, OthersInv DEF CacheInv

LEMMA PutL2Inv ==
  ASSUME CacheInv, NEW r \in Requests, PutL2(r)
  PROVE  CacheInv'
<1>1. TypeOK'
  BY DEF PutL2, CacheInv, TypeOK, Steps
<1>2. StoreInv'
  <2>1. got[r] = r
    BY DEF PutL2, CacheInv, RequestInv
  <2>2. QED BY <2>1 DEF PutL2, CacheInv, StoreInv
<1>3. StepOf(r)
  BY DEF PutL2, CacheInv, TypeOK, StepOf
<1>4. RequestInv(r)'
  BY DEF PutL2, CacheInv, TypeOK, RequestInv
<1>5. FreshCall(r)'
  BY DEF PutL2, CacheInv, TypeOK, FreshCall
<1>6. QED BY <1>1, <1>2, <1>3, <1>4, <1>5, OthersInv DEF CacheInv

(* A request ends where it is.                                                *)
LEMMA FailInv ==
  ASSUME CacheInv, NEW r \in Requests, Fail(r)
  PROVE  CacheInv'
<1>1. TypeOK'
  BY DEF Fail, Failed, CacheInv, TypeOK, Steps
<1>2. StoreInv'
  BY DEF Fail, Failed, CacheInv, TypeOK, StoreInv
<1>3. StepOf(r)
  BY DEF Fail, Failed, CacheInv, TypeOK, StepOf
<1>4. RequestInv(r)'
  BY DEF Fail, Failed, CacheInv, TypeOK, RequestInv
<1>5. FreshCall(r)'
  BY DEF Fail, Failed, CacheInv, TypeOK, FreshCall
<1>6. QED BY <1>1, <1>2, <1>3, <1>4, <1>5, OthersInv DEF CacheInv

(* A restart ends the requests of its process, and touches no other.          *)
LEMMA RestartInv ==
  ASSUME CacheInv, NEW p \in Processes, Restart(p)
  PROVE  CacheInv'
<1>1. TypeOK'
  BY DEF Restart, CacheInv, TypeOK, Steps
<1>2. GivenInv' /\ StoreInv'
  BY DEF Restart, CacheInv, GivenInv, StoreInv
<1>3. ASSUME NEW r \in Requests
      PROVE  RequestInv(r)'
  BY DEF Restart, CacheInv, TypeOK, RequestInv
<1>4. ASSUME NEW r \in Requests, pc'[r] = "call"
      PROVE  pc[r] = "call" /\ service'[at'[r]] = service[at[r]]
  BY <1>4 DEF Restart, CacheInv, TypeOK
<1>5. \A q, r : Distance(q, r)' = Distance(q, r)
  BY DEF Restart, Distance
<1>6. ef' = ef /\ l2' = l2 /\ model' = model /\ before' = before
  BY DEF Restart
<1>7. NoRepeatedCall'
  BY <1>4, <1>5, <1>6 DEF CacheInv, NoRepeatedCall
<1>8. QED BY <1>1, <1>2, <1>3, <1>7 DEF CacheInv

(* A step that only empties keys, or none at all.                             *)
LEMMA ForgetInv ==
  ASSUME CacheInv, (\E k \in Keys : Expire(k)) \/ UNCHANGED vars
  PROVE  CacheInv'
<1>1. /\ UNCHANGED <<given, service, l2, pc, before, got, tier>>
      /\ l1' \in [Keys -> Requests \cup {Nobody}]
      /\ \A k \in Keys : l1'[k] # Nobody => l1'[k] = l1[k]
  BY DEF Expire, vars, CacheInv, TypeOK
<1>2. TypeOK'
  BY <1>1 DEF CacheInv, TypeOK
<1>3. GivenInv'
  BY <1>1 DEF CacheInv, GivenInv
<1>4. StoreInv'
  BY <1>1 DEF CacheInv, StoreInv
<1>5. \A r \in Requests : RequestInv(r)'
  BY <1>1 DEF CacheInv, RequestInv
<1>6. NoRepeatedCall'
  BY <1>1 DEF CacheInv, NoRepeatedCall, Distance
<1>7. QED BY <1>2, <1>3, <1>4, <1>5, <1>6 DEF CacheInv

LEMMA InitInv == Init => CacheInv
<1> SUFFICES ASSUME Init
             PROVE  CacheInv
  OBVIOUS
<1>1. PICK embedding \in [Texts -> Points] :
        vector = [r \in Requests |-> embedding[PromptText(prompt[r])]]
  BY DEF Init
<1>2. /\ model \in [Requests -> Models] /\ prompt \in [Requests -> Prompts]
      /\ key = [r \in Requests |-> <<model[r], PromptHash(model[r], prompt[r])>>]
  BY DEF Init
<1>3. vector \in [Requests -> Points]
  BY <1>1, <1>2 DEF Texts
<1>4. key \in [Requests -> Keys]
  BY <1>2 DEF Keys
<1>5. TypeOK
  BY <1>3, <1>4 DEF Init, TypeOK, Steps
<1>6. GivenInv
  BY <1>1, <1>2 DEF GivenInv
<1>7. StoreInv /\ NoRepeatedCall
  BY DEF Init, StoreInv, NoRepeatedCall
<1>8. \A r \in Requests : RequestInv(r)
  BY DEF Init, RequestInv
<1>9. QED BY <1>5, <1>6, <1>7, <1>8 DEF CacheInv

LEMMA NextInv == CacheInv /\ [Next]_vars => CacheInv'
  BY BeginInv, GetL1Inv, GetL2Inv, CallInv, PutL1Inv, PutL2Inv, FailInv, EmbedGetInv,
     EmbedPutInv, RestartInv, ForgetInv
  DEF Next

-----------------------------------------------------------------------------
(* The whole inductive invariant holds in every reachable state.              *)
THEOREM CacheSafe == Spec => []CacheInv
  BY InitInv, NextInv, PTL DEF Spec

(* The tiers, the services and the requests keep their types: in particular   *)
(* the tier of an answer is always told.                                      *)
THEOREM CacheTypeCorrect == Spec => []TypeOK
<1>1. CacheInv => TypeOK BY DEF CacheInv
<1>2. QED BY <1>1, CacheSafe, PTL

(* Neither tier ever serves an answer of another model.                       *)
THEOREM ModelsNeverCross == Spec => []NeverCrossServes
<1>1. CacheInv => NeverCrossServes
  BY DEF CacheInv, RequestInv, NeverCrossServes
<1>2. QED BY <1>1, CacheSafe, PTL

(* An L1 hit answers exactly the messages that were asked, if no content has  *)
(* a separator: the keys agree, and prompt_hash separates such prompts.       *)
THEOREM L1HitsAreExact == Spec => []L1ExactWithoutSeparators
<1>1. ASSUME CacheInv
      PROVE  L1ExactWithoutSeparators
  <2> SUFFICES ASSUME NEW r \in Requests, tier[r] = "L1",
                      Plain(prompt[r]), Plain(prompt[got[r]])
               PROVE  prompt[got[r]] = prompt[r]
    BY DEF L1ExactWithoutSeparators
  <2>1. got[r] \in Requests /\ key[got[r]] = key[r]
    BY <1>1 DEF CacheInv, RequestInv
  <2>2. QED BY <1>1, <2>1, SameKey
<1>2. QED BY <1>1, CacheSafe, PTL

(* While ef_search covers the table, no request calls a backend for what was  *)
(* cached when it began.                                                      *)
THEOREM CachedIsNotCalled == Spec => []NoRepeatedCall
<1>1. CacheInv => NoRepeatedCall BY DEF CacheInv
<1>2. QED BY <1>1, CacheSafe, PTL

-----------------------------------------------------------------------------
(* The refinement of SemanticStore.  Its state, as the tiers have it.         *)
Compatible == {pair \in Requests \X Requests :
                 /\ model[pair[2]] = model[pair[1]]
                 /\ \/ Distance(pair[2], pair[1]) <= Near
                    \/ MayCollide(pair[2], pair[1])}

Asked == {r \in Requests : pc[r] # "idle"}

Stored == l2 \cup {l1[k] : k \in {c \in DOMAIN l1 : l1[c] # Nobody}}

(* The actions of Cache, spelled over that state.                             *)
LEMMA StoreActions ==
  ASSUME NEW r \in Requests, NEW q \in Requests
  PROVE  /\ Cache!Ask(r) <=>
              /\ r \notin Asked
              /\ Asked' = Asked \cup {r}
              /\ UNCHANGED <<Compatible, got, Stored>>
         /\ Cache!Answer(r, q) <=>
              /\ r \in Asked /\ got[r] = Nobody
              /\ q = r \/ (q \in Stored /\ <<r, q>> \in Compatible)
              /\ got' = [got EXCEPT ![r] = q]
              /\ UNCHANGED <<Compatible, Asked, Stored>>
         /\ Cache!Store(r) <=>
              /\ got[r] = r
              /\ Stored' \subseteq Stored \cup {r}
              /\ UNCHANGED <<Compatible, Asked, got>>
         /\ Cache!Forget <=>
              /\ Stored' \subseteq Stored
              /\ UNCHANGED <<Compatible, Asked, got>>
  BY Zenon
  DEF Cache!Ask, Cache!Answer, Cache!Store, Cache!Forget, Compatible, Asked, Stored

(* What one request may have from another depends on what was given alone.    *)
LEMMA CompatibleKept ==
  ASSUME UNCHANGED given
  PROVE  Compatible' = Compatible
  BY DEF Compatible, Distance, MayCollide

LEMMA StoredIn ==
  ASSUME NEW q
  PROVE  q \in Stored <=>
           q \in l2 \/ \E k \in DOMAIN l1 : l1[k] # Nobody /\ q = l1[k]
  BY DEF Stored

(* A step of r that only moves it on.                                         *)
LEMMA QuietStep ==
  ASSUME CacheInv, NEW r \in Requests, NEW step \in Steps \ {"idle"}, pc[r] # "idle",
         Goto(r, step), UNCHANGED <<given, l1, l2, got>>
  PROVE  UNCHANGED Cache!vars
<1>1. pc \in [Requests -> Steps]
  BY DEF CacheInv, TypeOK
<1>2. Asked' = Asked
  BY <1>1 DEF Asked
<1>3. Compatible' = Compatible
  BY CompatibleKept
<1>4. Stored' = Stored
  BY DEF Stored
<1>5. QED BY <1>2, <1>3, <1>4, Zenon DEF Cache!vars, Asked, Compatible, Stored

(* A hit of either tier is an answer of the store.                            *)
LEMMA HitStep ==
  ASSUME CacheInv, NEW r \in Requests, NEW q \in Requests, NEW t,
         pc[r] \in {"l1", "l2"}, Hit(r, q, t), UNCHANGED <<given, l1, l2>>,
         q \in Stored, <<r, q>> \in Compatible
  PROVE  Cache!Answer(r, q)
<1>1. pc \in [Requests -> Steps]
  BY DEF CacheInv, TypeOK
<1>2. r \in Asked /\ got[r] = Nobody
  BY DEF Asked, CacheInv, RequestInv
<1>3. Asked' = Asked
  BY <1>1 DEF Asked, Hit
<1>4. Compatible' = Compatible
  BY CompatibleKept
<1>5. Stored' = Stored
  BY DEF Stored
<1>6. got' = [got EXCEPT ![r] = q]
  BY DEF Hit
<1>7. QED BY <1>2, <1>3, <1>4, <1>5, <1>6, StoreActions

(* Every step of the tiers is a step of the store, or one it does not see.    *)
LEMMA StoreStep == CacheInv /\ [Next]_vars => [Cache!Next]_(Cache!vars)
<1> SUFFICES ASSUME CacheInv, [Next]_vars
             PROVE  Cache!Next \/ UNCHANGED Cache!vars
  OBVIOUS
<1>1. /\ pc \in [Requests -> Steps] /\ vector \in [Requests -> Int]
      /\ l1 \in [Keys -> Requests \cup {Nobody}] /\ key \in [Requests -> Keys]
      /\ l2 \subseteq Requests
  BY CacheAssumption DEF CacheInv, TypeOK
<1>2. ASSUME NEW r \in Requests, Begin(r)
      PROVE  Cache!Next
  <2>1. r \notin Asked /\ Asked' = Asked \cup {r}
    BY <1>1, <1>2 DEF Begin, Asked
  <2>2. Compatible' = Compatible
    BY <1>2, CompatibleKept DEF Begin
  <2>3. Stored' = Stored /\ got' = got
    BY <1>2 DEF Begin, Stored
  <2>4. Cache!Ask(r)
    BY <2>1, <2>2, <2>3, StoreActions
  <2>5. QED BY <2>4 DEF Cache!Next
<1>3. ASSUME NEW r \in Requests, GetL1(r)
      PROVE  Cache!Next \/ UNCHANGED Cache!vars
  <2> DEFINE q == l1[key[r]]
  <2>1. CASE q # Nobody
    <3>1. key[r] \in Keys /\ q \in Requests /\ key[q] = key[r]
      BY <1>1, <2>1 DEF CacheInv, StoreInv
    <3>2. model[q] = model[r]
      BY <3>1, SameKey
    <3>3. Distance(q, r) <= Near \/ MayCollide(q, r)
      <4>1. CASE Plain(prompt[q]) /\ Plain(prompt[r])
        <5>1. vector[q] = vector[r]
          BY <3>1, <4>1, SameKey DEF CacheInv, GivenInv
        <5>2. QED BY <1>1, <3>1, <5>1, CacheAssumption DEF Distance
      <4>2. CASE ~(Plain(prompt[q]) /\ Plain(prompt[r]))
        BY <3>1, <4>2 DEF MayCollide
      <4>3. QED BY <4>1, <4>2
    <3>4. <<r, q>> \in Compatible
      BY <1>1, <3>1, <3>2, <3>3 DEF Compatible
    <3>5. q \in Stored
      BY <1>1, <2>1, <3>1, StoredIn
    <3>6. Cache!Answer(r, q)
      BY <1>3, <2>1, <3>1, <3>4, <3>5, HitStep DEF GetL1
    <3>7. QED BY <3>1, <3>6 DEF Cache!Next
  <2>2. CASE q = Nobody
    BY <1>3, <2>2, QuietStep DEF GetL1, Miss, Steps
  <2>3. QED BY <2>1, <2>2
<1>4. ASSUME NEW r \in Requests, GetL2(r)
      PROVE  Cache!Next \/ UNCHANGED Cache!vars
  <2>1. pc[r] = "l2" /\ UNCHANGED <<given, l1, l2>>
    BY <1>4 DEF GetL2
  <2>2. PICK scan \in Scans(r) :
          \/ \E q \in Found(r, scan) :
               IF Close(q, r) THEN Hit(r, q, "L2") ELSE Miss(r, "call")
          \/ Found(r, scan) = {} /\ Miss(r, "call")
    BY <1>4, Zenon DEF GetL2
  <2>3. CASE Miss(r, "call")
    BY <2>1, <2>3, QuietStep DEF Miss, Steps
  <2>4. ASSUME NEW q \in Found(r, scan), Close(q, r), Hit(r, q, "L2")
        PROVE  Cache!Next
    <3>1. q \in l2 /\ q \in Requests /\ model[q] = model[r]
      BY <1>1 DEF Found, Scans
    <3>2. <<r, q>> \in Compatible
      BY <2>4, <3>1 DEF Compatible, Close
    <3>3. q \in Stored
      BY <3>1, StoredIn
    <3>4. Cache!Answer(r, q)
      BY <2>1, <2>4, <3>1, <3>2, <3>3, HitStep
    <3>5. QED BY <3>1, <3>4 DEF Cache!Next
  <2>5. QED BY <2>2, <2>3, <2>4
<1>5. ASSUME NEW r \in Requests, Call(r)
      PROVE  Cache!Next
  <2>1. r \in Asked /\ got[r] = Nobody /\ got' = [got EXCEPT ![r] = r]
    BY <1>5 DEF Call, Asked, CacheInv, RequestInv
  <2>2. Asked' = Asked
    BY <1>1, <1>5 DEF Call, Asked
  <2>3. Compatible' = Compatible
    BY <1>5, CompatibleKept DEF Call
  <2>4. Stored' = Stored
    BY <1>5 DEF Call, Stored
  <2>5. Cache!Answer(r, r)
    BY <2>1, <2>2, <2>3, <2>4, StoreActions
  <2>6. QED BY <2>5 DEF Cache!Next
<1>6. ASSUME NEW r \in Requests, PutL1(r) \/ PutL2(r)
      PROVE  Cache!Next
  <2>1. got[r] = r /\ got' = got
    BY <1>6 DEF PutL1, PutL2, CacheInv, RequestInv
  <2>2. Asked' = Asked
    BY <1>1, <1>6 DEF PutL1, PutL2, Asked
  <2>3. Compatible' = Compatible
    BY <1>6, CompatibleKept DEF PutL1, PutL2
  <2>4. Stored' \subseteq Stored \cup {r}
    BY <1>1, <1>6 DEF PutL1, PutL2, Stored
  <2>5. Cache!Store(r)
    BY <2>1, <2>2, <2>3, <2>4, StoreActions
  <2>6. QED BY <2>5 DEF Cache!Next
<1>7. ASSUME NEW r \in Requests,
             \/ Fail(r)
             \/ \E result \in {"on", "off"} : EmbedGet(r, result) \/ EmbedPut(r, result)
      PROVE  UNCHANGED Cache!vars
  <2>1. PICK step \in Steps \ {"idle"} : Goto(r, step)
    BY <1>7 DEF Fail, Failed, EmbedGet, EmbedPut, Embed, Steps
  <2>2. pc[r] # "idle" /\ UNCHANGED <<given, l1, l2, got>>
    BY <1>7 DEF Fail, EmbedGet, EmbedPut, Embed
  <2>3. QED BY <2>1, <2>2, QuietStep
<1>8. ASSUME NEW k \in Keys, Expire(k)
      PROVE  Cache!Next
  <2>1. Asked' = Asked /\ got' = got
    BY <1>8 DEF Expire, Asked
  <2>2. Compatible' = Compatible
    BY <1>8, CompatibleKept DEF Expire
  <2>3. Stored' \subseteq Stored
    BY <1>1, <1>8 DEF Expire, Stored
  <2>4. Cache!Forget
    BY <2>1, <2>2, <2>3, Zenon DEF Cache!Forget, Compatible, Asked, Stored
  <2>5. QED BY <2>4 DEF Cache!Next
<1>9. ASSUME NEW p \in Processes, Restart(p)
      PROVE  UNCHANGED Cache!vars
  <2>1. Asked' = Asked /\ got' = got
    BY <1>1, <1>9 DEF Restart, Asked
  <2>2. Compatible' = Compatible
    BY <1>9, CompatibleKept DEF Restart
  <2>3. Stored' = Stored
    BY <1>9 DEF Restart, Stored
  <2>4. QED BY <2>1, <2>2, <2>3, Zenon DEF Cache!vars, Compatible, Asked, Stored
<1>10. CASE UNCHANGED vars
  <2>1. Asked' = Asked /\ got' = got /\ Stored' = Stored
    BY <1>10 DEF vars, Asked, Stored
  <2>2. Compatible' = Compatible
    BY <1>10, CompatibleKept DEF vars
  <2>3. QED BY <2>1, <2>2, Zenon DEF Cache!vars, Compatible, Asked, Stored
<1>11. QED
  BY <1>2, <1>3, <1>4, <1>5, <1>6, <1>7, <1>8, <1>9, <1>10 DEF Next

(* The two tiers are one store: every answer is fresh from a backend, or one  *)
(* that a backend gave to an earlier request for the same model and for a     *)
(* close enough prompt, or for one that may collide with it because of a      *)
(* separator in a content.                                                    *)
THEOREM TiersImplementStore == Spec => ImplementsStore
<1>1. Init => Cache!Init
  <2> SUFFICES ASSUME Init
               PROVE  Cache!Init
    OBVIOUS
  <2>1. Compatible \subseteq Requests \X Requests
    BY DEF Compatible
  <2>2. Asked = {} /\ Stored = {}
    BY DEF Init, Asked, Stored
  <2>3. got = [r \in Requests |-> Nobody]
    BY DEF Init
  <2>4. QED
    BY <2>1, <2>2, <2>3, Zenon DEF Cache!Init, Compatible, Asked, Stored
<1>2. QED
  BY <1>1, StoreStep, CacheSafe, PTL DEF Spec, ImplementsStore, Cache!Spec

=============================================================================
