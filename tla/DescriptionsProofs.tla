------------------------- MODULE DescriptionsProofs -------------------------
(* The invariants of Descriptions, proved. *)
EXTENDS DescriptionsInvariant, RecursionProofs, SequenceTheorems, TLAPS

-----------------------------------------------------------------------------
(* Those, the elements of a sequence that are in a set. *)

LEMMA ThoseFunction ==
  ASSUME NEW D, NEW s \in Seq(D), NEW S
  PROVE  \E f \in [0 .. Len(s) -> Seq(D)] :
            /\ f[0] = <<>> /\ Those(s, S) = f[Len(s)]
            /\ \A i \in 1 .. Len(s) :
                  f[i] = IF s[i] \in S THEN Append(f[i - 1], s[i]) ELSE f[i - 1]
  <1> DEFINE F == [i \in 1 .. Len(s) |-> [x \in Seq(D) |-> IF s[i] \in S THEN Append(x, s[i]) ELSE x]]
  <1>1. Len(s) \in Nat /\ \A i \in 1 .. Len(s) : s[i] \in D
    BY LenProperties
  <1>2. F \in [1 .. Len(s) -> [Seq(D) -> Seq(D)]]
    BY <1>1, AppendProperties
  <1>3. <<>> \in Seq(D)
    OBVIOUS
  <1>4. PICK f \in [0 .. Len(s) -> Seq(D)] : Recursive(f, Len(s), <<>>, F)
    <2> HIDE DEF F
    <2> QED
      BY <1>1, <1>2, <1>3, RecursionExists
  <1>5. ASSUME NEW i \in 0 .. Len(s)
        PROVE  f[i] = IF i = 0 THEN <<>>
                      ELSE IF s[i] \in S THEN Append(f[i - 1], s[i]) ELSE f[i - 1]
    <2>1. CASE i = 0
      BY <1>4, <2>1 DEF Recursive
    <2>2. CASE i # 0
      <3>1. i \in 1 .. Len(s) /\ i - 1 \in 0 .. Len(s)
        BY <1>1, <2>2
      <3>2. f[i] = F[i][f[i - 1]] /\ f[i - 1] \in Seq(D)
        BY <1>4, <3>1 DEF Recursive
      <3> QED
        BY <2>2, <3>1, <3>2
    <2> QED
      BY <2>1, <2>2
  <1> DEFINE E(g) == [i \in 0 .. Len(s) |-> IF i = 0 THEN <<>>
                              ELSE IF s[i] \in S THEN Append(g[i - 1], s[i]) ELSE g[i - 1]]
  <1>6. f = E(f)
    <2>1. f = [i \in 0 .. Len(s) |-> f[i]]
      BY <1>4
    <2> QED
      BY <1>5, <2>1
  <1>7. PICK g : g = CHOOSE h : h = E(h)
    OBVIOUS
  <1>8. g = E(g)
    <2> HIDE DEF E
    <2> QED
      BY <1>6, <1>7
  <1>9. Those(s, S) = g[Len(s)]
    BY <1>7 DEF Those
  <1>10. g[0] = <<>>
    BY <1>1, <1>8
  <1>11. ASSUME NEW i \in 1 .. Len(s), g[i - 1] \in Seq(D) PROVE g[i] = F[i][g[i - 1]]
    <2>1. i \in 0 .. Len(s) /\ i # 0
      BY <1>1
    <2>2. g[i] = IF s[i] \in S THEN Append(g[i - 1], s[i]) ELSE g[i - 1]
      BY <1>8, <2>1
    <2> QED
      BY <1>11, <2>2
  <1>12. \A i \in 0 .. Len(s) : f[i] = g[i]
    <2>1. RecursiveIn(Seq(D), g, Len(s), <<>>, F)
      BY <1>10, <1>11 DEF RecursiveIn
    <2> HIDE DEF F
    <2>3. PICK n \in Nat : n = Len(s)
      BY <1>1
    <2>4. PICK T : T = Seq(D)
      OBVIOUS
    <2>5. PICK e \in T : e = <<>>
      BY <1>3, <2>4
    <2>6. F \in [1 .. n -> [T -> T]] /\ Recursive(f, n, e, F) /\ RecursiveIn(T, g, n, e, F)
      BY <1>2, <1>4, <2>1, <2>3, <2>4, <2>5
    <2>7. \A i \in 0 .. n : f[i] = g[i] /\ f[i] \in T
      BY <2>6, RecursionUnique
    <2>2. \A i \in 0 .. Len(s) : f[i] = g[i]
      BY <2>7, <2>3
    <2> QED
      BY <2>2
  <1>13. \A i \in 1 .. Len(s) : f[i] = IF s[i] \in S THEN Append(f[i - 1], s[i]) ELSE f[i - 1]
    <2>1. \A i \in 1 .. Len(s) : i \in 0 .. Len(s) /\ i # 0
      BY <1>1
    <2> QED
      BY <1>5, <2>1
  <1>14. f[0] = <<>> /\ f[Len(s)] = g[Len(s)]
    BY <1>1, <1>4, <1>12 DEF Recursive
  <1> QED
    BY <1>4, <1>9, <1>13, <1>14

\* They are elements of the sequence.
LEMMA ThoseType ==
  ASSUME NEW D, NEW s \in Seq(D), NEW S
  PROVE  Those(s, S) \in Seq(D)
  <1>1. Len(s) \in 0 .. Len(s)
    BY LenProperties
  <1> QED
    BY <1>1, ThoseFunction

\* All elements that are in the set are kept.
LEMMA ThoseAll ==
  ASSUME NEW D, NEW s \in Seq(D), NEW S, NEW j \in 1 .. Len(s), s[j] \in S
  PROVE  \E k \in 1 .. Len(Those(s, S)) : Those(s, S)[k] = s[j]
  <1>1. Len(s) \in Nat /\ \A i \in 1 .. Len(s) : s[i] \in D
    BY LenProperties
  <1>2. PICK f \in [0 .. Len(s) -> Seq(D)] :
            /\ f[0] = <<>> /\ Those(s, S) = f[Len(s)]
            /\ \A i \in 1 .. Len(s) :
                  f[i] = IF s[i] \in S THEN Append(f[i - 1], s[i]) ELSE f[i - 1]
    BY ThoseFunction
  <1> DEFINE Has(i) == \E k \in 1 .. Len(f[i]) : f[i][k] = s[j]
             Kept == {i \in Nat : j <= i /\ i <= Len(s) => Has(i)}
  <1>3. 0 \in Kept
    OBVIOUS
  <1>4. ASSUME NEW i \in Nat, i \in Kept PROVE i + 1 \in Kept
    <2>1. SUFFICES ASSUME j <= i + 1, i + 1 <= Len(s) PROVE Has(i + 1)
      OBVIOUS
    <2>2. i + 1 \in 1 .. Len(s) /\ (i + 1) - 1 = i /\ i \in 0 .. Len(s)
      BY <2>1
    <2>3. f[i + 1] = IF s[i + 1] \in S THEN Append(f[i], s[i + 1]) ELSE f[i]
      BY <1>2, <2>2
    <2>4. PICK x \in D : x = s[i + 1]
      BY <1>1, <2>2
    <2>5. PICK q \in Seq(D) : q = f[i]
      BY <2>2
    <2>6. Len(q) \in Nat /\ Len(Append(q, x)) = Len(q) + 1 /\ Append(q, x)[Len(q) + 1] = x
            /\ \A k \in 1 .. Len(q) : Append(q, x)[k] = q[k]
      BY LenProperties, AppendProperties
    <2>7. CASE j = i + 1
      <3>1. f[i + 1] = Append(q, x) /\ x = s[j]
        BY <2>3, <2>4, <2>5, <2>7
      <3>2. Len(q) + 1 \in 1 .. Len(f[i + 1]) /\ f[i + 1][Len(q) + 1] = s[j]
        BY <2>6, <3>1
      <3> QED
        BY <3>2
    <2>8. CASE j # i + 1
      <3>1. Has(i)
        BY <1>4, <2>1, <2>8
      <3>2. PICK k \in 1 .. Len(q) : q[k] = s[j]
        BY <2>5, <3>1
      <3>3. f[i + 1] = q \/ f[i + 1] = Append(q, x)
        BY <2>3, <2>4, <2>5
      <3>4. k \in 1 .. Len(f[i + 1]) /\ f[i + 1][k] = s[j]
        BY <2>6, <3>2, <3>3, SMTT(30)
      <3> QED
        BY <3>4
    <2> QED
      BY <2>7, <2>8
  <1>5. Nat \subseteq Kept
    <2> HIDE DEF Kept
    <2> QED
      BY <1>3, <1>4, Induction
  <1>6. Has(Len(s))
    BY <1>1, <1>5
  <1> QED
    BY <1>2, <1>6

\* When those in the set come first they are a prefix.
LEMMA ThosePrefix ==
  ASSUME NEW D, NEW s \in Seq(D), NEW S, NEW n \in 0 .. Len(s),
         \A i \in 1 .. Len(s) : s[i] \in S <=> i <= n
  PROVE  Those(s, S) = SubSeq(s, 1, n)
  <1>1. Len(s) \in Nat /\ \A i \in 1 .. Len(s) : s[i] \in D
    BY LenProperties
  <1>2. PICK f \in [0 .. Len(s) -> Seq(D)] :
            /\ f[0] = <<>> /\ Those(s, S) = f[Len(s)]
            /\ \A i \in 1 .. Len(s) :
                  f[i] = IF s[i] \in S THEN Append(f[i - 1], s[i]) ELSE f[i - 1]
    BY ThoseFunction
  <1> DEFINE Right(i) == /\ Len(f[i]) = IF i <= n THEN i ELSE n
                         /\ \A k \in 1 .. Len(f[i]) : f[i][k] = s[k]
             Kept == {i \in Nat : i <= Len(s) => Right(i)}
  <1>3. 0 \in Kept
    BY <1>2
  <1>4. ASSUME NEW i \in Nat, i \in Kept PROVE i + 1 \in Kept
    <2>1. SUFFICES ASSUME i + 1 <= Len(s) PROVE Right(i + 1)
      OBVIOUS
    <2>2. i + 1 \in 1 .. Len(s) /\ (i + 1) - 1 = i /\ i \in 0 .. Len(s) /\ Right(i)
      BY <1>4, <2>1
    <2>3. f[i + 1] = IF s[i + 1] \in S THEN Append(f[i], s[i + 1]) ELSE f[i]
      BY <1>2, <2>2
    <2>4. PICK x \in D : x = s[i + 1]
      BY <1>1, <2>2
    <2>5. PICK q \in Seq(D) : q = f[i]
      BY <2>2
    <2>6. Len(q) \in Nat /\ Len(Append(q, x)) = Len(q) + 1 /\ Append(q, x)[Len(q) + 1] = x
            /\ \A k \in 1 .. Len(q) : Append(q, x)[k] = q[k]
      BY LenProperties, AppendProperties
    <2>7. CASE i + 1 <= n
      <3>1. f[i + 1] = Append(q, x) /\ Len(q) = i
        BY <2>2, <2>3, <2>4, <2>5, <2>7
      <3>2. Len(f[i + 1]) = i + 1
        BY <2>6, <3>1
      <3>3. ASSUME NEW k \in 1 .. i + 1 PROVE f[i + 1][k] = s[k]
        <4>1. CASE k = i + 1
          BY <2>4, <2>6, <3>1, <4>1
        <4>2. CASE k # i + 1
          <5>1. k \in 1 .. Len(q)
            BY <3>1, <4>2
          <5> QED
            BY <2>2, <2>5, <2>6, <3>1, <5>1
        <4> QED
          BY <4>1, <4>2
      <3> QED
        BY <2>7, <3>2, <3>3
    <2>8. CASE ~(i + 1 <= n)
      <3>1. f[i + 1] = f[i]
        BY <2>2, <2>3, <2>8
      <3>2. Len(f[i]) = n
        BY <2>2, <2>8
      <3> QED
        BY <2>2, <2>8, <3>1, <3>2
    <2> QED
      BY <2>7, <2>8
  <1>5. Nat \subseteq Kept
    <2> HIDE DEF Kept
    <2> QED
      BY <1>3, <1>4, Induction
  <1>6. Right(Len(s))
    BY <1>1, <1>5
  <1>7. PICK t \in Seq(D) : t = Those(s, S)
    BY ThoseType
  <1>8. Len(t) = n /\ \A k \in 1 .. n : t[k] = s[k]
    <2>1. Right(Len(s)) /\ t = f[Len(s)] /\ n \in Nat
      BY <1>1, <1>2, <1>6, <1>7
    <2> QED
      BY <1>1, <2>1
  <1>9. SubSeq(s, 1, n) \in Seq(D) /\ Len(SubSeq(s, 1, n)) = n
          /\ \A k \in 1 .. n : SubSeq(s, 1, n)[k] = s[k]
    BY <1>1, SubSeqProperties
  <1>10. t = SubSeq(s, 1, n)
    BY <1>8, <1>9, SeqEqual
  <1> QED
    BY <1>7, <1>10

-----------------------------------------------------------------------------
(* What the commands of the define family do without scopes. *)

Env     == [defines : [Vars -> Seq(Nat)], fixed : SUBSET Vars]
Entry   == [id : Nat, op : Ops, var : Vars]
Nothing == [defines |-> Unset, fixed |-> {}]

LEMMA NothingType == Nothing \in Env
  BY EmptySeq DEF Nothing, Env, Unset

LEMMA EffectType ==
  ASSUME NEW env \in Env, NEW c \in Entry
  PROVE  Effect(env, c) \in Env
  <1>1. PICK old \in Seq(Nat) : old = env.defines[c.var]
    BY DEF Env, Entry
  <1>2. <<c.id>> \in Seq(Nat) /\ old \o <<c.id>> \in Seq(Nat)
    BY <1>1, ConcatProperties DEF Entry
  <1>3. \A value \in Seq(Nat) : [env EXCEPT !.defines[c.var] = value] \in Env
    BY DEF Env, Entry
  <1>4. \A value \in Seq(Nat) :
           [[env EXCEPT !.defines[c.var] = value] EXCEPT !.fixed = @ \union {c.var}] \in Env
    BY DEF Env, Entry
  <1> QED
    BY <1>1, <1>2, <1>3, <1>4 DEF Effect

\* The recursive function of Replay.
LEMMA EffectsFunction ==
  ASSUME NEW s \in Seq(Entry)
  PROVE  /\ Effects(s) \in [0 .. Len(s) -> Env] /\ Effects(s)[0] = Nothing
         /\ \A i \in 1 .. Len(s) : Effects(s)[i] = Effect(Effects(s)[i - 1], s[i])
  <1> DEFINE F == [i \in 1 .. Len(s) |-> [x \in Env |-> Effect(x, s[i])]]
             E(g) == [i \in 0 .. Len(s) |-> IF i = 0 THEN Nothing ELSE Effect(g[i - 1], s[i])]
  <1>1. Len(s) \in Nat /\ \A i \in 1 .. Len(s) : s[i] \in Entry
    BY LenProperties
  <1>2. F \in [1 .. Len(s) -> [Env -> Env]]
    BY <1>1, EffectType
  <1>3. PICK e \in Env : e = Nothing
    BY NothingType
  <1>4. PICK T : T = Env
    OBVIOUS
  <1>5. PICK n \in Nat : n = Len(s)
    BY <1>1
  <1>6. F \in [1 .. n -> [T -> T]] /\ e \in T
    BY <1>2, <1>3, <1>4, <1>5
  <1>7. PICK f \in [0 .. n -> T] : Recursive(f, n, e, F)
    <2> HIDE DEF F
    <2> QED
      BY <1>6, RecursionExists
  <1>8. f = E(f)
    <2>1. ASSUME NEW i \in 0 .. n PROVE f[i] = E(f)[i]
      <3>1. CASE i = 0
        BY <1>3, <1>5, <1>7, <3>1 DEF Recursive
      <3>2. CASE i # 0
        <4>1. i \in 1 .. n /\ i - 1 \in 0 .. n
          BY <3>2
        <4>2. f[i] = F[i][f[i - 1]] /\ f[i - 1] \in Env
          BY <1>4, <1>7, <4>1 DEF Recursive
        <4>3. F[i][f[i - 1]] = Effect(f[i - 1], s[i])
          BY <1>5, <4>1, <4>2
        <4>4. E(f)[i] = Effect(f[i - 1], s[i])
          BY <1>5, <3>2
        <4> QED
          BY <4>2, <4>3, <4>4
      <3> QED
        BY <3>1, <3>2
    <2>2. f = [i \in 0 .. n |-> f[i]] /\ E(f) = [i \in 0 .. n |-> E(f)[i]]
      BY <1>5, <1>7
    <2> HIDE DEF E
    <2> QED
      BY <2>1, <2>2
  <1>9. Effects(s) = E(Effects(s))
    <2>1. PICK g : g = CHOOSE h : h = E(h)
      OBVIOUS
    <2>2. g = E(g)
      <3> HIDE DEF E
      <3> QED
        BY <1>8, <2>1
    <2>3. Effects(s) = g
      BY <2>1 DEF Effects, Nothing
    <2> HIDE DEF E
    <2> QED
      BY <2>2, <2>3
  <1>10. PICK g : g = Effects(s)
    OBVIOUS
  <1>11. g = E(g)
    <2> HIDE DEF E
    <2> QED
      BY <1>9, <1>10
  <1>12. g[0] = e /\ \A i \in 1 .. n : g[i] = Effect(g[i - 1], s[i])
    <2>1. \A i \in 1 .. n : i \in 0 .. n /\ i # 0
      BY <1>5
    <2> QED
      BY <1>3, <1>5, <1>11, <2>1
  <1>13. \A i \in 1 .. n : g[i - 1] \in T => g[i] = F[i][g[i - 1]]
    BY <1>4, <1>5, <1>12
  <1>14. RecursiveIn(T, g, n, e, F)
    BY <1>12, <1>13 DEF RecursiveIn
  <1>15. \A i \in 0 .. n : f[i] = g[i] /\ f[i] \in T
    <2> HIDE DEF F
    <2> QED
      BY <1>6, <1>7, <1>14, RecursionUnique
  <1>16. g \in [0 .. n -> T]
    <2>1. g = [i \in 0 .. n |-> g[i]]
      BY <1>5, <1>11
    <2> QED
      BY <1>15, <2>1
  <1> QED
    BY <1>3, <1>4, <1>5, <1>10, <1>12, <1>16

LEMMA EffectsAppend ==
  ASSUME NEW s \in Seq(Entry), NEW c \in Entry
  PROVE  Effects(Append(s, c))[Len(s) + 1] = Effect(Effects(s)[Len(s)], c)
  <1>1. PICK n \in Nat : n = Len(s)
    BY LenProperties
  <1>2. PICK t \in Seq(Entry) : t = Append(s, c)
    BY AppendProperties
  <1>3. Len(t) = n + 1 /\ t[n + 1] = c /\ \A i \in 1 .. n : t[i] = s[i]
    BY <1>1, <1>2, AppendProperties
  <1>4. PICK f : f = Effects(s)
    OBVIOUS
  <1>5. PICK g : g = Effects(t)
    OBVIOUS
  <1>6. /\ f \in [0 .. n -> Env] /\ f[0] = Nothing
        /\ \A i \in 1 .. n : f[i] = Effect(f[i - 1], s[i])
    BY <1>1, <1>4, EffectsFunction
  <1>7. /\ g[0] = Nothing
        /\ \A i \in 1 .. n + 1 : g[i] = Effect(g[i - 1], t[i])
    BY <1>1, <1>3, <1>5, EffectsFunction
  <1> DEFINE Same == {i \in Nat : i <= n => f[i] = g[i]}
  <1>8. 0 \in Same
    BY <1>6, <1>7
  <1>9. ASSUME NEW i \in Nat, i \in Same PROVE i + 1 \in Same
    <2>1. SUFFICES ASSUME i + 1 <= n PROVE f[i + 1] = g[i + 1]
      OBVIOUS
    <2>2. i + 1 \in 1 .. n /\ i + 1 \in 1 .. n + 1 /\ (i + 1) - 1 = i /\ f[i] = g[i]
      BY <1>9, <2>1
    <2>3. f[i + 1] = Effect(f[i], s[i + 1])
      BY <1>6, <2>2
    <2>4. g[i + 1] = Effect(g[i], t[i + 1])
      BY <1>7, <2>2
    <2> QED
      BY <1>3, <2>2, <2>3, <2>4
  <1>10. f[n] = g[n]
    <2>1. Nat \subseteq Same
      <3> HIDE DEF Same
      <3> QED
        BY <1>8, <1>9, Induction
    <2> QED
      BY <2>1
  <1>11. n + 1 \in 1 .. n + 1 /\ (n + 1) - 1 = n
    OBVIOUS
  <1>12. g[n + 1] = Effect(g[n], c)
    BY <1>3, <1>7, <1>11
  <1> QED
    BY <1>1, <1>2, <1>4, <1>5, <1>10, <1>12

LEMMA ReplayType == ASSUME NEW s \in Seq(Entry) PROVE Replay(s) \in Env
  <1>1. Len(s) \in 0 .. Len(s)
    BY LenProperties
  <1> QED
    BY <1>1, EffectsFunction DEF Replay

LEMMA ReplayEmpty == Replay(<<>>) = Nothing
  <1>1. <<>> \in Seq(Entry) /\ Len(<<>>) = 0
    BY EmptySeq
  <1> QED
    BY <1>1, EffectsFunction DEF Replay

LEMMA ReplayAppend ==
  ASSUME NEW s \in Seq(Entry), NEW c \in Entry
  PROVE  Replay(Append(s, c)) = Effect(Replay(s), c)
  <1>1. Len(Append(s, c)) = Len(s) + 1
    BY AppendProperties
  <1> QED
    BY <1>1, EffectsAppend DEF Replay

-----------------------------------------------------------------------------
(* What declarations give with -add. *)

\* The recursive function in Added.
LEMMA AddedFunction ==
  ASSUME NEW s \in Seq(Decls)
  PROVE  /\ Added(s) \in [0 .. Len(s) -> Seq(Words)] /\ Added(s)[0] = <<>>
         /\ \A i \in 1 .. Len(s) : Added(s)[i] = (IF s[i].add THEN Added(s)[i - 1] \o s[i].do ELSE Added(s)[i - 1])
  <1> DEFINE F == [i \in 1 .. Len(s) |-> [x \in Seq(Words) |-> (IF s[i].add THEN x \o s[i].do ELSE x)]]
             E(g) == [i \in 0 .. Len(s) |-> IF i = 0 THEN <<>> ELSE IF s[i].add THEN g[i - 1] \o s[i].do ELSE g[i - 1]]
  <1>1. Len(s) \in Nat /\ \A i \in 1 .. Len(s) : s[i] \in Decls
    BY LenProperties
  <1>2. F \in [1 .. Len(s) -> [Seq(Words) -> Seq(Words)]]
    BY <1>1, ConcatProperties, DescriptionsAssumption DEF Declarations
  <1>3. PICK e \in Seq(Words) : e = <<>>
    BY EmptySeq
  <1>4. PICK T : T = Seq(Words)
    OBVIOUS
  <1>5. PICK n \in Nat : n = Len(s)
    BY <1>1
  <1>6. F \in [1 .. n -> [T -> T]] /\ e \in T
    BY <1>2, <1>3, <1>4, <1>5
  <1>7. PICK f \in [0 .. n -> T] : Recursive(f, n, e, F)
    <2> HIDE DEF F
    <2> QED
      BY <1>6, RecursionExists
  <1>8. f = E(f)
    <2>1. ASSUME NEW i \in 0 .. n PROVE f[i] = E(f)[i]
      <3>1. CASE i = 0
        BY <1>3, <1>5, <1>7, <3>1 DEF Recursive
      <3>2. CASE i # 0
        <4>1. i \in 1 .. n /\ i - 1 \in 0 .. n
          BY <3>2
        <4>2. f[i] = F[i][f[i - 1]] /\ f[i - 1] \in Seq(Words)
          BY <1>4, <1>7, <4>1 DEF Recursive
        <4>3. F[i][f[i - 1]] = (IF s[i].add THEN f[i - 1] \o s[i].do ELSE f[i - 1])
          BY <1>5, <4>1, <4>2
        <4>4. E(f)[i] = (IF s[i].add THEN f[i - 1] \o s[i].do ELSE f[i - 1])
          BY <1>5, <3>2
        <4> QED
          BY <4>2, <4>3, <4>4
      <3> QED
        BY <3>1, <3>2
    <2>2. f = [i \in 0 .. n |-> f[i]] /\ E(f) = [i \in 0 .. n |-> E(f)[i]]
      BY <1>5, <1>7
    <2> HIDE DEF E
    <2> QED
      BY <2>1, <2>2
  <1>9. Added(s) = E(Added(s))
    <2>1. PICK g : g = CHOOSE h : h = E(h)
      OBVIOUS
    <2>2. g = E(g)
      <3> HIDE DEF E
      <3> QED
        BY <1>8, <2>1
    <2>3. Added(s) = g
      BY <2>1 DEF Added
    <2> HIDE DEF E
    <2> QED
      BY <2>2, <2>3
  <1>10. PICK g : g = Added(s)
    OBVIOUS
  <1>11. g = E(g)
    <2> HIDE DEF E
    <2> QED
      BY <1>9, <1>10
  <1>12. g[0] = e /\ \A i \in 1 .. n : g[i] = (IF s[i].add THEN g[i - 1] \o s[i].do ELSE g[i - 1])
    <2>1. \A i \in 1 .. n : i \in 0 .. n /\ i # 0
      BY <1>5
    <2> QED
      BY <1>3, <1>5, <1>11, <2>1
  <1>13. \A i \in 1 .. n : g[i - 1] \in T => g[i] = F[i][g[i - 1]]
    BY <1>4, <1>5, <1>12
  <1>14. RecursiveIn(T, g, n, e, F)
    BY <1>12, <1>13 DEF RecursiveIn
  <1>15. \A i \in 0 .. n : f[i] = g[i] /\ f[i] \in T
    <2> HIDE DEF F
    <2> QED
      BY <1>6, <1>7, <1>14, RecursionUnique
  <1>16. g \in [0 .. n -> T]
    <2>1. g = [i \in 0 .. n |-> g[i]]
      BY <1>5, <1>11
    <2> QED
      BY <1>15, <2>1
  <1> QED
    BY <1>3, <1>4, <1>5, <1>10, <1>12, <1>16

LEMMA AddedAppend ==
  ASSUME NEW s \in Seq(Decls), NEW c \in Decls
  PROVE  Added(Append(s, c))[Len(s) + 1] = (IF c.add THEN Added(s)[Len(s)] \o c.do ELSE Added(s)[Len(s)])
  <1>1. PICK n \in Nat : n = Len(s)
    BY LenProperties
  <1>2. PICK t \in Seq(Decls) : t = Append(s, c)
    BY AppendProperties
  <1>3. Len(t) = n + 1 /\ t[n + 1] = c /\ \A i \in 1 .. n : t[i] = s[i]
    BY <1>1, <1>2, AppendProperties
  <1>4. PICK f : f = Added(s)
    OBVIOUS
  <1>5. PICK g : g = Added(t)
    OBVIOUS
  <1>6. /\ f \in [0 .. n -> Seq(Words)] /\ f[0] = <<>>
        /\ \A i \in 1 .. n : f[i] = (IF s[i].add THEN f[i - 1] \o s[i].do ELSE f[i - 1])
    BY <1>1, <1>4, AddedFunction
  <1>7. /\ g[0] = <<>>
        /\ \A i \in 1 .. n + 1 : g[i] = (IF t[i].add THEN g[i - 1] \o t[i].do ELSE g[i - 1])
    BY <1>1, <1>3, <1>5, AddedFunction
  <1> DEFINE Same == {i \in Nat : i <= n => f[i] = g[i]}
  <1>8. 0 \in Same
    BY <1>6, <1>7
  <1>9. ASSUME NEW i \in Nat, i \in Same PROVE i + 1 \in Same
    <2>1. SUFFICES ASSUME i + 1 <= n PROVE f[i + 1] = g[i + 1]
      OBVIOUS
    <2>2. i + 1 \in 1 .. n /\ i + 1 \in 1 .. n + 1 /\ (i + 1) - 1 = i /\ f[i] = g[i]
      BY <1>9, <2>1
    <2>3. f[i + 1] = (IF s[i + 1].add THEN f[i] \o s[i + 1].do ELSE f[i])
      BY <1>6, <2>2
    <2>4. g[i + 1] = (IF t[i + 1].add THEN g[i] \o t[i + 1].do ELSE g[i])
      BY <1>7, <2>2
    <2> QED
      BY <1>3, <2>2, <2>3, <2>4
  <1>10. f[n] = g[n]
    <2>1. Nat \subseteq Same
      <3> HIDE DEF Same
      <3> QED
        BY <1>8, <1>9, Induction
    <2> QED
      BY <2>1
  <1>11. n + 1 \in 1 .. n + 1 /\ (n + 1) - 1 = n
    OBVIOUS
  <1>12. g[n + 1] = (IF c.add THEN g[n] \o c.do ELSE g[n])
    BY <1>3, <1>7, <1>11
  <1> QED
    BY <1>1, <1>2, <1>4, <1>5, <1>10, <1>12

-----------------------------------------------------------------------------
(* The descriptions and scopes that are open. *)

Scopes == [kind : {"project", "spec", "virtual", "scope"}, id : Nat, dir : Dirs,
           within : BOOLEAN, defines : [Vars -> Seq(Nat)], localdir : Dirs]

LEMMA OpenType ==
  ASSUME TypeOK, NestingOK
  PROVE  /\ open \in Seq(Scopes) /\ Len(open) \in Nat \ {0} /\ DOMAIN open = 1 .. Len(open)
         /\ \A k \in 1 .. Len(open) : open[k] \in Scopes
         /\ Here = open[Len(open)] /\ Here \in Scopes
         /\ log \in Seq(Entry) /\ Len(log) \in Nat /\ DOMAIN log = 1 .. Len(log)
         /\ \A i \in 1 .. Len(log) : log[i] \in Entry
  <1>1. open \in Seq(Scopes) /\ log \in Seq(Entry)
    BY DEF TypeOK, Scopes, Entry
  <1>2. open # <<>>
    BY DEF NestingOK
  <1>3. Len(open) \in Nat \ {0} /\ DOMAIN open = 1 .. Len(open)
          /\ \A k \in 1 .. Len(open) : open[k] \in Scopes
    BY <1>1, <1>2, LenProperties, EmptySeq
  <1>4. Len(log) \in Nat /\ DOMAIN log = 1 .. Len(log) /\ \A i \in 1 .. Len(log) : log[i] \in Entry
    BY <1>1, LenProperties
  <1>5. Here = open[Len(open)]
    BY DEF Here, Last
  <1> QED
    BY <1>1, <1>3, <1>4, <1>5

\* The outermost m of them.
LEMMA CutType ==
  ASSUME TypeOK, NestingOK, NEW m \in 0 .. Len(open)
  PROVE  /\ SubSeq(open, 1, m) \in Seq(Scopes)
         /\ Len(SubSeq(open, 1, m)) = m /\ DOMAIN SubSeq(open, 1, m) = 1 .. m
         /\ \A k \in 1 .. m : SubSeq(open, 1, m)[k] = open[k]
  <1>1. open \in Seq(Scopes) /\ Len(open) \in Nat /\ m \in Nat
    BY OpenType
  <1>2. SubSeq(open, 1, m) \in Seq(Scopes) /\ Len(SubSeq(open, 1, m)) = m
          /\ \A k \in 1 .. m : SubSeq(open, 1, m)[k] = open[k]
    BY <1>1, SubSeqProperties
  <1> QED
    BY <1>2, LenProperties

LEMMA FrontIsCut ==
  ASSUME TypeOK, NestingOK
  PROVE  Front(open) = SubSeq(open, 1, Len(open) - 1) /\ Len(open) - 1 \in 0 .. Len(open)
  BY OpenType DEF Front

\* The innermost description in the outermost m.
LEMMA InnermostIs ==
  ASSUME TypeOK, NestingOK, NEW m \in 1 .. Len(open), NEW k, k = Innermost(SubSeq(open, 1, m))
  PROVE  /\ k \in 1 .. m /\ open[k].kind # "scope"
         /\ \A i \in k + 1 .. m : open[i].kind = "scope"
         /\ SubSeq(SubSeq(open, 1, m), 1, k) = SubSeq(open, 1, k)
  <1>1. PICK s : s = SubSeq(open, 1, m)
    OBVIOUS
  <1>2. m \in 0 .. Len(open) /\ m \in Nat /\ Len(open) \in Nat /\ m \in DOMAIN open
    BY OpenType
  <1>3. DOMAIN s = 1 .. m /\ Len(s) = m /\ \A i \in 1 .. m : s[i] = open[i]
    BY <1>1, <1>2, CutType
  <1>4. \E j \in DOMAIN s : s[j].kind # "scope" /\ \A i \in DOMAIN s : i > j => s[i].kind = "scope"
    <2>1. PICK j \in 1 .. m : open[j].kind # "scope" /\ \A i \in j + 1 .. m : open[i].kind = "scope"
      BY <1>2 DEF NestingOK
    <2>2. \A i \in 1 .. m : i > j => i \in j + 1 .. m
      BY <1>2
    <2> QED
      BY <1>3, <2>1, <2>2
  <1>5. k \in DOMAIN s /\ s[k].kind # "scope" /\ \A i \in DOMAIN s : i > k => s[i].kind = "scope"
    BY <1>1, <1>4 DEF Innermost
  <1>6. k \in 1 .. m /\ open[k].kind # "scope"
    BY <1>3, <1>5
  <1>7. \A i \in k + 1 .. m : open[i].kind = "scope"
    <2>1. \A i \in k + 1 .. m : i \in 1 .. m /\ i > k
      BY <1>2, <1>6
    <2> QED
      BY <1>3, <1>5, <2>1
  <1>8. SubSeq(s, 1, k) = SubSeq(open, 1, k)
    <2>1. s \in Seq(Scopes) /\ k \in 0 .. Len(open) /\ k \in 0 .. m
      BY <1>1, <1>2, <1>6, CutType
    <2>2. SubSeq(s, 1, k) \in Seq(Scopes) /\ Len(SubSeq(s, 1, k)) = k
            /\ \A i \in 1 .. k : SubSeq(s, 1, k)[i] = s[i]
      BY <1>2, <1>3, <2>1, SubSeqProperties
    <2>3. SubSeq(open, 1, k) \in Seq(Scopes) /\ Len(SubSeq(open, 1, k)) = k
            /\ \A i \in 1 .. k : SubSeq(open, 1, k)[i] = open[i]
      BY <2>1, CutType
    <2>4. \A i \in 1 .. k : SubSeq(s, 1, k)[i] = SubSeq(open, 1, k)[i]
      BY <1>2, <1>3, <1>6, <2>2, <2>3
    <2> QED
      BY <2>2, <2>3, <2>4, SeqEqual
  <1> QED
    BY <1>1, <1>6, <1>7, <1>8

-----------------------------------------------------------------------------
(* A scope or description begins. *)

LEMMA PushType ==
  ASSUME TypeOK, NestingOK, NEW kind \in {"spec", "virtual", "scope"}, NEW dir \in Dirs \union {None},
         Enter(kind, dir)
  PROVE  \E new \in Scopes :
            /\ open' = Append(open, new) /\ open' \in Seq(Scopes)
            /\ Len(open') = Len(open) + 1 /\ DOMAIN open' = 1 .. Len(open) + 1
            /\ open'[Len(open) + 1] = new /\ Here' = new
            /\ \A k \in 1 .. Len(open) : open'[k] = open[k]
            /\ new.kind = kind /\ new.id = ids + 1 /\ new.within = (dir # None)
            /\ new.dir = (IF dir = None THEN Here.dir ELSE dir)
            /\ new.defines = defines /\ new.localdir = localdir
            /\ ids' = ids + 1 /\ ids' \in Nat
            /\ localdir' = (IF dir = None THEN localdir ELSE dir) /\ localdir' \in Dirs
  <1>1. ids \in Nat /\ defines \in [Vars -> Seq(Nat)] /\ localdir \in Dirs
    BY DEF TypeOK
  <1>2. Here.dir \in Dirs
    BY OpenType DEF Scopes
  <1>3. PICK new : new = [kind |-> kind, id |-> ids + 1, within |-> dir # None,
                          dir |-> IF dir = None THEN Here.dir ELSE dir,
                          defines |-> defines, localdir |-> localdir]
    OBVIOUS
  <1>4. new \in Scopes
    BY <1>1, <1>2, <1>3 DEF Scopes
  <1>5. open' = Append(open, new) /\ ids' = ids + 1
          /\ localdir' = (IF dir = None THEN localdir ELSE dir)
    BY <1>3 DEF Enter
  <1>6. open' \in Seq(Scopes) /\ Len(open') = Len(open) + 1
          /\ open'[Len(open) + 1] = new /\ \A k \in 1 .. Len(open) : open'[k] = open[k]
    BY <1>4, <1>5, OpenType, AppendProperties
  <1>7. DOMAIN open' = 1 .. Len(open) + 1
    BY <1>6, LenProperties
  <1>8. Here' = new
    BY <1>6 DEF Here, Last
  <1>9. /\ new.kind = kind /\ new.id = ids + 1 /\ new.within = (dir # None)
        /\ new.dir = (IF dir = None THEN Here.dir ELSE dir)
        /\ new.defines = defines /\ new.localdir = localdir
    BY <1>3
  <1>10. ids' \in Nat /\ localdir' \in Dirs
    BY <1>1, <1>5
  <1> QED
    BY <1>4, <1>5, <1>6, <1>7, <1>8, <1>9, <1>10

LEMMA PushNesting ==
  ASSUME TypeOK, NestingOK, IdsOK, NEW kind \in {"spec", "virtual", "scope"}, NEW dir \in Dirs \union {None},
         Enter(kind, dir), pc' = "body", escaped' = escaped,
         kind = "spec" => Len(open) = 1, kind = "virtual" => dir \in Virtual
  PROVE  NestingOK' /\ IdsOK'
  <1>1. PICK new \in Scopes :
            /\ Len(open') = Len(open) + 1 /\ DOMAIN open' = 1 .. Len(open) + 1
            /\ open'[Len(open) + 1] = new
            /\ \A k \in 1 .. Len(open) : open'[k] = open[k]
            /\ new.kind = kind /\ new.id = ids + 1
            /\ new.dir = (IF dir = None THEN Here.dir ELSE dir)
            /\ ids' = ids + 1
    BY PushType
  <1>2. PICK n \in Nat \ {0} : n = Len(open) /\ DOMAIN open = 1 .. n
    BY OpenType
  <1>3. \A k \in 1 .. n + 1 : k \in 1 .. n \/ k = n + 1
    BY <1>2
  <1>4. NestingOK'
    <2>1. open' # <<>> /\ open'[1].kind = "project" /\ open'[1].dir = Top
      <3>1. 1 \in 1 .. n
        BY <1>2
      <3>2. open'[1] = open[1] /\ open' # <<>>
        BY <1>1, <1>2, <3>1
      <3> QED
        BY <3>2 DEF NestingOK
    <2>2. ASSUME NEW k \in 1 .. n + 1
          PROVE  /\ open'[k].kind = "project" => k = 1
                 /\ open'[k].kind = "spec" => k = 2
                 /\ open'[k].kind = "virtual" => open'[k].dir \in Virtual
                 /\ \E m \in 1 .. k : open'[m].kind # "scope"
                                 /\ \A i \in m + 1 .. k : open'[i].kind = "scope"
      <3>1. CASE k \in 1 .. n
        <4>1. \A i \in 1 .. k : i \in 1 .. n /\ open'[i] = open[i]
          BY <1>1, <1>2, <3>1
        <4>2. PICK m \in 1 .. k : open[m].kind # "scope" /\ \A i \in m + 1 .. k : open[i].kind = "scope"
          BY <1>2, <3>1 DEF NestingOK
        <4>3. open'[m].kind # "scope" /\ \A i \in m + 1 .. k : open'[i].kind = "scope"
          BY <3>1, <4>1, <4>2
        <4>4. open'[k] = open[k]
          BY <3>1, <4>1
        <4> QED
          BY <1>2, <3>1, <4>3, <4>4 DEF NestingOK
      <3>2. CASE k = n + 1
        <4>1. open'[k] = new
          BY <1>1, <1>2, <3>2
        <4>2. /\ open'[k].kind = "project" => k = 1
              /\ open'[k].kind = "spec" => k = 2
              /\ open'[k].kind = "virtual" => open'[k].dir \in Virtual
          <5>1. kind = "virtual" => dir # None
            BY DescriptionsAssumption
          <5> QED
            BY <1>1, <1>2, <3>2, <4>1, <5>1
        <4>3. \E m \in 1 .. k : open'[m].kind # "scope" /\ \A i \in m + 1 .. k : open'[i].kind = "scope"
          <5>1. CASE kind # "scope"
            BY <1>1, <1>2, <3>2, <4>1, <5>1
          <5>2. CASE kind = "scope"
            <6>1. PICK m \in 1 .. n : open[m].kind # "scope" /\ \A i \in m + 1 .. n : open[i].kind = "scope"
              BY <1>2 DEF NestingOK
            <6>2. open'[m].kind # "scope"
              BY <1>1, <1>2, <6>1
            <6>3. ASSUME NEW i \in m + 1 .. k PROVE open'[i].kind = "scope"
              <7>1. CASE i = n + 1
                BY <1>1, <1>2, <5>2, <7>1
              <7>2. CASE i # n + 1
                <8>1. i \in m + 1 .. n /\ i \in 1 .. n
                  BY <1>2, <3>2, <6>1, <7>2
                <8> QED
                  BY <1>1, <1>2, <6>1, <8>1
              <7> QED
                BY <7>1, <7>2
            <6> QED
              BY <1>2, <3>2, <6>1, <6>2, <6>3
          <5> QED
            BY <5>1, <5>2
        <4> QED
          BY <4>2, <4>3
      <3> QED
        BY <1>3, <3>1, <3>2
    <2> QED
      BY <1>1, <1>2, <2>1, <2>2 DEF NestingOK
  <1>5. IdsOK'
    <2>1. ids \in Nat
      BY DEF TypeOK
    <2>2. \A k \in 1 .. n : open[k].id \in Nat /\ open[k].id <= ids
      BY <1>2, OpenType DEF IdsOK, Scopes
    <2>3. ASSUME NEW k \in 1 .. n + 1
          PROVE  open'[k].id <= ids' /\ (open'[k].kind = "scope" => open'[k].id \notin escaped')
      <3>1. CASE k \in 1 .. n
        <4>1. open'[k] = open[k]
          BY <1>1, <1>2, <3>1
        <4>2. open[k].kind = "scope" => open[k].id \notin escaped
          BY <1>2, <3>1 DEF IdsOK
        <4> QED
          BY <1>1, <2>1, <2>2, <3>1, <4>1, <4>2
      <3>2. CASE k = n + 1
        <4>1. open'[k].id = ids + 1
          BY <1>1, <1>2, <3>2
        <4>2. ids + 1 \notin escaped
          <5>1. \A id \in escaped : id <= ids
            BY DEF IdsOK
          <5> QED
            BY <2>1, <5>1
        <4> QED
          BY <1>1, <2>1, <4>1, <4>2
      <3> QED
        BY <1>3, <3>1, <3>2
    <2>4. ASSUME NEW j \in 1 .. n + 1, NEW k \in 1 .. n + 1, j < k PROVE open'[j].id < open'[k].id
      <3>1. j \in 1 .. n /\ open'[j] = open[j]
        BY <1>1, <1>2, <2>4
      <3>2. CASE k \in 1 .. n
        BY <1>1, <1>2, <2>4, <3>1, <3>2 DEF IdsOK
      <3>3. CASE k = n + 1
        <4>1. open'[k].id = ids + 1
          BY <1>1, <1>2, <3>3
        <4> QED
          BY <2>1, <2>2, <3>1, <4>1
      <3> QED
        BY <1>3, <3>2, <3>3
    <2>5. \A id \in escaped' : id <= ids'
      <3>1. escaped \subseteq Nat /\ \A id \in escaped : id <= ids
        BY DEF IdsOK, TypeOK
      <3> QED
        BY <1>1, <2>1, <3>1
    <2> QED
      BY <1>1, <1>2, <2>3, <2>4, <2>5 DEF IdsOK
  <1> QED
    BY <1>4, <1>5

LEMMA AgreeStays ==
  ASSUME NEW definitions, NEW list, NEW F, NEW G, Agree(F, definitions, list), F \subseteq G
  PROVE  Agree(G, definitions, list)
  BY DEF Agree

\* Of the saved values: all that is open was opened when the log was as it is.
LEMMA PushSaved ==
  ASSUME TypeOK, NestingOK, IdsOK, PlaceOK, LogOK, CurrentOK, pc \in {"body", "walk"},
         NEW kind \in {"spec", "virtual", "scope"}, NEW dir \in Dirs \union {None}, Enter(kind, dir),
         pc' = "body", escaped' = escaped, log' = log, fixed' = fixed,
         defines' = defines, frame' = defines, kind # "scope" => dir # None
  PROVE  PlaceOK' /\ LogOK' /\ CurrentOK'
  <1>1. PICK new \in Scopes :
            /\ Len(open') = Len(open) + 1 /\ DOMAIN open' = 1 .. Len(open) + 1
            /\ open'[Len(open) + 1] = new /\ Here' = new
            /\ \A k \in 1 .. Len(open) : open'[k] = open[k]
            /\ new.kind = kind /\ new.id = ids + 1 /\ new.within = (dir # None)
            /\ new.dir = (IF dir = None THEN Here.dir ELSE dir)
            /\ new.defines = defines /\ new.localdir = localdir
            /\ localdir' = (IF dir = None THEN localdir ELSE dir)
    BY PushType
  <1>2. PICK n \in Nat \ {0} : n = Len(open) /\ DOMAIN open = 1 .. n /\ Here = open[n]
    BY OpenType
  <1>3. ASSUME NEW k \in 1 .. n PROVE Clean(k)' <=> Clean(k)
    <2>1. \A j \in 1 .. k : open'[j] = open[j]
      BY <1>1, <1>2
    <2> QED
      BY <2>1 DEF Clean
  <1>4. \A k \in 1 .. n + 1 : k \in 1 .. n \/ k = n + 1
    BY <1>2
  <1>5. Clean(n) => localdir = Here.dir /\ Agree(fixed, defines, log)
    BY <1>2 DEF CurrentOK
  <1>6. PlaceOK'
    <2>1. ASSUME NEW k \in 2 .. n + 1
          PROVE  /\ Clean(k - 1)' => open'[k].localdir = open'[k - 1].dir
                 /\ ~open'[k].within => open'[k].kind = "scope" /\ open'[k].dir = open'[k - 1].dir
      <3>0. k - 1 \in 1 .. n /\ open'[k - 1] = open[k - 1] /\ (Clean(k - 1)' <=> Clean(k - 1))
        <4>1. k - 1 \in 1 .. n
          BY <1>2
        <4> QED
          BY <1>1, <1>2, <1>3, <4>1
      <3>1. CASE k \in 1 .. n
        <4>1. open'[k] = open[k] /\ k \in 2 .. n
          BY <1>1, <1>2, <3>1
        <4> QED
          BY <1>2, <3>0, <4>1 DEF PlaceOK
      <3>2. CASE k = n + 1
        <4>1. open'[k] = new /\ open'[k - 1] = Here /\ (Clean(k - 1)' <=> Clean(n))
          BY <1>1, <1>2, <3>0, <3>2
        <4>2. Clean(k - 1)' => open'[k].localdir = open'[k - 1].dir
          BY <1>1, <1>5, <4>1
        <4>3. ~open'[k].within => open'[k].kind = "scope" /\ open'[k].dir = open'[k - 1].dir
          BY <1>1, <4>1
        <4> QED
          BY <4>2, <4>3
      <3> QED
        BY <1>2, <3>1, <3>2
    <2>2. Len(open') = n + 1
      BY <1>1, <1>2
    <2> QED
      BY <2>1, <2>2 DEF PlaceOK
  <1>7. CurrentOK'
    <2>1. Clean(n + 1)' => Clean(n)
      <3>1. Clean(n + 1)' => Clean(n)'
        BY <1>2 DEF Clean
      <3> QED
        BY <1>2, <1>3, <3>1
    <2>2. Clean(n + 1)' => localdir' = Here'.dir
      BY <1>1, <1>5, <2>1
    <2>3. Clean(n + 1)' => Agree(fixed', defines', log')
      BY <1>5, <2>1
    <2> QED
      BY <1>1, <1>2, <2>2, <2>3 DEF CurrentOK
  <1>8. LogOK'
    <2>1. Len(log) \in Nat /\ log \in Seq(Entry) /\ DOMAIN log = 1 .. Len(log) /\ ids \in Nat
            /\ \A k \in 1 .. n : open[k].id \in Nat /\ open[k].id <= ids
      BY <1>2, OpenType DEF TypeOK, IdsOK, Scopes
    <2>2. \A i \in DOMAIN log : \E k \in 1 .. n + 1 : log[i].id = open'[k].id
      <3>1. \A i \in DOMAIN log : \E k \in 1 .. n : log[i].id = open[k].id
        BY <1>2 DEF LogOK
      <3>2. \A k \in 1 .. n : k \in 1 .. n + 1 /\ open'[k] = open[k]
        BY <1>1, <1>2
      <3> QED
        BY <3>1, <3>2
    <2>3. ASSUME NEW k \in 1 .. n + 1
          PROVE  \E m \in 0 .. Len(log) :
                   /\ \A i \in DOMAIN log : i <= m <=> log[i].id < open'[k].id
                   /\ k > 1 /\ Clean(k - 1)' => Agree(fixed', open'[k].defines, SubSeq(log', 1, m))
      <3>1. CASE k \in 1 .. n
        <4>1. open'[k] = open[k]
          BY <1>1, <1>2, <3>1
        <4>2. PICK m \in 0 .. Len(log) :
                /\ \A i \in DOMAIN log : i <= m <=> log[i].id < open[k].id
                /\ k > 1 /\ Clean(k - 1) => Agree(fixed, open[k].defines, SubSeq(log, 1, m))
          BY <1>2, <3>1 DEF LogOK
        <4>3. k > 1 => (Clean(k - 1)' <=> Clean(k - 1))
          <5>1. k > 1 => k - 1 \in 1 .. n
            BY <1>2, <3>1
          <5> QED
            BY <1>3, <5>1
        <4>4. Agree(fixed, open[k].defines, SubSeq(log, 1, m)) => Agree(fixed', open'[k].defines, SubSeq(log', 1, m))
          BY <4>1
        <4> QED
          BY <4>1, <4>2, <4>3, <4>4
      <3>2. CASE k = n + 1
        <4>1. open'[k] = new
          BY <1>1, <1>2, <3>2
        <4>2. \A i \in DOMAIN log : i <= Len(log) <=> log[i].id < open'[k].id
          <5>1. ASSUME NEW i \in DOMAIN log PROVE log[i].id < new.id
            <6>1. PICK j \in 1 .. n : log[i].id = open[j].id
              BY <1>2 DEF LogOK
            <6> QED
              BY <1>1, <2>1, <6>1
          <5>2. \A i \in DOMAIN log : i <= Len(log)
            BY <2>1
          <5> QED
            BY <4>1, <5>1, <5>2
        <4>3. Clean(k - 1)' => Clean(n)
          BY <1>2, <1>3, <3>2
        <4>4. Clean(k - 1)' => Agree(fixed', open'[k].defines, SubSeq(log', 1, Len(log)))
          <5>1. SubSeq(log, 1, Len(log)) = log
            BY <2>1, SubSeqFull
          <5>2. Agree(fixed, defines, log) => Agree(fixed', open'[k].defines, log')
            BY <1>1, <4>1
          <5> QED
            BY <1>5, <4>3, <5>1, <5>2
        <4> QED
          BY <2>1, <4>2, <4>4
      <3> QED
        BY <1>4, <3>1, <3>2
    <2> QED
      BY <1>1, <1>2, <2>2, <2>3 DEF LogOK
  <1> QED
    BY <1>6, <1>7, <1>8

-----------------------------------------------------------------------------
(* Scopes and descriptions end: the outermost m stay open. *)

LEMMA CutNesting ==
  ASSUME TypeOK, NestingOK, IdsOK, NEW m \in 1 .. Len(open), open' = SubSeq(open, 1, m), ids' = ids,
         \A id \in escaped' : id \in escaped
             \/ \E k \in 1 .. Len(open) : open[k].kind # "scope" /\ open[k].id = id,
         pc' = "epilog" => open[m].kind \in {"spec", "virtual"}, pc' = "walk" => m = 1
  PROVE  NestingOK' /\ IdsOK'
  <1>1. PICK n \in Nat \ {0} : n = Len(open) /\ DOMAIN open = 1 .. n
    BY OpenType
  <1>2. m \in Nat /\ m \in 1 .. n /\ m \in 0 .. Len(open)
    BY <1>1
  <1>3. Len(open') = m /\ DOMAIN open' = 1 .. m /\ \A k \in 1 .. m : open'[k] = open[k] /\ k \in 1 .. n
    <2>1. \A k \in 1 .. m : k \in 1 .. n
      BY <1>1, <1>2
    <2> QED
      BY <1>2, <2>1, CutType
  <1>4. Here' = open[m]
    BY <1>2, <1>3 DEF Here, Last
  <1>5. NestingOK'
    <2>1. open' # <<>> /\ open'[1].kind = "project" /\ open'[1].dir = Top
      <3>1. 1 \in 1 .. m
        BY <1>2
      <3>2. open'[1] = open[1] /\ open' # <<>>
        BY <1>3, <3>1
      <3> QED
        BY <3>2 DEF NestingOK
    <2>2. ASSUME NEW k \in 1 .. m
          PROVE  /\ open'[k].kind = "project" => k = 1
                 /\ open'[k].kind = "spec" => k = 2
                 /\ open'[k].kind = "virtual" => open'[k].dir \in Virtual
                 /\ \E j \in 1 .. k : open'[j].kind # "scope"
                                 /\ \A i \in j + 1 .. k : open'[i].kind = "scope"
      <3>1. \A i \in 1 .. k : open'[i] = open[i]
        BY <1>2, <1>3
      <3>2. PICK j \in 1 .. k : open[j].kind # "scope" /\ \A i \in j + 1 .. k : open[i].kind = "scope"
        BY <1>1, <1>3 DEF NestingOK
      <3>3. open'[j].kind # "scope" /\ \A i \in j + 1 .. k : open'[i].kind = "scope"
        BY <3>1, <3>2
      <3>4. open'[k] = open[k]
        BY <3>1
      <3> QED
        BY <1>1, <1>3, <3>3, <3>4, SMTT(30) DEF NestingOK
    <2> QED
      BY <1>3, <1>4, <2>1, <2>2 DEF NestingOK
  <1>6. IdsOK'
    <2>1. \A j, k \in 1 .. n : open[j].id \in Nat /\ open[j].id <= ids /\ (j < k => open[j].id < open[k].id)
      BY <1>1, OpenType DEF IdsOK, Scopes
    <2>2. \A k \in 1 .. m : open'[k].id <= ids'
      BY <1>3, <2>1
    <2>3. \A j, k \in 1 .. m : j < k => open'[j].id < open'[k].id
      BY <1>3, <2>1
    <2>4. \A id \in escaped' : id <= ids'
      BY <1>1, <2>1 DEF IdsOK
    <2>5. ASSUME NEW k \in 1 .. m, open'[k].kind = "scope" PROVE open'[k].id \notin escaped'
      <3>1. open'[k] = open[k] /\ k \in 1 .. n
        BY <1>3
      <3>2. open[k].id \notin escaped
        BY <1>1, <2>5, <3>1 DEF IdsOK
      <3>3. ASSUME NEW j \in 1 .. n, open[j].kind # "scope" PROVE open[j].id # open[k].id
        <4>1. j < k \/ k < j
          BY <2>5, <3>1, <3>3
        <4> QED
          BY <2>1, <3>1, <4>1
      <3> QED
        BY <1>1, <3>1, <3>2, <3>3
    <2> QED
      BY <1>3, <2>2, <2>3, <2>4, <2>5 DEF IdsOK
  <1> QED
    BY <1>5, <1>6

LEMMA SubSubSeq ==
  ASSUME NEW D, NEW s \in Seq(D), NEW n \in 0 .. Len(s), NEW k \in 0 .. n
  PROVE  SubSeq(SubSeq(s, 1, n), 1, k) = SubSeq(s, 1, k)
  <1>1. Len(s) \in Nat /\ n \in Nat /\ k \in Nat /\ k \in 0 .. Len(s)
    BY LenProperties
  <1>2. PICK t \in Seq(D) : t = SubSeq(s, 1, n) /\ Len(t) = n /\ \A i \in 1 .. n : t[i] = s[i]
    <2>1. SubSeq(s, 1, n) \in Seq(D) /\ Len(SubSeq(s, 1, n)) = n
            /\ \A i \in 1 .. n : SubSeq(s, 1, n)[i] = s[i]
      BY <1>1, SubSeqProperties
    <2> QED
      BY <2>1
  <1>3. SubSeq(t, 1, k) \in Seq(D) /\ Len(SubSeq(t, 1, k)) = k
          /\ \A i \in 1 .. k : SubSeq(t, 1, k)[i] = t[i]
    BY <1>1, <1>2, SubSeqProperties
  <1>4. SubSeq(s, 1, k) \in Seq(D) /\ Len(SubSeq(s, 1, k)) = k
          /\ \A i \in 1 .. k : SubSeq(s, 1, k)[i] = s[i]
    BY <1>1, SubSeqProperties
  <1>5. \A i \in 1 .. k : SubSeq(t, 1, k)[i] = SubSeq(s, 1, k)[i]
    BY <1>1, <1>2, <1>3, <1>4
  <1> QED
    BY <1>2, <1>3, <1>4, <1>5, SeqEqual

\* The log is cut where what ends was opened, so that the definitions saved
\* there are those of what is left of it.
LEMMA CutSaved ==
  ASSUME TypeOK, NestingOK, IdsOK, PlaceOK, LogOK,
         NEW m \in 1 .. Len(open), open' = SubSeq(open, 1, m), Forget(open'), fixed' = fixed,
         \A k \in 1 .. m : open[k].id \in escaped => open[k].id \in escaped'
  PROVE  /\ PlaceOK' /\ LogOK' /\ log' \in Seq(Entry)
         /\ m = Len(open) => log' = log
         /\ m < Len(open) /\ Clean(m) => Agree(fixed, open[m + 1].defines, log')
  <1>1. PICK n \in Nat \ {0} : n = Len(open) /\ DOMAIN open = 1 .. n
    BY OpenType
  <1>2. m \in Nat /\ m \in 1 .. n /\ m \in 0 .. Len(open)
    BY <1>1
  <1>3. Len(open') = m /\ DOMAIN open' = 1 .. m /\ \A k \in 1 .. m : open'[k] = open[k] /\ k \in 1 .. n
    <2>1. \A k \in 1 .. m : k \in 1 .. n
      BY <1>1, <1>2
    <2> QED
      BY <1>2, <2>1, CutType
  <1>4. ASSUME NEW k \in 1 .. m, Clean(k)' PROVE Clean(k)
    BY <1>2, <1>3, <1>4 DEF Clean
  <1>5. log \in Seq(Entry) /\ Len(log) \in Nat /\ DOMAIN log = 1 .. Len(log)
          /\ \A i \in 1 .. Len(log) : log[i].id \in Nat
    BY OpenType DEF Entry
  <1>6. \A j, k \in 1 .. n : open[j].id \in Nat /\ (j < k => open[j].id < open[k].id)
    BY <1>1, OpenType DEF IdsOK, Scopes
  <1>7. PICK N \in 0 .. Len(log) :
          /\ m = n => N = Len(log)
          /\ m < n => /\ \A i \in 1 .. Len(log) : i <= N <=> log[i].id < open[m + 1].id
                      /\ Clean(m) => Agree(fixed, open[m + 1].defines, SubSeq(log, 1, N))
    <2>1. CASE m = n
      <3>1. Len(log) \in 0 .. Len(log) /\ ~(m < n)
        BY <1>2, <1>5, <2>1
      <3> QED
        BY <2>1, <3>1
    <2>2. CASE m # n
      <3>1. m + 1 \in 1 .. n /\ m + 1 > 1 /\ (m + 1) - 1 = m
        BY <1>1, <1>2, <2>2
      <3>2. \E N \in 0 .. Len(log) :
              /\ \A i \in DOMAIN log : i <= N <=> log[i].id < open[m + 1].id
              /\ m + 1 > 1 /\ Clean((m + 1) - 1) => Agree(fixed, open[m + 1].defines, SubSeq(log, 1, N))
        BY <1>1, <3>1 DEF LogOK
      <3> QED
        BY <1>5, <2>2, <3>1, <3>2
    <2> QED
      BY <2>1, <2>2
  <1>8. PICK S : S = {c \in Range(log) : \E i \in DOMAIN open' : open'[i].id = c.id}
    OBVIOUS
  <1>9. ASSUME NEW i \in 1 .. Len(log)
        PROVE  /\ log[i] \in S <=> \E k \in 1 .. m : log[i].id = open[k].id
               /\ log[i] \in S <=> i <= N
    <2>1. log[i] \in Range(log)
      BY <1>5 DEF Range
    <2>2. log[i] \in S <=> \E k \in 1 .. m : log[i].id = open[k].id
      BY <1>3, <1>8, <2>1
    <2>3. PICK k \in 1 .. n : log[i].id = open[k].id
      BY <1>1, <1>5 DEF LogOK
    <2>4. CASE m = n
      BY <1>5, <1>7, <2>2, <2>3, <2>4
    <2>5. CASE m # n
      <3>1. m < n /\ m + 1 \in 1 .. n
        BY <1>1, <1>2, <2>5
      <3>2. i <= N <=> log[i].id < open[m + 1].id
        BY <1>7, <3>1
      <3>3. ASSUME NEW j \in 1 .. m, log[i].id = open[j].id PROVE log[i].id < open[m + 1].id
        <4>1. j \in 1 .. n /\ j < m + 1
          BY <1>1, <1>2
        <4> QED
          BY <1>6, <3>1, <3>3, <4>1
      <3>4. ASSUME log[i].id < open[m + 1].id PROVE k \in 1 .. m
        <4>1. ~(k = m + 1) /\ ~(m + 1 < k)
          BY <1>1, <1>2, <1>6, <2>3, <3>1, <3>4
        <4> QED
          BY <1>1, <1>2, <4>1
      <3> QED
        BY <2>2, <2>3, <3>2, <3>3, <3>4
    <2> QED
      BY <2>2, <2>4, <2>5
  <1>10. log' = SubSeq(log, 1, N)
    <2>1. log' = Those(log, S)
      BY <1>8 DEF Forget
    <2> QED
      BY <1>5, <1>9, <2>1, ThosePrefix
  <1>11. log' \in Seq(Entry) /\ Len(log') = N /\ DOMAIN log' = 1 .. N
          /\ \A i \in 1 .. N : log'[i] = log[i] /\ i \in 1 .. Len(log)
    <2>1. log' \in Seq(Entry) /\ Len(log') = N /\ \A i \in 1 .. N : log'[i] = log[i]
      BY <1>5, <1>10, SubSeqProperties
    <2>2. \A i \in 1 .. N : i \in 1 .. Len(log)
      BY <1>5
    <2> QED
      BY <2>1, <2>2, LenProperties
  <1>12. PlaceOK'
    <2>1. ASSUME NEW k \in 2 .. m
          PROVE  /\ Clean(k - 1)' => open'[k].localdir = open'[k - 1].dir
                 /\ ~open'[k].within => open'[k].kind = "scope" /\ open'[k].dir = open'[k - 1].dir
      <3>1. k \in 1 .. m /\ k - 1 \in 1 .. m /\ k \in 2 .. n
        BY <1>1, <1>2
      <3>2. open'[k] = open[k] /\ open'[k - 1] = open[k - 1] /\ (Clean(k - 1)' => Clean(k - 1))
        BY <1>3, <1>4, <3>1
      <3> QED
        BY <1>1, <3>1, <3>2 DEF PlaceOK
    <2> QED
      BY <1>3, <2>1 DEF PlaceOK
  <1>13. LogOK'
    <2>1. \A i \in 1 .. N : \E k \in 1 .. m : log'[i].id = open'[k].id
      <3>1. \A i \in 1 .. N : i \in 1 .. Len(log) /\ i <= N /\ log'[i] = log[i]
        BY <1>11
      <3> QED
        BY <1>3, <1>9, <3>1, SMTT(30)
    <2>2. ASSUME NEW k \in 1 .. m
          PROVE  \E p \in 0 .. N :
                   /\ \A i \in 1 .. N : i <= p <=> log'[i].id < open'[k].id
                   /\ k > 1 /\ Clean(k - 1)' => Agree(fixed', open'[k].defines, SubSeq(log', 1, p))
      <3>1. open'[k] = open[k] /\ k \in 1 .. n
        BY <1>3
      <3>2. PICK p \in 0 .. Len(log) :
              /\ \A i \in 1 .. Len(log) : i <= p <=> log[i].id < open[k].id
              /\ k > 1 /\ Clean(k - 1) => Agree(fixed, open[k].defines, SubSeq(log, 1, p))
        BY <1>1, <1>5, <3>1 DEF LogOK
      <3>3. p <= N
        <4>1. CASE m = n
          BY <1>5, <1>7, <3>2, <4>1
        <4>2. CASE m # n
          <5>1. m < n /\ m + 1 \in 1 .. n /\ k < m + 1
            BY <1>1, <1>2, <4>2
          <5>2. open[k].id < open[m + 1].id
            BY <1>6, <3>1, <5>1
          <5>3. SUFFICES ASSUME N + 1 <= p PROVE FALSE
            BY <1>5, <3>2
          <5>4. N + 1 \in 1 .. Len(log)
            BY <1>5, <3>2, <5>3
          <5>5. log[N + 1].id < open[k].id /\ ~(N + 1 <= N)
            BY <1>5, <3>2, <5>3, <5>4
          <5>6. log[N + 1].id \in Nat /\ open[k].id \in Nat /\ open[m + 1].id \in Nat
            BY <1>5, <1>6, <3>1, <5>1, <5>4
          <5>7. log[N + 1].id < open[m + 1].id
            <6>1. \A x, y, z \in Nat : x < y /\ y < z => x < z
              OBVIOUS
            <6> QED
              BY <5>2, <5>5, <5>6, <6>1
          <5> QED
            BY <1>7, <5>1, <5>4, <5>5, <5>7
        <4> QED
          BY <4>1, <4>2
      <3>4. SubSeq(log', 1, p) = SubSeq(log, 1, p)
        BY <1>5, <1>10, <3>2, <3>3, SubSubSeq
      <3>5. k > 1 => (Clean(k - 1)' => Clean(k - 1))
        <4>1. k > 1 => k - 1 \in 1 .. m
          BY <1>2
        <4> QED
          BY <1>4, <4>1
      <3>6. \A i \in 1 .. N : i <= p <=> log'[i].id < open'[k].id
        BY <1>11, <3>1, <3>2
      <3>7. k > 1 /\ Clean(k - 1)' => Agree(fixed', open'[k].defines, SubSeq(log', 1, p))
        BY <3>1, <3>2, <3>4, <3>5
      <3>8. p \in 0 .. N
        BY <1>5, <3>2, <3>3
      <3> QED
        BY <3>6, <3>7, <3>8
    <2>3. \A i \in DOMAIN log' : \E k \in DOMAIN open' : log'[i].id = open'[k].id
      BY <1>3, <1>11, <2>1
    <2>4. ASSUME NEW k \in DOMAIN open'
          PROVE  \E p \in 0 .. Len(log') :
                   /\ \A i \in DOMAIN log' : i <= p <=> log'[i].id < open'[k].id
                   /\ k > 1 /\ Clean(k - 1)' => Agree(fixed', open'[k].defines, SubSeq(log', 1, p))
      BY <1>3, <1>11, <2>2
    <2> QED
      BY <2>3, <2>4 DEF LogOK
  <1>14. m = Len(open) => log' = log
    <2>1. m = Len(open) => N = Len(log)
      BY <1>1, <1>7
    <2> QED
      BY <1>5, <1>10, <2>1, SubSeqFull
  <1> QED
    BY <1>1, <1>7, <1>10, <1>11, <1>12, <1>13, <1>14

-----------------------------------------------------------------------------
(* Steps that leave what is open alone. *)

LEMMA StackSame ==
  ASSUME TypeOK, NestingOK, IdsOK, PlaceOK, LogOK, CurrentOK,
         UNCHANGED <<open, ids, escaped, log, defines, frame, fixed, localdir>>,
         pc' \in {pc, "failed", "done"}
  PROVE  NestingOK' /\ IdsOK' /\ PlaceOK' /\ LogOK' /\ CurrentOK'
  <1>1. \A k : Clean(k)' <=> Clean(k)
    BY DEF Clean
  <1>2. Here' = Here
    BY DEF Here, Last
  <1>3. NestingOK'
    BY <1>2 DEF NestingOK
  <1>4. IdsOK'
    BY DEF IdsOK
  <1>5. PlaceOK'
    BY <1>1 DEF PlaceOK
  <1>6. LogOK'
    BY <1>1 DEF LogOK
  <1>7. CurrentOK'
    <2>1. Clean(Len(open))' <=> Clean(Len(open))
      BY DEF Clean
    <2> QED
      BY <1>2, <2>1 DEF CurrentOK
  <1> QED
    BY <1>3, <1>4, <1>5, <1>6, <1>7

\* A command of the define family in the innermost scope.
LEMMA LogCommand ==
  ASSUME TypeOK, NestingOK, IdsOK, PlaceOK, LogOK, CurrentOK, pc = "body",
         UNCHANGED <<open, ids, escaped, localdir, pc>>,
         NEW c \in Entry, c.id = Here.id, log' = Append(log, c),
         frame' = defines', fixed \subseteq fixed',
         Agree(fixed, defines, log) => Agree(fixed', defines', Append(log, c))
  PROVE  NestingOK' /\ IdsOK' /\ PlaceOK' /\ LogOK' /\ CurrentOK'
  <1>1. \A k : Clean(k)' <=> Clean(k)
    BY DEF Clean
  <1>2. Here' = Here
    BY DEF Here, Last
  <1>3. NestingOK'
    BY <1>2 DEF NestingOK
  <1>4. IdsOK'
    BY DEF IdsOK
  <1>5. PlaceOK'
    BY <1>1 DEF PlaceOK
  <1>6. CurrentOK'
    <2>1. Clean(Len(open))' <=> Clean(Len(open))
      BY DEF Clean
    <2> QED
      BY <1>2, <2>1 DEF CurrentOK
  <1>7. LogOK'
    <2>1. PICK n \in Nat \ {0} : n = Len(open) /\ DOMAIN open = 1 .. n /\ Here = open[n]
      BY OpenType
    <2>2. log \in Seq(Entry) /\ Len(log) \in Nat /\ DOMAIN log = 1 .. Len(log)
      BY OpenType
    <2>3. log' \in Seq(Entry) /\ Len(log') = Len(log) + 1 /\ DOMAIN log' = 1 .. Len(log) + 1
            /\ log'[Len(log) + 1] = c /\ \A i \in 1 .. Len(log) : log'[i] = log[i]
      <3>1. log' \in Seq(Entry) /\ Len(log') = Len(log) + 1
              /\ log'[Len(log) + 1] = c /\ \A i \in 1 .. Len(log) : log'[i] = log[i]
        BY <2>2, AppendProperties
      <3> QED
        BY <3>1, LenProperties
    <2>4. \A j, k \in 1 .. n : open[j].id \in Nat /\ (j < k => open[j].id < open[k].id)
      BY <2>1, OpenType DEF IdsOK, Scopes
    <2>5. \A i \in 1 .. Len(log) + 1 : \E k \in 1 .. n : log'[i].id = open[k].id
      <3>1. \A i \in 1 .. Len(log) : \E k \in 1 .. n : log'[i].id = open[k].id
        BY <2>1, <2>2, <2>3 DEF LogOK
      <3>2. n \in 1 .. n /\ log'[Len(log) + 1].id = open[n].id
        BY <2>1, <2>3
      <3>3. \A i \in 1 .. Len(log) + 1 : i \in 1 .. Len(log) \/ i = Len(log) + 1
        BY <2>2
      <3> QED
        BY <3>1, <3>2, <3>3
    <2>6. ASSUME NEW k \in 1 .. n
          PROVE  \E p \in 0 .. Len(log) + 1 :
                   /\ \A i \in 1 .. Len(log) + 1 : i <= p <=> log'[i].id < open[k].id
                   /\ k > 1 /\ Clean(k - 1)' => Agree(fixed', open[k].defines, SubSeq(log', 1, p))
      <3>1. PICK p \in 0 .. Len(log) :
              /\ \A i \in 1 .. Len(log) : i <= p <=> log[i].id < open[k].id
              /\ k > 1 /\ Clean(k - 1) => Agree(fixed, open[k].defines, SubSeq(log, 1, p))
        BY <2>1, <2>2 DEF LogOK
      <3>2. ASSUME NEW i \in 1 .. Len(log) + 1 PROVE i <= p <=> log'[i].id < open[k].id
        <4>1. CASE i = Len(log) + 1
          <5>1. log'[i].id = open[n].id /\ n \in 1 .. n /\ (k = n \/ k < n)
            BY <2>1, <2>3, <4>1
          <5>2. ~(open[n].id < open[k].id)
            BY <2>4, <5>1
          <5> QED
            BY <2>2, <3>1, <4>1, <5>1, <5>2
        <4>2. CASE i # Len(log) + 1
          <5>1. i \in 1 .. Len(log)
            BY <2>2, <4>2
          <5> QED
            BY <2>3, <3>1, <5>1
        <4> QED
          BY <4>1, <4>2
      <3>3. SubSeq(log', 1, p) = SubSeq(log, 1, p)
        <4>1. p \in Nat /\ p <= Len(log) /\ Len(log) \in Nat /\ p \in 0 .. Len(log')
          BY <2>2, <2>3, <3>1
        <4>2. SubSeq(log', 1, p) \in Seq(Entry) /\ Len(SubSeq(log', 1, p)) = p
                /\ \A i \in 1 .. p : SubSeq(log', 1, p)[i] = log'[i]
          BY <2>3, <4>1, SubSeqProperties
        <4>3. SubSeq(log, 1, p) \in Seq(Entry) /\ Len(SubSeq(log, 1, p)) = p
                /\ \A i \in 1 .. p : SubSeq(log, 1, p)[i] = log[i]
          BY <2>2, <4>1, SubSeqProperties
        <4>4. \A i \in 1 .. p : i \in 1 .. Len(log)
          BY <4>1
        <4>5. \A i \in 1 .. p : SubSeq(log', 1, p)[i] = SubSeq(log, 1, p)[i]
          BY <2>3, <4>2, <4>3, <4>4
        <4> QED
          BY <4>2, <4>3, <4>5, SeqEqual
      <3>4. k > 1 /\ Clean(k - 1)' => Agree(fixed', open[k].defines, SubSeq(log', 1, p))
        <4>1. Clean(k - 1)' => Clean(k - 1)
          BY DEF Clean
        <4> QED
          BY <3>1, <3>3, <4>1, AgreeStays
      <3>5. p \in 0 .. Len(log) + 1
        BY <2>2, <3>1
      <3> QED
        BY <3>2, <3>4, <3>5
    <2>7. open' = open /\ DOMAIN open' = 1 .. n
      BY <2>1
    <2>8. \A i \in DOMAIN log' : \E k \in DOMAIN open' : log'[i].id = open'[k].id
      BY <2>3, <2>5, <2>7
    <2>9. \A k \in DOMAIN open' : \E p \in 0 .. Len(log') :
            /\ \A i \in DOMAIN log' : i <= p <=> log'[i].id < open'[k].id
            /\ k > 1 /\ Clean(k - 1)' => Agree(fixed', open'[k].defines, SubSeq(log', 1, p))
      BY <2>3, <2>6, <2>7
    <2> QED
      BY <2>8, <2>9 DEF LogOK
  <1> QED
    BY <1>3, <1>4, <1>5, <1>6, <1>7

\* What such a command does is what it does without scopes, to all but the
\* variables that were fixed in a scope that has ended.
LEMMA AgreeAfter ==
  ASSUME NEW l \in Seq(Entry), NEW c \in Entry, NEW F, NEW G, NEW d, NEW e, d \in [Vars -> Seq(Nat)],
         Agree(F, d, l),
         \/ c.op = "define!" /\ G = F \union {c.var} /\ e = [d EXCEPT ![c.var] = <<c.id>>]
         \/ c.op # "define!" /\ G = F /\ c.var \in F /\ e = d
         \/ c.op = "define" /\ G = F /\ c.var \notin F /\ e = [d EXCEPT ![c.var] = <<c.id>>]
         \/ c.op = "define?" /\ G = F /\ c.var \notin F /\ d[c.var] = <<>> /\ e = [d EXCEPT ![c.var] = <<c.id>>]
         \/ c.op = "define?" /\ G = F /\ d[c.var] # <<>> /\ e = d
         \/ c.op = "define-append" /\ G = F /\ c.var \notin F /\ e = [d EXCEPT ![c.var] = d[c.var] \o <<c.id>>]
  PROVE  Agree(G, e, Append(l, c))
  <1>1. PICK R \in Env : R = Replay(l)
    BY ReplayType
  <1>2. PICK Q : Q = Replay(Append(l, c)) /\ Q = Effect(R, c)
    BY <1>1, ReplayAppend
  <1>3. c.var \in Vars /\ c.op \in Ops
    BY DEF Entry
  <1>4. R.fixed \subseteq F /\ \A v \in Vars : (v \in F => v \in R.fixed) => d[v] = R.defines[v]
    BY <1>1 DEF Agree
  <1>5. R.defines \in [Vars -> Seq(Nat)] /\ R = [defines |-> R.defines, fixed |-> R.fixed]
    BY <1>1 DEF Env
  <1>6. Q.fixed \subseteq G /\ \A v \in Vars : (v \in G => v \in Q.fixed) => e[v] = Q.defines[v]
    <2>1. CASE c.op = "define!" /\ G = F \union {c.var} /\ e = [d EXCEPT ![c.var] = <<c.id>>]
      <3>1. Q.fixed = R.fixed \union {c.var} /\ Q.defines = [R.defines EXCEPT ![c.var] = <<c.id>>]
        BY <1>2, <1>5, <2>1 DEF Effect
      <3> QED
        BY <1>3, <1>4, <1>5, <2>1, <3>1
    <2>2. CASE c.op # "define!" /\ G = F /\ c.var \in F /\ e = d
      <3>1. c.var \in R.fixed => Q = R
        BY <1>2, <1>3, <2>2 DEF Effect, Ops
      <3>2. Q.fixed = R.fixed /\ \A v \in Vars : v # c.var => Q.defines[v] = R.defines[v]
        BY <1>2, <1>3, <1>5, <2>2 DEF Effect, Ops
      <3> QED
        BY <1>3, <1>4, <2>2, <3>1, <3>2
    <2>3. CASE c.op = "define" /\ G = F /\ c.var \notin F /\ e = [d EXCEPT ![c.var] = <<c.id>>]
      <3>1. Q.fixed = R.fixed /\ Q.defines = [R.defines EXCEPT ![c.var] = <<c.id>>]
        BY <1>2, <1>4, <1>5, <2>3 DEF Effect
      <3> QED
        BY <1>3, <1>4, <1>5, <2>3, <3>1
    <2>4. CASE c.op = "define?" /\ G = F /\ c.var \notin F /\ d[c.var] = <<>> /\ e = [d EXCEPT ![c.var] = <<c.id>>]
      <3>1. R.defines[c.var] = <<>>
        BY <1>3, <1>4, <2>4
      <3>2. Q.fixed = R.fixed /\ Q.defines = [R.defines EXCEPT ![c.var] = <<c.id>>]
        BY <1>2, <1>4, <1>5, <2>4, <3>1 DEF Effect
      <3> QED
        BY <1>3, <1>4, <1>5, <2>4, <3>2
    <2>5. CASE c.op = "define?" /\ G = F /\ d[c.var] # <<>> /\ e = d
      <3>1. CASE c.var \in F /\ c.var \notin R.fixed
        <4>1. Q.fixed = R.fixed /\ \A v \in Vars : v # c.var => Q.defines[v] = R.defines[v]
          BY <1>2, <1>3, <1>5, <2>5 DEF Effect, Ops
        <4> QED
          BY <1>3, <1>4, <2>5, <3>1, <4>1
      <3>2. CASE ~(c.var \in F /\ c.var \notin R.fixed)
        <4>1. R.defines[c.var] # <<>>
          BY <1>3, <1>4, <2>5, <3>2
        <4>2. Q = R
          BY <1>2, <2>5, <4>1 DEF Effect
        <4> QED
          BY <1>4, <2>5, <4>2
      <3> QED
        BY <3>1, <3>2
    <2>6. CASE c.op = "define-append" /\ G = F /\ c.var \notin F /\ e = [d EXCEPT ![c.var] = d[c.var] \o <<c.id>>]
      <3>1. R.defines[c.var] = d[c.var]
        BY <1>3, <1>4, <2>6
      <3>2. Q.fixed = R.fixed /\ Q.defines = [R.defines EXCEPT ![c.var] = d[c.var] \o <<c.id>>]
        BY <1>2, <1>4, <1>5, <2>6, <3>1 DEF Effect
      <3> QED
        BY <1>3, <1>4, <1>5, <2>6, <3>2
    <2> QED
      BY <2>1, <2>2, <2>3, <2>4, <2>5, <2>6
  <1> QED
    BY <1>2, <1>6 DEF Agree

-----------------------------------------------------------------------------
(* The actions, and the stack. *)

\* The commands of the define family.
LEMMA DefineType ==
  ASSUME TypeOK, StackOK, pc = "body", count < MaxCommands, count' = count + 1,
         UNCHANGED <<uses, pc, rc, erred, place, walk, base>>,
         NEW op \in Ops, NEW v \in Vars, log' = Append(log, [id |-> Here.id, op |-> op, var |-> v]),
         frame' = defines', fixed' \in {fixed, fixed \union {v}},
         \E value \in Seq(Nat) : defines' \in {defines, [defines EXCEPT ![v] = value]}
  PROVE  TypeOK'
  <1>1. defines' \in [Vars -> Seq(Nat)] /\ frame' \in [Vars -> Seq(Nat)] /\ fixed' \subseteq Vars
    BY DEF TypeOK
  <1>2. log' \in Seq(Entry)
    <2>1. [id |-> Here.id, op |-> op, var |-> v] \in Entry
      BY OpenType DEF StackOK, Entry, Scopes
    <2> QED
      BY <2>1, OpenType, AppendProperties DEF StackOK
  <1>3. count' \in 0 .. MaxCommands
    BY DescriptionsAssumption DEF TypeOK
  <1> QED
    BY <1>1, <1>2, <1>3 DEF TypeOK, Entry, place, walk, base

LEMMA DefineStep ==
  ASSUME TypeOK, StackOK, NEW v \in Vars,
         Define(v) \/ DefineFixed(v) \/ DefineDefault(v) \/ DefineAppend(v)
  PROVE  TypeOK' /\ StackOK'
  <1>1. /\ pc = "body" /\ count < MaxCommands /\ count' = count + 1
        /\ UNCHANGED <<uses, pc, rc, erred, place, walk, base>>
    BY DEF Define, DefineFixed, DefineDefault, DefineAppend, Command
  <1>2. UNCHANGED <<open, ids, escaped, localdir>>
    BY <1>1 DEF place
  <1>3. Here.id \in Nat /\ frame = defines /\ defines \in [Vars -> Seq(Nat)] /\ log \in Seq(Entry)
    BY <1>1, OpenType DEF StackOK, CurrentOK, TypeOK, Scopes
  <1>4. PICK mine \in Seq(Nat) : mine = <<Here.id>>
    <2>1. \A n \in Nat : <<n>> \in Seq(Nat)
      OBVIOUS
    <2> QED
      BY <1>3, <2>1
  <1>5. \E op \in Ops : \E value \in Seq(Nat) :
           LET c == [id |-> Here.id, op |-> op, var |-> v] IN
           /\ log' = Append(log, c)
           /\ frame' = defines' /\ defines' \in {defines, [defines EXCEPT ![v] = value]}
           /\ fixed' \in {fixed, fixed \union {v}}
           /\ Agree(fixed, defines, log) => Agree(fixed', defines', Append(log, c))
    <2>1. CASE Define(v)
      <3>1. PICK c \in Entry : c = [id |-> Here.id, op |-> "define", var |-> v]
        BY <1>3 DEF Entry, Ops
      <3>2. log' = Append(log, c) /\ fixed' = fixed
        BY <2>1, <3>1 DEF Define, Logged
      <3>3. \/ v \in fixed /\ defines' = defines /\ frame' = frame
            \/ v \notin fixed /\ defines' = [defines EXCEPT ![v] = mine] /\ frame' = [frame EXCEPT ![v] = mine]
        BY <1>4, <2>1 DEF Define, DefineVar, Mine
      <3>4. c.op = "define" /\ c.var = v /\ mine = <<c.id>>
        BY <1>4, <3>1
      <3>5. Agree(fixed, defines, log) => Agree(fixed', defines', Append(log, c))
        BY <1>3, <3>2, <3>3, <3>4, AgreeAfter
      <3>6. frame' = defines' /\ defines' \in {defines, [defines EXCEPT ![v] = mine]} /\ "define" \in Ops
        BY <1>3, <3>3 DEF Ops
      <3> QED
        BY <3>1, <3>2, <3>5, <3>6
    <2>2. CASE DefineFixed(v)
      <3>1. PICK c \in Entry : c = [id |-> Here.id, op |-> "define!", var |-> v]
        BY <1>3 DEF Entry, Ops
      <3>2. log' = Append(log, c) /\ fixed' = fixed \union {v}
        BY <2>2, <3>1 DEF DefineFixed, Logged
      <3>3. defines' = [defines EXCEPT ![v] = mine] /\ frame' = [frame EXCEPT ![v] = mine]
        BY <1>4, <2>2 DEF DefineFixed, DefineVar, Mine
      <3>4. c.op = "define!" /\ c.var = v /\ mine = <<c.id>>
        BY <1>4, <3>1
      <3>5. Agree(fixed, defines, log) => Agree(fixed', defines', Append(log, c))
        BY <1>3, <3>2, <3>3, <3>4, AgreeAfter
      <3>6. frame' = defines' /\ defines' \in {defines, [defines EXCEPT ![v] = mine]} /\ "define!" \in Ops
        BY <1>3, <3>3 DEF Ops
      <3> QED
        BY <3>1, <3>2, <3>5, <3>6
    <2>3. CASE DefineDefault(v)
      <3>1. PICK c \in Entry : c = [id |-> Here.id, op |-> "define?", var |-> v]
        BY <1>3 DEF Entry, Ops
      <3>2. log' = Append(log, c) /\ fixed' = fixed
        BY <2>3, <3>1 DEF DefineDefault, Logged
      <3>3. \/ v \in fixed /\ defines' = defines /\ frame' = frame
            \/ defines[v] # <<>> /\ defines' = defines /\ frame' = frame
            \/ /\ v \notin fixed /\ defines[v] = <<>>
               /\ defines' = [defines EXCEPT ![v] = mine] /\ frame' = [frame EXCEPT ![v] = mine]
        BY <1>4, <2>3 DEF DefineDefault, DefineVar, Mine
      <3>4. c.op = "define?" /\ c.var = v /\ mine = <<c.id>>
        BY <1>4, <3>1
      <3>5. Agree(fixed, defines, log) => Agree(fixed', defines', Append(log, c))
        BY <1>3, <3>2, <3>3, <3>4, AgreeAfter
      <3>6. frame' = defines' /\ defines' \in {defines, [defines EXCEPT ![v] = mine]} /\ "define?" \in Ops
        BY <1>3, <3>3 DEF Ops
      <3> QED
        BY <3>1, <3>2, <3>5, <3>6
    <2>4. CASE DefineAppend(v)
      <3>1. PICK c \in Entry : c = [id |-> Here.id, op |-> "define-append", var |-> v]
        BY <1>3 DEF Entry, Ops
      <3>2. log' = Append(log, c) /\ fixed' = fixed
        BY <2>4, <3>1 DEF DefineAppend, Logged
      <3>3. PICK value \in Seq(Nat) : value = defines[v] \o mine
        BY <1>3, <1>4, ConcatProperties
      <3>4. \/ v \in fixed /\ defines' = defines /\ frame' = frame
            \/ v \notin fixed /\ defines' = [defines EXCEPT ![v] = value] /\ frame' = [frame EXCEPT ![v] = value]
        BY <1>4, <2>4, <3>3 DEF DefineAppend, DefineVar, Mine
      <3>5. c.op = "define-append" /\ c.var = v /\ value = defines[v] \o <<c.id>>
        BY <1>4, <3>1, <3>3
      <3>6. Agree(fixed, defines, log) => Agree(fixed', defines', Append(log, c))
        BY <1>3, <3>2, <3>4, <3>5, AgreeAfter
      <3>7. frame' = defines' /\ defines' \in {defines, [defines EXCEPT ![v] = value]} /\ "define-append" \in Ops
        BY <1>3, <3>4 DEF Ops
      <3> QED
        BY <3>1, <3>2, <3>6, <3>7
    <2> QED
      BY <2>1, <2>2, <2>3, <2>4
  <1>6. PICK op \in Ops, value \in Seq(Nat), c \in Entry :
           /\ c = [id |-> Here.id, op |-> op, var |-> v]
           /\ log' = Append(log, c)
           /\ frame' = defines' /\ defines' \in {defines, [defines EXCEPT ![v] = value]}
           /\ fixed' \in {fixed, fixed \union {v}}
           /\ Agree(fixed, defines, log) => Agree(fixed', defines', Append(log, c))
    BY <1>3, <1>5 DEF Entry
  <1>7. TypeOK'
    BY <1>1, <1>6, DefineType
  <1>8. StackOK'
    BY <1>1, <1>2, <1>6, LogCommand DEF StackOK
  <1> QED
    BY <1>7, <1>8

\* Commands that are not about scopes.
LEMMA OtherStep ==
  ASSUME TypeOK, StackOK,
         \/ \E d \in Dirs : SubDirs(d)
         \/ \E onoff \in BOOLEAN : AutoSubDirs(onoff)
         \/ \E t \in Shared, decl \in Decls : Declare(t, decl)
         \/ Finish \/ UNCHANGED vars
  PROVE  TypeOK' /\ StackOK'
  <1>1. UNCHANGED <<open, ids, escaped, log, defines, frame, fixed, localdir>> /\ pc' \in {pc, "failed", "done"}
    BY DEF SubDirs, AutoSubDirs, Declare, Finish, Command, scope, place, vars, control, walk, base
  <1>2. StackOK'
    BY <1>1, StackSame DEF StackOK
  <1>3. count \in Nat /\ MaxCommands \in Nat /\ \A n \in 0 .. MaxCommands : n < MaxCommands => n + 1 \in 0 .. MaxCommands
    BY DescriptionsAssumption DEF TypeOK
  <1>4. TypeOK'
    <2>1. CASE \E d \in Dirs : SubDirs(d)
      <3>1. PICK d \in Dirs : SubDirs(d)
        BY <2>1
      <3>2. subdirs' \in Seq(Dirs)
        BY <3>1, AppendProperties DEF SubDirs, TypeOK
      <3>3. nested' \in BOOLEAN
        BY <3>1 DEF SubDirs, TypeOK
      <3>4. count' \in 0 .. MaxCommands
        BY <1>3, <3>1 DEF SubDirs, TypeOK, Command
      <3> QED
        BY <3>1, <3>2, <3>3, <3>4 DEF SubDirs, TypeOK, Command, scope, place, base
    <2>2. CASE \E onoff \in BOOLEAN : AutoSubDirs(onoff)
      <3>1. PICK onoff \in BOOLEAN : AutoSubDirs(onoff)
        BY <2>2
      <3>2. count' \in 0 .. MaxCommands
        BY <1>3, <3>1 DEF AutoSubDirs, TypeOK, Command
      <3> QED
        BY <3>1, <3>2 DEF AutoSubDirs, TypeOK, Command, scope, place, base
    <2>3. CASE \E t \in Shared, decl \in Decls : Declare(t, decl)
      <3>1. PICK t \in Shared, decl \in Decls : Declare(t, decl)
        BY <2>3
      <3>2. count' \in 0 .. MaxCommands
        BY <1>3, <3>1 DEF Declare, TypeOK
      <3>3. declared' \in [Shared -> Seq(Decls)]
        <4>1. Append(declared[t], decl) \in Seq(Decls)
          BY AppendProperties DEF TypeOK
        <4>2. declared' = declared \/ declared' = [declared EXCEPT ![t] = Append(declared[t], decl)]
          BY <3>1 DEF Declare, base
        <4> QED
          BY <4>1, <4>2 DEF TypeOK
      <3>4. pc' \in {pc, "failed"} /\ erred' \in {erred, TRUE}
        BY <3>1 DEF Declare
      <3> QED
        BY <3>1, <3>2, <3>3, <3>4 DEF Declare, TypeOK, scope, place, walk
    <2>4. CASE Finish
      BY <2>4 DEF Finish, TypeOK, scope, place, walk, base
    <2>5. CASE UNCHANGED vars
      BY <2>5 DEF TypeOK, vars, scope, place, walk, base, control
    <2> QED
      BY <2>1, <2>2, <2>3, <2>4, <2>5
  <1> QED
    BY <1>2, <1>4

\* Scopes, virtual subdirectories and build.spec files begin.
LEMMA BeginStep ==
  ASSUME TypeOK, StackOK,
         \/ \E dir \in ScopeDirs : OpenScope(dir)
         \/ \E d \in Dirs : VirtualSubDir(d)
         \/ ReadSpec
  PROVE  TypeOK' /\ StackOK'
  <1>1. count \in Nat /\ MaxCommands \in Nat /\ \A n \in 0 .. MaxCommands : n < MaxCommands => n + 1 \in 0 .. MaxCommands
    BY DescriptionsAssumption DEF TypeOK
  <1>2. CASE \E dir \in ScopeDirs : OpenScope(dir)
    <2>1. PICK dir \in ScopeDirs : OpenScope(dir)
      BY <1>2
    <2>2. dir \in Dirs \union {None} /\ Enter("scope", dir)
      BY <2>1, DescriptionsAssumption DEF OpenScope
    <2>3. /\ pc = "body" /\ pc' = "body" /\ escaped' = escaped /\ log' = log /\ fixed' = fixed
          /\ defines' = defines /\ frame' = frame
      BY <2>1 DEF OpenScope, Command, scope
    <2>4. frame' = defines
      BY <2>3 DEF StackOK, CurrentOK
    <2>5. StackOK'
      BY <2>2, <2>3, <2>4, PushNesting, PushSaved DEF StackOK
    <2>6. open' \in Seq(Scopes) /\ ids' \in Nat /\ localdir' \in Dirs
      BY <2>2, PushType DEF StackOK
    <2>7. count' \in 0 .. MaxCommands
      BY <1>1, <2>1 DEF OpenScope, TypeOK, Command
    <2>8. TypeOK'
      BY <2>1, <2>3, <2>6, <2>7 DEF OpenScope, Command, TypeOK, Scopes, scope, walk, base
    <2> QED
      BY <2>5, <2>8
  <1>3. CASE \E d \in Dirs : VirtualSubDir(d)
    <2>1. PICK d \in Dirs : VirtualSubDir(d)
      BY <1>3
    <2>2. d \in Virtual /\ pc = "body" /\ pc' = "body"
      BY <2>1 DEF VirtualSubDir, Command
    <2>3. count' \in 0 .. MaxCommands
      BY <1>1, <2>1 DEF VirtualSubDir, TypeOK, Command
    <2>4. CASE Parent[d] \in skip
      <3>1. /\ UNCHANGED <<open, ids, escaped, log, defines, frame, fixed, localdir>>
            /\ skip' = skip \union {d} /\ UNCHANGED <<scope, place, base, entered>>
        BY <2>1, <2>4 DEF VirtualSubDir, scope, place
      <3>2. StackOK'
        BY <2>2, <3>1, StackSame DEF StackOK
      <3>3. TypeOK'
        BY <2>1, <2>2, <2>3, <3>1 DEF VirtualSubDir, Command, TypeOK, scope, place, base
      <3> QED
        BY <3>2, <3>3
    <2>5. CASE Parent[d] \notin skip
      <3>1. Begin("virtual", d) /\ UNCHANGED skip
        BY <2>1, <2>5 DEF VirtualSubDir
      <3>2. /\ Enter("virtual", d) /\ escaped' = escaped /\ log' = log /\ fixed' = fixed
            /\ defines' = defines /\ frame' = defines /\ d # None
        BY <3>1, DescriptionsAssumption DEF Begin
      <3>3. StackOK'
        BY <2>2, <3>2, PushNesting, PushSaved DEF StackOK
      <3>4. open' \in Seq(Scopes) /\ ids' \in Nat /\ localdir' \in Dirs
        BY <3>2, PushType DEF StackOK
      <3>5. entered' \subseteq Dirs
        BY <3>1 DEF Begin, TypeOK
      <3>6. TypeOK'
        BY <2>1, <2>2, <2>3, <3>1, <3>2, <3>4, <3>5 DEF VirtualSubDir, Command, Begin, TypeOK, Scopes
      <3> QED
        BY <3>3, <3>6
    <2> QED
      BY <2>4, <2>5
  <1>4. CASE ReadSpec
    <2>1. /\ pc = "walk" /\ pc' = "body" /\ todo # <<>> /\ Begin("spec", Head(todo)) /\ todo' = Tail(todo)
          /\ UNCHANGED <<subdirs, auto, skip, listed, nested, uses, rc, count, erred>>
      BY <1>4 DEF ReadSpec
    <2>2. PICK d \in Dirs : d = Head(todo)
      BY <2>1, HeadTailProperties DEF TypeOK
    <2>3. todo' \in Seq(Dirs)
      BY <2>1, HeadTailProperties DEF TypeOK
    <2>4. /\ Enter("spec", d) /\ escaped' = escaped /\ log' = log /\ fixed' = fixed
          /\ defines' = defines /\ frame' = defines /\ d # None
          /\ entered' = entered \union {d} /\ declared' = declared
      BY <2>1, <2>2, DescriptionsAssumption DEF Begin
    <2>5. Len(open) = 1
      BY <2>1 DEF StackOK, NestingOK
    <2>6. StackOK'
      BY <2>1, <2>4, <2>5, PushNesting, PushSaved DEF StackOK
    <2>7. open' \in Seq(Scopes) /\ ids' \in Nat /\ localdir' \in Dirs
      BY <2>4, PushType DEF StackOK
    <2>8. TypeOK'
      BY <2>1, <2>3, <2>4, <2>7 DEF TypeOK, Scopes
    <2> QED
      BY <2>6, <2>8
  <1> QED
    BY <1>2, <1>3, <1>4

\* A scope or description is left as it should be.
LEMMA LeaveSaved ==
  ASSUME TypeOK, StackOK, Len(open) > 1, Leave(Front(open), Here), Forget(open'), ids' = ids, fixed' = fixed,
         Here.kind = "scope" => pc = "body" /\ escaped' = escaped,
         Here.kind # "scope" => escaped' = escaped \ {Here.id},
         pc' \in {"body", "walk", "failed"}, pc' = "walk" => Len(open) = 2
  PROVE  /\ StackOK' /\ log' \in Seq(Entry) /\ open' \in Seq(Scopes)
         /\ defines' \in [Vars -> Seq(Nat)] /\ frame' \in [Vars -> Seq(Nat)] /\ localdir' \in Dirs
  <1>1. PICK n \in Nat \ {0} : n = Len(open) /\ DOMAIN open = 1 .. n /\ Here = open[n]
    BY OpenType DEF StackOK
  <1>2. PICK m \in 1 .. n : m = n - 1 /\ m + 1 = n /\ m \in 0 .. Len(open) /\ m \in 1 .. Len(open) /\ m < n
    BY <1>1
  <1>3. open' = SubSeq(open, 1, m)
    BY <1>1, <1>2, FrontIsCut DEF Leave, StackOK
  <1>4. Here \in Scopes
    BY OpenType DEF StackOK
  <1>5. /\ open' \in Seq(Scopes) /\ Len(open') = m /\ \A k \in 1 .. m : open'[k] = open[k]
    BY <1>2, <1>3, CutType DEF StackOK
  <1>6. Here' = open[m]
    <2>1. m \in 1 .. m
      BY <1>2
    <2> QED
      BY <1>5, <2>1 DEF Here, Last
  <1>7. \A j, k \in 1 .. n : open[j].id \in Nat /\ (j < k => open[j].id < open[k].id)
    BY <1>1, OpenType DEF StackOK, IdsOK, Scopes
  <1>8. \A k \in 1 .. m : open[k].id # Here.id
    <2>1. \A k \in 1 .. m : k \in 1 .. n /\ k < n
      BY <1>1, <1>2
    <2> QED
      BY <1>1, <1>7, <2>1
  <1>9. \A k \in 1 .. m : open[k].id \in escaped => open[k].id \in escaped'
    BY <1>8
  <1>10. escaped' \subseteq escaped
    OBVIOUS
  <1>11. NestingOK' /\ IdsOK'
    <2>1. pc' # "epilog" /\ (pc' = "walk" => m = 1)
      BY <1>1, <1>2
    <2> QED
      BY <1>2, <1>3, <1>10, <2>1, CutNesting DEF StackOK
  <1>12. /\ PlaceOK' /\ LogOK' /\ log' \in Seq(Entry)
         /\ Clean(m) => Agree(fixed, open[m + 1].defines, log')
    BY <1>1, <1>2, <1>3, <1>9, CutSaved DEF StackOK
  <1>13. Clean(m)' => Clean(m)
    <2>1. \A k \in 1 .. m : open'[k] = open[k] /\ (open[k].id \in escaped => open[k].id \in escaped')
      BY <1>5, <1>9
    <2> QED
      BY <2>1 DEF Clean
  <1>14. defines' = Here.defines /\ frame' = Here.defines
           /\ localdir' = IF Here.within THEN Here.localdir ELSE localdir
    BY DEF Leave
  <1>15. ASSUME Clean(m)' PROVE localdir' = Here'.dir /\ Agree(fixed', defines', log')
    <2>1. Clean(m)
      BY <1>13, <1>15
    <2>2. Agree(fixed', defines', log')
      BY <1>1, <1>2, <1>12, <1>14, <2>1
    <2>3. n \in 2 .. Len(open) /\ n - 1 = m
      BY <1>1, <1>2
    <2>4. /\ Here.localdir = open[m].dir
          /\ ~Here.within => Here.kind = "scope" /\ Here.dir = open[m].dir
      BY <1>1, <2>1, <2>3 DEF StackOK, PlaceOK
    <2>5. CASE Here.within
      BY <1>6, <1>14, <2>2, <2>4, <2>5
    <2>6. CASE ~Here.within
      <3>1. Here.kind = "scope" /\ pc = "body" /\ escaped' = escaped
        BY <2>4, <2>6
      <3>2. Here.id \notin escaped
        BY <1>1, <3>1 DEF StackOK, IdsOK
      <3>3. Clean(n)
        <4>1. \A k \in 1 .. n : k \in 1 .. m \/ k = n
          BY <1>1, <1>2
        <4> QED
          BY <1>1, <2>1, <3>2, <4>1 DEF Clean
      <3>4. localdir = Here.dir
        BY <1>1, <3>1, <3>3 DEF StackOK, CurrentOK
      <3> QED
        BY <1>6, <1>14, <2>2, <2>4, <2>6, <3>4
    <2> QED
      BY <2>5, <2>6
  <1>16. CurrentOK'
    <2>1. Len(open') = m /\ frame' = defines'
      BY <1>5, <1>14
    <2> QED
      BY <1>15, <2>1 DEF CurrentOK
  <1>17. defines' \in [Vars -> Seq(Nat)] /\ frame' \in [Vars -> Seq(Nat)] /\ localdir' \in Dirs
    BY <1>4, <1>14 DEF Scopes, TypeOK
  <1> QED
    BY <1>5, <1>11, <1>12, <1>16, <1>17 DEF StackOK

LEMMA OpenLength ==
  ASSUME TypeOK, StackOK
  PROVE  Len(open) \in Nat \ {0} /\ DOMAIN open = 1 .. Len(open) /\ Here = open[Len(open)]
  BY OpenType DEF StackOK

\* A description ends; scopes that it is in stay undone until its epilog.
LEMMA EndsStep ==
  ASSUME TypeOK, StackOK, NEW m \in 1 .. Len(open), NEW s, s = SubSeq(open, 1, m),
         NEW result \in {"ok", "skip", "error"}, Ends(result, s),
         UNCHANGED <<ids, fixed, defines, frame, localdir>>,
         result = "error" \/ (pc = "body" /\ m = Len(open))
  PROVE  /\ StackOK' /\ log' \in Seq(Entry) /\ open' \in Seq(Scopes) /\ escaped' \subseteq Nat
         /\ pc' \in {"epilog", "failed", "walk"} /\ rc' = result /\ erred' \in BOOLEAN
  <1>1. PICK n \in Nat \ {0} : n = Len(open) /\ DOMAIN open = 1 .. n /\ Here = open[n] /\ m \in Nat /\ m <= n
    <2>1. Len(open) \in Nat \ {0} /\ DOMAIN open = 1 .. Len(open) /\ Here = open[Len(open)]
      BY OpenLength
    <2>2. m \in Nat /\ m <= Len(open)
      <3>1. Len(open) \in Nat
        BY <2>1
      <3>2. \A x \in Nat : m \in 1 .. x => m \in Nat /\ m <= x
        OBVIOUS
      <3> QED
        BY <3>1, <3>2
    <2> QED
      BY <2>1, <2>2
  <1>2. PICK k : k = Innermost(s)
    OBVIOUS
  <1>3. /\ k \in 1 .. m /\ open[k].kind # "scope" /\ \A i \in k + 1 .. m : open[i].kind = "scope"
        /\ SubSeq(s, 1, k) = SubSeq(open, 1, k)
    BY <1>2, InnermostIs DEF StackOK
  <1>4. k \in Nat /\ k \in 1 .. n /\ k \in 0 .. Len(open) /\ k \in 1 .. Len(open)
    BY <1>1, <1>3
  <1>5. Len(s) = m /\ s[k] = open[k]
    <2>1. m \in 0 .. Len(open)
      BY <1>1
    <2> QED
      BY <1>3, <2>1, CutType DEF StackOK
  <1>6. /\ rc' = result /\ erred' = (erred \/ result = "error")
        /\ pc' = (IF open[k].kind # "project" THEN "epilog" ELSE IF result = "error" THEN "failed" ELSE "walk")
        /\ open' = SubSeq(open, 1, k)
        /\ escaped' = (IF k < m THEN escaped \union {open[k].id} ELSE escaped)
        /\ Forget(open')
    BY <1>2, <1>3, <1>5 DEF Ends
  <1>7. open[k] \in Scopes /\ (open[k].kind = "project" => k = 1)
    BY <1>1, <1>4, OpenType DEF StackOK, NestingOK
  <1>8. open' \in Seq(Scopes) /\ Len(open') = k /\ \A i \in 1 .. k : open'[i] = open[i]
    BY <1>4, <1>6, CutType DEF StackOK
  <1>9. NestingOK' /\ IdsOK'
    <2>1. \A id \in escaped' : id \in escaped
             \/ \E i \in 1 .. Len(open) : open[i].kind # "scope" /\ open[i].id = id
      BY <1>3, <1>4, <1>6
    <2>2. pc' = "epilog" => open[k].kind \in {"spec", "virtual"}
      BY <1>3, <1>6, <1>7 DEF Scopes
    <2>3. pc' = "walk" => k = 1
      BY <1>6, <1>7
    <2> QED
      BY <1>4, <1>6, <2>1, <2>2, <2>3, CutNesting DEF StackOK
  <1>10. /\ PlaceOK' /\ LogOK' /\ log' \in Seq(Entry) /\ (k = Len(open) => log' = log)
    <2>1. \A i \in 1 .. k : open[i].id \in escaped => open[i].id \in escaped'
      BY <1>6
    <2> QED
      BY <1>4, <1>6, <2>1, CutSaved DEF StackOK
  <1>11. CurrentOK'
    <2>1. pc' # "body"
      BY <1>6
    <2>2. ASSUME pc' = "walk", Clean(k)' PROVE localdir' = Here'.dir /\ Agree(fixed', defines', log')
      <3>1. result # "error" /\ m = n /\ pc = "body"
        BY <1>1, <1>6, <2>2
      <3>2. k = n
        <4>1. CASE k < m
          <5>1. k \in 1 .. k /\ open'[k].id \in escaped'
            BY <1>4, <1>6, <1>8, <4>1
          <5> QED
            BY <2>2, <5>1 DEF Clean
        <4> QED
          BY <1>1, <1>3, <3>1, <4>1
      <3>3. escaped' = escaped /\ log' = log /\ Here' = Here
        <4>1. escaped' = escaped /\ log' = log
          BY <1>1, <1>6, <1>10, <3>1, <3>2
        <4>2. k \in 1 .. k /\ open'[k] = open[k]
          BY <1>4, <1>8
        <4>3. Here' = open'[k]
          BY <1>8 DEF Here, Last
        <4> QED
          BY <1>1, <3>2, <4>1, <4>2, <4>3
      <3>4. Clean(n)
        <4>1. \A i \in 1 .. n : open'[i] = open[i]
          BY <1>8, <3>2
        <4> QED
          BY <2>2, <3>2, <3>3, <4>1 DEF Clean
      <3> QED
        BY <1>1, <3>1, <3>3, <3>4 DEF StackOK, CurrentOK
    <2> QED
      BY <1>8, <2>1, <2>2 DEF CurrentOK
  <1>12. escaped' \subseteq Nat /\ erred' \in BOOLEAN
    BY <1>6, <1>7 DEF TypeOK, Scopes
  <1> QED
    BY <1>6, <1>8, <1>9, <1>10, <1>11, <1>12 DEF StackOK

\* The outermost is project.spec, which is no scope, virtual directory or build.spec.
LEMMA InnerOpen ==
  ASSUME TypeOK, StackOK, Here.kind # "project"
  PROVE  Len(open) > 1
  <1>1. PICK n \in Nat \ {0} : n = Len(open) /\ Here = open[n] /\ (n = 1 => open[n].kind = "project")
    BY OpenType DEF StackOK, NestingOK
  <1> QED
    BY <1>1

LEMMA ReturnStep ==
  ASSUME TypeOK, StackOK, ReturnFromScope
  PROVE  StackOK' /\ log' \in Seq(Entry) /\ open' \in Seq(Scopes) /\ escaped' \subseteq Nat
  <1>1. PICK n \in Nat \ {0} : n = Len(open) /\ DOMAIN open = 1 .. n /\ Here = open[n]
    BY OpenType DEF StackOK
  <1>2. Here.kind = "scope" /\ Len(open) > 1
    BY InnerOpen DEF ReturnFromScope
  <1>3. PICK m \in 1 .. n : m = n - 1 /\ m + 1 = n /\ m \in 0 .. Len(open) /\ m \in 1 .. Len(open) /\ m < n
    BY <1>1, <1>2
  <1>4. open' = SubSeq(open, 1, m)
    BY <1>1, <1>3, FrontIsCut DEF ReturnFromScope, StackOK
  <1>5. PICK k : k = Innermost(open)
    OBVIOUS
  <1>6. k \in 1 .. n /\ open[k].kind # "scope"
    <2>1. open \in Seq(Scopes) /\ SubSeq(open, 1, n) = open /\ n \in 1 .. Len(open)
      BY <1>1, OpenType, SubSeqFull DEF StackOK
    <2> QED
      BY <1>1, <1>5, <2>1, InnermostIs DEF StackOK
  <1>7. k \in 1 .. m /\ open[k] \in Scopes
    BY <1>1, <1>2, <1>3, <1>6, OpenType DEF StackOK
  <1>8. /\ escaped' = escaped \union {open[k].id} /\ pc = "body" /\ pc' = "body" /\ Forget(open')
        /\ UNCHANGED <<defines, fixed, frame, localdir, ids>>
    BY <1>5 DEF ReturnFromScope, control
  <1>9. open' \in Seq(Scopes) /\ Len(open') = m /\ \A i \in 1 .. m : open'[i] = open[i]
    BY <1>3, <1>4, CutType DEF StackOK
  <1>10. NestingOK' /\ IdsOK'
    <2>1. \A id \in escaped' : id \in escaped
             \/ \E i \in 1 .. Len(open) : open[i].kind # "scope" /\ open[i].id = id
      BY <1>1, <1>6, <1>8
    <2> QED
      BY <1>3, <1>4, <1>8, <2>1, CutNesting DEF StackOK
  <1>11. PlaceOK' /\ LogOK' /\ log' \in Seq(Entry)
    BY <1>3, <1>4, <1>8, CutSaved DEF StackOK
  <1>12. ~Clean(m)'
    BY <1>7, <1>8, <1>9 DEF Clean
  <1>13. CurrentOK'
    BY <1>8, <1>9, <1>12 DEF CurrentOK, StackOK
  <1> QED
    BY <1>7, <1>8, <1>9, <1>10, <1>11, <1>13 DEF StackOK, TypeOK, Scopes

\* Subdirectories that a description leads to.
LEMMA SubdirsType ==
  ASSUME TypeOK, NEW d \in Dirs
  PROVE  Subdirs(d) \in Seq(Dirs)
  <1>1. PICK S : S = {c \in Range(Listing[d]) :
            \A i \in DOMAIN subdirs : ~(Parent[subdirs[i]] = Top /\ Name[subdirs[i]] = Name[c])}
    OBVIOUS
  <1>2. Those(Listing[d], S) \in Seq(Dirs)
    BY ThoseType, DescriptionsAssumption
  <1>3. Subdirs(d) = subdirs \o (IF auto THEN Those(Listing[d], S) ELSE <<>>)
    BY <1>1 DEF Subdirs
  <1>4. subdirs \in Seq(Dirs) /\ <<>> \in Seq(Dirs)
    BY EmptySeq DEF TypeOK
  <1> QED
    BY <1>2, <1>3, <1>4, ConcatProperties

LEMMA EndStep ==
  ASSUME TypeOK, StackOK,
         \/ CloseScope
         \/ \E result \in {"ok", "skip", "error"} : EndDescription(result)
         \/ ReturnFromScope \/ EpilogFails \/ EpilogVirtual \/ EpilogSpec
  PROVE  TypeOK' /\ StackOK'
  <1>1. CASE CloseScope
    <2>1. /\ Here.kind = "scope" /\ Leave(Front(open), Here) /\ Forget(open') /\ pc = "body" /\ pc' = "body"
          /\ UNCHANGED <<fixed, ids, escaped>> /\ UNCHANGED <<walk, base, control>>
      BY <1>1 DEF CloseScope, control
    <2>2. /\ StackOK' /\ log' \in Seq(Entry) /\ open' \in Seq(Scopes)
          /\ defines' \in [Vars -> Seq(Nat)] /\ frame' \in [Vars -> Seq(Nat)] /\ localdir' \in Dirs
      BY <2>1, InnerOpen, LeaveSaved
    <2> QED
      BY <2>1, <2>2 DEF TypeOK, Entry, Scopes, walk, base, control
  <1>2. CASE \E result \in {"ok", "skip", "error"} : EndDescription(result)
    <2>1. PICK result \in {"ok", "skip", "error"} : EndDescription(result)
      BY <1>2
    <2>2. /\ pc = "body" /\ Ends(result, open)
          /\ UNCHANGED <<uses, count, defines, fixed, frame, localdir, ids, walk, base>>
      BY <2>1 DEF EndDescription
    <2>3. PICK n \in Nat \ {0} : n = Len(open) /\ n \in 1 .. Len(open) /\ open = SubSeq(open, 1, n)
      <3>1. Len(open) \in Nat \ {0} /\ open \in Seq(Scopes)
        BY OpenType DEF StackOK
      <3>2. SubSeq(open, 1, Len(open)) = open /\ Len(open) \in 1 .. Len(open)
        BY <3>1, SubSeqFull
      <3> QED
        BY <3>1, <3>2
    <2>4. /\ StackOK' /\ log' \in Seq(Entry) /\ open' \in Seq(Scopes) /\ escaped' \subseteq Nat
          /\ pc' \in {"epilog", "failed", "walk"} /\ rc' = result /\ erred' \in BOOLEAN
      BY <2>2, <2>3, EndsStep
    <2> QED
      BY <2>2, <2>4 DEF TypeOK, Entry, Scopes, walk, base
  <1>3. CASE ReturnFromScope
    <2>1. StackOK' /\ log' \in Seq(Entry) /\ open' \in Seq(Scopes) /\ escaped' \subseteq Nat
      BY <1>3, ReturnStep
    <2> QED
      BY <1>3, <2>1 DEF ReturnFromScope, TypeOK, Entry, Scopes, walk, base, control
  <1>4. CASE EpilogFails
    <2>1. /\ pc = "epilog"
          /\ UNCHANGED <<uses, count, defines, fixed, frame, localdir, ids, walk, base>>
      BY <1>4 DEF EpilogFails
    <2>2. CASE Here.kind = "virtual"
      <3>1. Ends("error", Front(open))
        BY <1>4, <2>2 DEF EpilogFails
      <3>2. PICK n \in Nat \ {0} : n = Len(open) /\ n > 1
        BY <2>2, InnerOpen, OpenType DEF StackOK
      <3>3. n - 1 \in 1 .. Len(open) /\ Front(open) = SubSeq(open, 1, n - 1)
        BY <3>2, FrontIsCut DEF StackOK
      <3>4. /\ StackOK' /\ log' \in Seq(Entry) /\ open' \in Seq(Scopes) /\ escaped' \subseteq Nat
            /\ pc' \in {"epilog", "failed", "walk"} /\ rc' = "error" /\ erred' \in BOOLEAN
        BY <2>1, <3>1, <3>3, EndsStep
      <3> QED
        BY <2>1, <3>4 DEF TypeOK, Entry, Scopes, walk, base
    <2>3. CASE Here.kind # "virtual"
      <3>1. pc' = "failed" /\ erred' = TRUE /\ UNCHANGED <<rc, open, escaped, log>>
        BY <1>4, <2>3 DEF EpilogFails
      <3>2. StackOK'
        BY <2>1, <3>1, StackSame DEF StackOK
      <3> QED
        BY <2>1, <3>1, <3>2 DEF TypeOK, walk, base
    <2> QED
      BY <2>2, <2>3
  <1>5. CASE EpilogVirtual \/ EpilogSpec
    <2>1. /\ pc = "epilog" /\ Leave(Front(open), Here) /\ Forget(open') /\ escaped' = escaped \ {Here.id}
          /\ UNCHANGED <<ids, fixed, base, uses, count, erred, auto, entered, nested>>
      BY <1>5 DEF EpilogVirtual, EpilogSpec, Epilog
    <2>2. /\ Here.kind \in {"spec", "virtual"} /\ pc' \in {"body", "walk", "failed"}
          /\ pc' = "walk" => Here.kind = "spec"
      BY <1>5 DEF EpilogVirtual, EpilogSpec
    <2>3. Len(open) > 1 /\ (pc' = "walk" => Len(open) = 2)
      <3>1. PICK n \in Nat \ {0} : n = Len(open) /\ Here = open[n] /\ (open[n].kind = "spec" => n = 2)
        BY OpenType DEF StackOK, NestingOK
      <3> QED
        BY <2>2, <3>1, InnerOpen
    <2>4. /\ StackOK' /\ log' \in Seq(Entry) /\ open' \in Seq(Scopes)
          /\ defines' \in [Vars -> Seq(Nat)] /\ frame' \in [Vars -> Seq(Nat)] /\ localdir' \in Dirs
      BY <2>1, <2>2, <2>3, LeaveSaved
    <2>5. Here.dir \in Dirs /\ (Here.kind = "virtual" => Here.dir \in Virtual)
      BY OpenType DEF StackOK, NestingOK, Scopes
    <2>6. /\ todo' \in Seq(Dirs) /\ subdirs' \in Seq(Dirs) /\ skip' \subseteq Virtual
          /\ rc' = "ok" /\ listed' \subseteq Dirs
      <3>1. CASE EpilogVirtual
        BY <2>5, <3>1 DEF EpilogVirtual, TypeOK
      <3>2. CASE EpilogSpec
        <4>1. Subdirs(Here.dir) \o todo \in Seq(Dirs)
          BY <2>5, SubdirsType, ConcatProperties DEF TypeOK
        <4>2. /\ skip' = skip /\ rc' = "ok"
              /\ \/ UNCHANGED <<todo, subdirs, listed>>
                 \/ /\ todo' = Subdirs(Here.dir) \o todo /\ subdirs' = <<>>
                    /\ listed' \in {listed, listed \union {Here.dir}}
          BY <3>2 DEF EpilogSpec
        <4> QED
          BY <2>5, <4>1, <4>2, EmptySeq DEF TypeOK
      <3> QED
        BY <1>5, <3>1, <3>2
    <2>7. escaped' \subseteq Nat
      BY <2>1 DEF TypeOK
    <2> QED
      BY <2>1, <2>2, <2>4, <2>6, <2>7 DEF TypeOK, Entry, Scopes, base
  <1> QED
    BY <1>1, <1>2, <1>3, <1>4, <1>5

-----------------------------------------------------------------------------
(* The directories still to be read. *)

LEMMA TailRange ==
  ASSUME NEW D, NEW s \in Seq(D), s # <<>>
  PROVE  Range(s) = {Head(s)} \union Range(Tail(s)) /\ Head(s) \in Range(s)
  <1>1. PICK n \in Nat \ {0} : n = Len(s) /\ DOMAIN s = 1 .. n
    BY LenProperties, EmptySeq
  <1>2. Head(s) = s[1] /\ Tail(s) \in Seq(D) /\ Len(Tail(s)) = n - 1
          /\ \A i \in 1 .. n - 1 : Tail(s)[i] = s[i + 1]
    BY <1>1, HeadTailProperties
  <1>3. DOMAIN Tail(s) = 1 .. n - 1
    BY <1>2, LenProperties
  <1>4. ASSUME NEW x \in Range(s) PROVE x = Head(s) \/ x \in Range(Tail(s))
    <2>1. PICK i \in 1 .. n : x = s[i]
      BY <1>1 DEF Range
    <2>2. CASE i = 1
      BY <1>2, <2>1, <2>2
    <2>3. CASE i # 1
      <3>1. i - 1 \in 1 .. n - 1 /\ Tail(s)[i - 1] = s[(i - 1) + 1] /\ (i - 1) + 1 = i
        BY <1>1, <1>2, <2>3
      <3> QED
        BY <1>3, <2>1, <3>1 DEF Range
    <2> QED
      BY <2>2, <2>3
  <1>5. ASSUME NEW x \in Range(Tail(s)) PROVE x \in Range(s)
    <2>1. PICK i \in 1 .. n - 1 : x = Tail(s)[i]
      BY <1>3 DEF Range
    <2>2. i + 1 \in 1 .. n /\ x = s[i + 1]
      BY <1>1, <1>2, <2>1
    <2> QED
      BY <1>1, <2>2 DEF Range
  <1>6. Head(s) \in Range(s)
    <2>1. 1 \in 1 .. n
      BY <1>1
    <2> QED
      BY <1>1, <1>2, <2>1 DEF Range
  <1> QED
    BY <1>4, <1>5, <1>6

\* Steps in which no build.spec begins or ends.
LEMMA WalkSame ==
  ASSUME TopFirst, WalkOK, SpecOpen' <=> SpecOpen, SpecOpen => open'[2] = open[2],
         UNCHANGED <<todo, subdirs, listed, nested>>, entered \subseteq entered',
         pc' \in {"body", "epilog"} => pc \in {"body", "epilog"},
         pc' = "walk" => pc \in {"body", "epilog", "walk"} /\ ~SpecOpen
  PROVE  TopFirst' /\ WalkOK'
  <1>1. TopFirst'
    BY DEF TopFirst
  <1>2. WalkOK'
    <2>1. SUFFICES ASSUME ~nested
                   PROVE  /\ \A d \in listed : Range(Listing[d]) \subseteq entered' \union Range(todo)
                          /\ subdirs # <<>> =>
                                /\ SpecOpen' => open'[2].dir = Top
                                /\ pc' = "walk" => todo \in {<<>>, <<Top>>}
      BY DEF WalkOK
    <2>2. \A d \in listed : Range(Listing[d]) \subseteq entered' \union Range(todo)
      BY <2>1 DEF WalkOK
    <2>3. subdirs # <<>> => /\ SpecOpen => open[2].dir = Top
                            /\ pc = "walk" => todo \in {<<>>, <<Top>>}
      BY <2>1 DEF WalkOK
    <2>4. pc' = "walk" /\ pc # "walk" => todo = <<Top>>
      BY DEF TopFirst
    <2> QED
      BY <2>2, <2>3, <2>4
  <1> QED
    BY <1>1, <1>2

\* Whether a build.spec is open is seen from the second of what is open.
LEMMA SpecOpenPush ==
  ASSUME TypeOK, NestingOK, NEW kind \in {"virtual", "scope"}, NEW dir \in Dirs \union {None}, Enter(kind, dir)
  PROVE  (SpecOpen' <=> SpecOpen) /\ (SpecOpen => open'[2] = open[2])
  <1>1. PICK new \in Scopes :
            /\ Len(open') = Len(open) + 1 /\ open'[Len(open) + 1] = new /\ new.kind = kind
            /\ \A k \in 1 .. Len(open) : open'[k] = open[k]
    BY PushType
  <1>2. PICK n \in Nat \ {0} : n = Len(open)
    BY OpenType
  <1>3. CASE n = 1
    BY <1>1, <1>2, <1>3 DEF SpecOpen
  <1>4. CASE n # 1
    <2>1. 2 \in 1 .. n /\ n > 1 /\ n + 1 > 1
      BY <1>2, <1>4
    <2> QED
      BY <1>1, <1>2, <2>1 DEF SpecOpen
  <1> QED
    BY <1>3, <1>4

LEMMA SpecOpenCut ==
  ASSUME TypeOK, NestingOK, NEW m \in 1 .. Len(open), open' = SubSeq(open, 1, m), SpecOpen => m > 1
  PROVE  (SpecOpen' <=> SpecOpen) /\ (SpecOpen => open'[2] = open[2])
  <1>1. PICK n \in Nat \ {0} : n = Len(open)
    BY OpenType
  <1>2. m \in Nat /\ m \in 1 .. n /\ m \in 0 .. Len(open)
    BY <1>1
  <1>3. Len(open') = m /\ \A k \in 1 .. m : open'[k] = open[k]
    BY <1>2, CutType
  <1>4. CASE m > 1
    <2>1. 2 \in 1 .. m /\ n > 1
      BY <1>1, <1>2, <1>4
    <2> QED
      BY <1>1, <1>3, <1>4, <2>1 DEF SpecOpen
  <1>5. CASE ~(m > 1)
    BY <1>3, <1>5 DEF SpecOpen
  <1> QED
    BY <1>4, <1>5

\* When a scope or virtual directory, or a description with its scopes, ends, a
\* build.spec that is open around it stays so.
LEMMA SpecOpenPop ==
  ASSUME TypeOK, NestingOK, Here.kind \in {"scope", "virtual"}, open' = Front(open)
  PROVE  (SpecOpen' <=> SpecOpen) /\ (SpecOpen => open'[2] = open[2])
  <1>1. PICK n \in Nat \ {0} : n = Len(open) /\ Here = open[n] /\ (n = 1 => open[n].kind = "project")
    BY OpenType DEF NestingOK
  <1>2. n > 1 /\ (SpecOpen => n > 2)
    BY <1>1 DEF SpecOpen
  <1>3. n - 1 \in 1 .. Len(open) /\ open' = SubSeq(open, 1, n - 1) /\ (SpecOpen => n - 1 > 1)
    BY <1>1, <1>2, FrontIsCut
  <1> QED
    BY <1>3, SpecOpenCut

LEMMA SpecOpenEnds ==
  ASSUME TypeOK, NestingOK, NEW m \in 1 .. Len(open), NEW s, s = SubSeq(open, 1, m), SpecOpen => m > 1,
         NEW result, Ends(result, s)
  PROVE  /\ (SpecOpen' <=> SpecOpen) /\ (SpecOpen => open'[2] = open[2])
         /\ pc' = "walk" => ~SpecOpen
  <1>1. Len(open) \in Nat \ {0} /\ m \in Nat /\ m <= Len(open)
    <2>1. Len(open) \in Nat \ {0}
      BY OpenType
    <2>2. \A x \in Nat : m \in 1 .. x => m \in Nat /\ m <= x
      OBVIOUS
    <2> QED
      BY <2>1, <2>2
  <1>2. PICK k : k = Innermost(s)
    OBVIOUS
  <1>3. /\ k \in 1 .. m /\ open[k].kind # "scope" /\ \A i \in k + 1 .. m : open[i].kind = "scope"
        /\ SubSeq(s, 1, k) = SubSeq(open, 1, k)
    BY <1>2, InnermostIs
  <1>4. s[k] = open[k]
    <2>1. m \in 0 .. Len(open)
      BY <1>1
    <2> QED
      BY <1>3, <2>1, CutType
  <1>5. open' = SubSeq(open, 1, k) /\ (pc' = "walk" => open[k].kind = "project")
    BY <1>2, <1>3, <1>4 DEF Ends
  <1>6. k \in 1 .. Len(open) /\ k \in Nat
    BY <1>1, <1>3
  <1>7. SpecOpen => k > 1
    <2>1. SUFFICES ASSUME SpecOpen, k = 1 PROVE FALSE
      BY <1>6
    <2>2. 2 \in k + 1 .. m
      BY <1>1, <2>1
    <2> QED
      BY <1>3, <2>1, <2>2 DEF SpecOpen
  <1>8. open[k].kind = "project" => k = 1
    BY <1>6, OpenType DEF NestingOK
  <1> QED
    BY <1>5, <1>6, <1>7, <1>8, SpecOpenCut

\* What a build.spec leads to: what is due is entered then or is to be read.
LEMMA SubdirsDue ==
  ASSUME TypeOK, TopFirst, NEW d \in Dirs
  PROVE  /\ Top \notin Range(Subdirs(d))
         /\ auto /\ (subdirs # <<>> => d = Top) => Range(Listing[d]) \subseteq Range(Subdirs(d))
  <1>1. PICK S : S = {c \in Range(Listing[d]) :
            \A i \in DOMAIN subdirs : ~(Parent[subdirs[i]] = Top /\ Name[subdirs[i]] = Name[c])}
    OBVIOUS
  <1>2. PICK L : L = Listing[d] /\ L \in Seq(Dirs) /\ L \in Seq(Range(L))
    BY SeqOfRange, DescriptionsAssumption
  <1>3. PICK T : T = Those(L, S) /\ T \in Seq(Dirs) /\ T \in Seq(Range(L))
    BY <1>2, ThoseType
  <1>4. Subdirs(d) = subdirs \o (IF auto THEN T ELSE <<>>)
    BY <1>1, <1>2, <1>3 DEF Subdirs
  <1>5. subdirs \in Seq(Dirs) /\ <<>> \in Seq(Dirs) /\ Range(<<>>) = {}
    BY EmptySeq DEF TypeOK, Range
  <1>6. Range(Subdirs(d)) = Range(subdirs) \union (IF auto THEN Range(T) ELSE {})
    <2>1. CASE auto
      BY <1>3, <1>4, <1>5, <2>1, RangeConcatenation
    <2>2. CASE ~auto
      BY <1>4, <1>5, <2>2, RangeConcatenation
    <2> QED
      BY <2>1, <2>2
  <1>7. Range(T) \subseteq Range(L)
    BY <1>3, RangeOfSeq
  <1>8. Top \notin Range(L) /\ Top \notin Range(subdirs)
    BY <1>2, DescriptionsAssumption DEF TopFirst
  <1>9. ASSUME auto, subdirs # <<>> => d = Top, NEW c \in Range(L) PROVE c \in Range(Subdirs(d))
    <2>1. CASE c \in S
      <3>1. DOMAIN L = 1 .. Len(L)
        BY <1>2, LenProperties
      <3>2. PICK j \in 1 .. Len(L) : L[j] = c
        BY <3>1 DEF Range
      <3>3. PICK D : D = Dirs /\ L \in Seq(D)
        BY <1>2
      <3>4. L[j] \in S
        BY <2>1, <3>2
      <3>5. \E k \in 1 .. Len(Those(L, S)) : Those(L, S)[k] = L[j]
        BY <3>3, <3>4, ThoseAll
      <3>6. \E k \in 1 .. Len(T) : T[k] = c
        BY <1>3, <3>2, <3>5
      <3>7. DOMAIN T = 1 .. Len(T)
        BY <1>3, LenProperties
      <3>8. c \in Range(T)
        BY <3>6, <3>7 DEF Range
      <3> QED
        BY <1>6, <1>9, <3>8
    <2>2. CASE c \notin S
      <3>1. PICK i \in DOMAIN subdirs : Parent[subdirs[i]] = Top /\ Name[subdirs[i]] = Name[c]
        BY <1>1, <1>2, <2>2
      <3>2. PICK e : e = subdirs[i] /\ e \in Range(subdirs)
        BY <3>1 DEF Range
      <3>3. subdirs # <<>>
        BY <3>1
      <3>4. Parent[c] = Top
        BY <1>2, <1>9, <3>3, DescriptionsAssumption
      <3>5. e \in WithSpec /\ c \in WithSpec
        BY <1>2, <3>2 DEF TopFirst, WithSpec
      <3>6. e = c
        BY <3>1, <3>2, <3>4, <3>5, DescriptionsAssumption
      <3> QED
        BY <1>6, <3>2, <3>6
    <2> QED
      BY <2>1, <2>2
  <1> QED
    BY <1>2, <1>6, <1>7, <1>8, <1>9

LEMMA WalkStep ==
  ASSUME TypeOK, StackOK, TopFirst, WalkOK, [Next]_vars
  PROVE  TopFirst' /\ WalkOK'
  <1>0. PICK n \in Nat \ {0} : n = Len(open) /\ Here = open[n] /\ NestingOK
    BY OpenLength DEF StackOK
  <1>1. CASE \E v \in Vars : Define(v) \/ DefineFixed(v) \/ DefineDefault(v) \/ DefineAppend(v)
    <2>1. UNCHANGED <<pc, place, walk>>
      BY <1>1 DEF Define, DefineFixed, DefineDefault, DefineAppend, Command
    <2>2. (SpecOpen' <=> SpecOpen) /\ open' = open
      BY <2>1 DEF place, SpecOpen
    <2>3. SpecOpen => pc # "walk"
      BY <1>0 DEF NestingOK, SpecOpen
    <2> QED
      BY <2>1, <2>2, <2>3, WalkSame DEF walk
  <1>2. CASE \E dir \in ScopeDirs : OpenScope(dir)
    <2>1. PICK dir \in Dirs \union {None} : OpenScope(dir)
      BY <1>2, DescriptionsAssumption
    <2>2. Enter("scope", dir) /\ UNCHANGED walk /\ pc = "body" /\ pc' = "body"
      BY <2>1 DEF OpenScope, Command
    <2>3. (SpecOpen' <=> SpecOpen) /\ (SpecOpen => open'[2] = open[2])
      BY <1>0, <2>2, SpecOpenPush
    <2> QED
      BY <2>2, <2>3, WalkSame DEF walk
  <1>3. CASE CloseScope
    <2>1. Here.kind = "scope" /\ open' = Front(open) /\ UNCHANGED walk /\ pc = "body" /\ pc' = "body"
      BY <1>3 DEF CloseScope, Leave, control
    <2>2. (SpecOpen' <=> SpecOpen) /\ (SpecOpen => open'[2] = open[2])
      BY <1>0, <2>1, SpecOpenPop
    <2> QED
      BY <2>1, <2>2, WalkSame DEF walk
  <1>4. CASE \E d \in Dirs : VirtualSubDir(d)
    <2>1. PICK d \in Dirs : VirtualSubDir(d)
      BY <1>4
    <2>2. UNCHANGED <<todo, subdirs, listed, nested>> /\ pc = "body" /\ pc' = "body"
      BY <2>1 DEF VirtualSubDir, Command
    <2>3. CASE Parent[d] \in skip
      <3>1. UNCHANGED <<open, entered>>
        BY <2>1, <2>3 DEF VirtualSubDir, place
      <3>2. SpecOpen' <=> SpecOpen
        BY <3>1 DEF SpecOpen
      <3> QED
        BY <2>2, <3>1, <3>2, WalkSame
    <2>4. CASE Parent[d] \notin skip
      <3>1. Enter("virtual", d) /\ entered' = entered \union {d}
        BY <2>1, <2>4 DEF VirtualSubDir, Begin
      <3>2. (SpecOpen' <=> SpecOpen) /\ (SpecOpen => open'[2] = open[2])
        BY <1>0, <3>1, SpecOpenPush
      <3> QED
        BY <2>2, <3>1, <3>2, WalkSame
    <2> QED
      BY <2>3, <2>4
  <1>5. CASE \E d \in Dirs : SubDirs(d)
    <2>1. PICK d \in Dirs : SubDirs(d)
      BY <1>5
    <2>2. /\ d \in WithSpec \ {Top} /\ subdirs' = Append(subdirs, d) /\ pc = "body" /\ pc' = "body"
          /\ nested' = (nested \/ open[Innermost(open)].dir # Top)
          /\ UNCHANGED <<open, todo, entered, listed>>
      BY <2>1 DEF SubDirs, Command, place
    <2>3. SpecOpen' <=> SpecOpen
      BY <2>2 DEF SpecOpen
    <2>4. Range(subdirs') \subseteq WithSpec \ {Top}
      <3>1. subdirs' \in Seq(WithSpec \ {Top})
        <4>1. subdirs \in Seq(Dirs) /\ subdirs \in Seq(Range(subdirs))
          BY SeqOfRange DEF TypeOK
        <4>2. subdirs \in Seq(WithSpec \ {Top})
          BY <4>1, SeqMonotonic DEF TopFirst
        <4> QED
          BY <2>2, <4>2, AppendProperties
      <3> QED
        BY <3>1, RangeOfSeq
    <2>5. TopFirst'
      BY <2>2, <2>3, <2>4 DEF TopFirst
    <2>6. ~nested' /\ SpecOpen => open[2].dir = Top
      <3>1. SUFFICES ASSUME ~nested', SpecOpen PROVE open[2].dir = Top
        OBVIOUS
      <3>2. PICK k : k = Innermost(open)
        OBVIOUS
      <3>3. k \in 1 .. n /\ open[k].kind # "scope" /\ \A i \in k + 1 .. n : open[i].kind = "scope"
        <4>1. open \in Seq(Scopes)
          BY <1>0, OpenType
        <4>2. SubSeq(open, 1, n) = open /\ n \in 1 .. Len(open)
          BY <1>0, <4>1, SubSeqFull
        <4> QED
          BY <1>0, <3>2, <4>2, InnermostIs
      <3>4. n > 1 /\ open[2].kind = "spec"
        BY <1>0, <3>1 DEF SpecOpen
      <3>5. k # 1
        <4>1. k = 1 => 2 \in k + 1 .. n
          BY <1>0, <3>4
        <4> QED
          BY <3>3, <3>4, <4>1
      <3>6. open[k].kind \in {"spec", "virtual"}
        <4>1. k \in 1 .. Len(open)
          BY <1>0, <3>3
        <4> QED
          BY <1>0, <3>3, <3>5, <4>1, OpenType DEF NestingOK, Scopes
      <3>7. open[k].dir = Top
        BY <2>2, <3>1, <3>2
      <3>8. open[k].kind = "spec" => k = 2
        BY <1>0, <3>3, OpenType DEF NestingOK
      <3>9. open[k].kind = "virtual" => open[k].dir \in Virtual
        BY <1>0, <3>3, OpenType DEF NestingOK
      <3>10. Top \notin Virtual
        BY DescriptionsAssumption DEF WithSpec
      <3> QED
        BY <3>6, <3>7, <3>8, <3>9, <3>10
    <2>7. WalkOK'
      BY <2>2, <2>3, <2>6 DEF WalkOK
    <2> QED
      BY <2>5, <2>7
  <1>6. CASE \/ \E onoff \in BOOLEAN : AutoSubDirs(onoff)
             \/ \E t \in Shared, decl \in Decls : Declare(t, decl)
             \/ Finish \/ UNCHANGED vars
    <2>1. UNCHANGED <<open, todo, subdirs, listed, nested, entered>> /\ pc' \in {pc, "failed", "done"}
      BY <1>6 DEF AutoSubDirs, Declare, Finish, Command, vars, place, walk, control
    <2>2. SpecOpen' <=> SpecOpen
      BY <2>1 DEF SpecOpen
    <2>3. pc = "walk" => ~SpecOpen
      BY <1>0 DEF NestingOK, SpecOpen
    <2> QED
      BY <2>1, <2>2, <2>3, WalkSame
  <1>7. CASE ReadSpec
    <2>1. /\ pc = "walk" /\ pc' = "body" /\ todo # <<>> /\ Begin("spec", Head(todo)) /\ todo' = Tail(todo)
          /\ UNCHANGED <<subdirs, auto, skip, listed, nested>>
      BY <1>7 DEF ReadSpec
    <2>2. PICK d \in Dirs : d = Head(todo)
      BY <2>1, HeadTailProperties DEF TypeOK
    <2>3. Enter("spec", d) /\ entered' = entered \union {d} /\ d # None
      BY <2>1, <2>2, DescriptionsAssumption DEF Begin
    <2>4. Range(todo) = {d} \union Range(todo') /\ todo' \in Seq(Dirs)
      BY <2>1, <2>2, TailRange, HeadTailProperties DEF TypeOK
    <2>5. n = 1
      BY <1>0, <2>1 DEF NestingOK
    <2>6. Len(open') = 2 /\ open'[2].kind = "spec" /\ open'[2].dir = d /\ SpecOpen'
      <3>1. PICK new \in Scopes :
              /\ Len(open') = Len(open) + 1 /\ open'[Len(open) + 1] = new /\ new.kind = "spec"
              /\ new.dir = (IF d = None THEN Here.dir ELSE d)
        BY <1>0, <2>3, PushType
      <3>2. Len(open) = 1
        BY <1>0, <2>5
      <3>3. Len(open) + 1 = 2
        BY <3>2
      <3>4. Len(open') = 2 /\ open'[2] = new
        BY <3>1, <3>3
      <3>5. open'[2].kind = "spec" /\ open'[2].dir = d
        BY <2>3, <3>1, <3>4
      <3>6. Len(open') > 1
        BY <3>4
      <3>7. SpecOpen'
        BY <3>5, <3>6 DEF SpecOpen
      <3> QED
        BY <3>4, <3>5, <3>7
    <2>7. CASE Top \in Range(todo)
      <3>1. todo = <<Top>>
        BY <2>7 DEF TopFirst
      <3>2. todo' = <<>> /\ d = Top /\ Range(<<>>) = {}
        BY <2>1, <2>2, <3>1 DEF Range
      <3>3. TopFirst'
        BY <2>1, <2>6, <3>2 DEF TopFirst
      <3>4. WalkOK'
        BY <2>1, <2>3, <2>4, <2>6, <3>2 DEF WalkOK
      <3> QED
        BY <3>3, <3>4
    <2>8. CASE Top \notin Range(todo)
      <3>1. d # Top /\ Top \notin Range(todo') /\ todo \notin {<<>>, <<Top>>}
        <4>1. d # Top /\ Top \notin Range(todo')
          BY <2>4, <2>8
        <4> QED
          BY <2>1, <2>2, <4>1
      <3>2. TopFirst'
        BY <2>1, <2>6, <3>1 DEF TopFirst
      <3>3. ~nested => subdirs = <<>>
        BY <2>1, <3>1 DEF WalkOK
      <3>4. WalkOK'
        BY <2>1, <2>3, <2>4, <3>3 DEF WalkOK
      <3> QED
        BY <3>2, <3>4
    <2> QED
      BY <2>7, <2>8
  <1>8. CASE \E result \in {"ok", "skip", "error"} : EndDescription(result)
    <2>1. PICK result \in {"ok", "skip", "error"} : EndDescription(result)
      BY <1>8
    <2>2. pc = "body" /\ Ends(result, open) /\ UNCHANGED walk
      BY <2>1 DEF EndDescription
    <2>3. n \in 1 .. Len(open) /\ open = SubSeq(open, 1, n) /\ (SpecOpen => n > 1)
      <3>1. open \in Seq(Scopes)
        BY <1>0, OpenType
      <3>2. SubSeq(open, 1, Len(open)) = open /\ n \in 1 .. n
        BY <1>0, <3>1, SubSeqFull
      <3> QED
        BY <1>0, <3>2 DEF SpecOpen
    <2>4. (SpecOpen' <=> SpecOpen) /\ (SpecOpen => open'[2] = open[2]) /\ (pc' = "walk" => ~SpecOpen)
      BY <1>0, <2>2, <2>3, SpecOpenEnds
    <2> QED
      BY <2>2, <2>4, WalkSame DEF walk
  <1>9. CASE ReturnFromScope
    <2>1. Here.kind = "scope" /\ open' = Front(open) /\ UNCHANGED walk /\ pc = "body" /\ pc' = "body"
      BY <1>9 DEF ReturnFromScope, control
    <2>2. (SpecOpen' <=> SpecOpen) /\ (SpecOpen => open'[2] = open[2])
      BY <1>0, <2>1, SpecOpenPop
    <2> QED
      BY <2>1, <2>2, WalkSame DEF walk
  <1>10. CASE EpilogFails
    <2>1. pc = "epilog" /\ UNCHANGED walk
      BY <1>10 DEF EpilogFails
    <2>2. CASE Here.kind = "virtual"
      <3>1. Ends("error", Front(open))
        BY <1>10, <2>2 DEF EpilogFails
      <3>2. n > 1 /\ (SpecOpen => n > 2)
        BY <1>0, <2>2, InnerOpen DEF SpecOpen
      <3>3. n - 1 \in 1 .. Len(open) /\ Front(open) = SubSeq(open, 1, n - 1) /\ (SpecOpen => n - 1 > 1)
        BY <1>0, <3>2, FrontIsCut
      <3>4. (SpecOpen' <=> SpecOpen) /\ (SpecOpen => open'[2] = open[2]) /\ (pc' = "walk" => ~SpecOpen)
        BY <1>0, <3>1, <3>3, SpecOpenEnds
      <3> QED
        BY <2>1, <3>4, WalkSame DEF walk
    <2>3. CASE Here.kind # "virtual"
      <3>1. pc' = "failed" /\ open' = open
        BY <1>10, <2>3 DEF EpilogFails
      <3>2. SpecOpen' <=> SpecOpen
        BY <3>1 DEF SpecOpen
      <3> QED
        BY <2>1, <3>1, <3>2, WalkSame DEF walk
    <2> QED
      BY <2>2, <2>3
  <1>11. CASE EpilogVirtual
    <2>1. /\ Here.kind = "virtual" /\ open' = Front(open) /\ pc = "epilog" /\ pc' = "body"
          /\ UNCHANGED <<todo, subdirs, listed, entered, nested>>
      BY <1>11 DEF EpilogVirtual, Epilog, Leave
    <2>2. (SpecOpen' <=> SpecOpen) /\ (SpecOpen => open'[2] = open[2])
      BY <1>0, <2>1, SpecOpenPop
    <2> QED
      BY <2>1, <2>2, WalkSame
  <1>12. CASE EpilogSpec
    <2>1. /\ Here.kind = "spec" /\ open' = Front(open) /\ pc = "epilog" /\ pc' \in {"walk", "failed"}
          /\ UNCHANGED <<entered, nested>>
      BY <1>12 DEF EpilogSpec, Epilog, Leave
    <2>2. n = 2 /\ SpecOpen /\ Here = open[2] /\ Here.dir \in Dirs
      <3>1. n \in DOMAIN open /\ Here \in Scopes
        BY <1>0, OpenType
      <3> QED
        BY <1>0, <2>1, <3>1 DEF NestingOK, SpecOpen, Scopes
    <2>3. ~SpecOpen'
      <3>1. 1 \in 0 .. Len(open) /\ open' = SubSeq(open, 1, 1)
        BY <1>0, <2>1, <2>2, FrontIsCut
      <3>2. Len(open') = 1
        BY <1>0, <3>1, CutType
      <3> QED
        BY <3>2 DEF SpecOpen
    <2>4. CASE rc # "ok"
      <3>1. UNCHANGED <<todo, subdirs, listed>>
        BY <1>12, <2>4 DEF EpilogSpec
      <3>2. Top \notin Range(todo) /\ (Here.dir = Top => todo = <<>>)
        BY <2>2 DEF TopFirst
      <3>3. TopFirst'
        BY <2>1, <2>3, <3>1, <3>2 DEF TopFirst
      <3>4. ~nested /\ subdirs # <<>> => todo = <<>>
        BY <2>2, <3>2 DEF WalkOK
      <3>5. WalkOK'
        BY <2>1, <2>3, <3>1, <3>4 DEF WalkOK
      <3> QED
        BY <3>3, <3>5
    <2>5. CASE rc = "ok"
      <3>1. PICK d \in Dirs : d = Here.dir
        BY <2>2
      <3>2. PICK q \in Seq(Dirs) : q = Subdirs(d)
        BY SubdirsType
      <3>3. /\ todo' = q \o todo /\ subdirs' = <<>>
            /\ listed' = IF auto THEN listed \union {d} ELSE listed
        BY <1>12, <2>5, <3>1, <3>2 DEF EpilogSpec
      <3>4. Range(todo') = Range(q) \union Range(todo) /\ Range(<<>>) = {}
        <4>1. PICK p \in Seq(Dirs) : p = todo
          BY DEF TypeOK
        <4>2. Range(q \o p) = Range(q) \union Range(p)
          BY <3>2, <4>1, RangeConcatenation
        <4>3. Range(<<>>) = {}
          BY EmptySeq DEF Range
        <4> QED
          BY <3>3, <4>1, <4>2, <4>3
      <3>5. Top \notin Range(todo')
        BY <2>2, <3>2, <3>4, SubdirsDue DEF TopFirst
      <3>6. TopFirst'
        BY <2>1, <2>3, <3>3, <3>4, <3>5 DEF TopFirst
      <3>7. ~nested /\ auto => Range(Listing[d]) \subseteq Range(q)
        <4>1. ~nested /\ subdirs # <<>> => d = Top
          BY <2>2, <3>1 DEF WalkOK
        <4> QED
          BY <3>2, <4>1, SubdirsDue
      <3>8. WalkOK'
        BY <2>1, <3>3, <3>4, <3>7 DEF WalkOK
      <3> QED
        BY <3>6, <3>8
    <2> QED
      BY <2>4, <2>5
  <1> QED
    BY <1>1, <1>2, <1>3, <1>4, <1>5, <1>6, <1>7, <1>8, <1>9, <1>10, <1>11, <1>12 DEF Next, Finished

-----------------------------------------------------------------------------
(* Rules are made of their declarations. *)

\* The elements of a sequence that is longer by one.
LEMMA RangeAppend ==
  ASSUME NEW D, NEW s \in Seq(D), NEW c \in D
  PROVE  Range(Append(s, c)) = Range(s) \union {c}
  <1>1. /\ Len(s) \in Nat /\ DOMAIN s = 1 .. Len(s)
        /\ DOMAIN Append(s, c) = 1 .. Len(s) + 1 /\ Append(s, c)[Len(s) + 1] = c
        /\ \A i \in 1 .. Len(s) : Append(s, c)[i] = s[i]
    BY AppendProperties, LenProperties
  <1> QED
    BY <1>1 DEF Range

\* What parse-rule makes of a declaration, when it names only these words.
LEMMA ParseType ==
  ASSUME NEW decl \in Decls
  PROVE  /\ ParseRule(decl) \in Rule
         /\ decl.do \in Seq(Words) /\ decl.inputs \in Seq(Words) /\ decl.depends \in Seq(Words)
         /\ decl.add \in BOOLEAN /\ (decl.add => decl.do # <<>>)
         /\ Range(ParseRule(decl).depends) = Range(decl.depends) \union Range(decl.inputs)
  <1>1. /\ decl.do \in Seq(Words) /\ decl.inputs \in Seq(Words) /\ decl.depends \in Seq(Words)
        /\ decl.add \in BOOLEAN /\ decl.phony \in BOOLEAN /\ (decl.add => decl.do # <<>>)
    BY DescriptionsAssumption DEF Declarations
  <1>2. PICK W : W = Words /\ decl.inputs \in Seq(W) /\ decl.depends \in Seq(W)
    BY <1>1
  <1>3. decl.depends \o decl.inputs \in Seq(W)
    BY <1>2, ConcatProperties
  <1>4. <<>> \in Seq(Words)
    BY EmptySeq
  <1>5. ParseRule(decl) \in Rule
    BY <1>1, <1>2, <1>3, <1>4 DEF ParseRule, Rule
  <1>6. Range(decl.depends \o decl.inputs) = Range(decl.depends) \union Range(decl.inputs)
    BY <1>2, RangeConcatenation
  <1>7. ParseRule(decl).depends = decl.depends \o decl.inputs
    BY DEF ParseRule
  <1> QED
    BY <1>1, <1>5, <1>6, <1>7

\* A rule is that of its first declaration.
LEMMA MadeOfFirst ==
  ASSUME NEW decl \in Decls
  PROVE  MadeOf(ParseRule(decl), Append(<<>>, decl))
  <1>1. PICK s : s = Append(<<>>, decl)
    OBVIOUS
  <1>2. /\ Len(s) = 1 /\ DOMAIN s = 1 .. 1 /\ s[1] = decl
    BY <1>1, EmptySeq, AppendProperties
  <1>3. PICK e : e = <<>>
    OBVIOUS
  <1>4. e \in Seq(Decls) /\ Len(e) = 0 /\ Len(e) + 1 = 1
    BY <1>3, EmptySeq
  <1>5. PICK b : b = Added(e)[0] /\ b = <<>>
    BY <1>3, <1>4, AddedFunction
  <1>6. Added(s)[1] = (IF decl.add THEN b \o decl.do ELSE b)
    <2>1. Added(Append(e, decl))[Len(e) + 1] = (IF decl.add THEN Added(e)[Len(e)] \o decl.do ELSE Added(e)[Len(e)])
      BY <1>4, AddedAppend
    <2> QED
      BY <1>1, <1>4, <1>5, <2>1
  <1>7. ParseRule(decl) \in Rule /\ Range(ParseRule(decl).depends) = Range(decl.depends) \union Range(decl.inputs)
    BY ParseType
  <1>8. Range(s) = {decl}
    BY <1>2 DEF Range
  <1>9. Range(ParseRule(decl).depends)
          = UNION {Range(c.depends) \union Range(c.inputs) : c \in Range(s)}
    BY <1>7, <1>8
  <1>10. ASSUME decl.do = <<>> PROVE ParseRule(decl).do = <<>> /\ Added(s)[Len(s)] = <<>>
    BY <1>2, <1>5, <1>6, <1>10, ParseType DEF ParseRule
  <1>11. ASSUME ~decl.add PROVE ParseRule(decl).do = decl.do \o Added(s)[Len(s)]
    <2>1. PICK W : W = Words /\ decl.do \in Seq(W)
      BY ParseType
    <2>2. decl.do \o <<>> = decl.do
      BY <2>1, ConcatEmptySeq
    <2> QED
      BY <1>2, <1>5, <1>6, <1>11, <2>2 DEF ParseRule
  <1>12. /\ (\A i \in DOMAIN s : s[i].do = <<>>) => decl.do = <<>>
         /\ \A i \in DOMAIN s : s[i] = decl
    BY <1>2
  <1>13. MadeOf(ParseRule(decl), s)
    BY <1>7, <1>9, <1>10, <1>11, <1>12 DEF MadeOf
  <1> QED
    BY <1>1, <1>13

\* A later declaration that is identical, or merged.
LEMMA MadeOfNext ==
  ASSUME NEW decls \in Seq(Decls), decls # <<>>, NEW rule, MadeOf(rule, decls), NEW decl \in Decls,
         NEW new, new = IF Identical(ParseRule(decl), rule) THEN rule ELSE Merge(rule, ParseRule(decl))
  PROVE  MadeOf(new, Append(decls, decl))
  <1>1. PICK n \in Nat : n = Len(decls) /\ DOMAIN decls = 1 .. n
    BY LenProperties
  <1>2. PICK s : s = Append(decls, decl)
    OBVIOUS
  <1>3. /\ Len(s) = n + 1 /\ DOMAIN s = 1 .. n + 1 /\ s[n + 1] = decl
        /\ \A i \in 1 .. n : s[i] = decls[i]
    BY <1>1, <1>2, AppendProperties
  <1>4. PICK info : info = ParseRule(decl) /\ info \in Rule
    BY ParseType
  <1>5. rule \in Rule
    BY DEF MadeOf
  <1>6. PICK b : b = Added(decls)[n] /\ b \in Seq(Words)
    <2>1. n \in 0 .. n
      BY <1>1
    <2> QED
      BY <1>1, <2>1, AddedFunction
  <1>7. PICK a : a = Added(s)[n + 1] /\ a = (IF decl.add THEN b \o decl.do ELSE b)
    BY <1>1, <1>2, <1>6, AddedAppend
  <1>8. /\ decl.do \in Seq(Words) /\ decl.add \in BOOLEAN /\ (decl.add => decl.do # <<>>)
        /\ info.do = (IF decl.add THEN <<>> ELSE decl.do) /\ info.adddo = (IF decl.add THEN decl.do ELSE <<>>)
    BY <1>4, ParseType DEF ParseRule
  <1>9. PICK W : W = Words /\ rule.do \in Seq(W) /\ info.do \in Seq(W) /\ info.adddo \in Seq(W)
                 /\ rule.inputs \in Seq(W) /\ info.inputs \in Seq(W)
                 /\ rule.depends \in Seq(W) /\ info.depends \in Seq(W)
    BY <1>4, <1>5 DEF Rule
  <1>10. PICK do \in Seq(W) : do = rule.do \o info.adddo
    BY <1>9, ConcatProperties
  <1>11. ASSUME Identical(info, rule)
         PROVE  new = rule /\ info.do = rule.do /\ info.depends = rule.depends
    BY <1>4, <1>11 DEF Identical
  <1>12. PICK depends \in Seq(W) : depends = rule.depends \o info.depends
    BY <1>9, ConcatProperties
  <1>13. PICK inputs \in Seq(W) : inputs = rule.inputs \o info.inputs
    BY <1>9, ConcatProperties
  <1>14. ASSUME ~Identical(info, rule)
         PROVE  /\ new \in Rule /\ new.depends = depends
                /\ new.do = IF do # <<>> THEN do ELSE info.do
    <2>1. new = Merge(rule, info)
      BY <1>4, <1>14
    <2>2. rule.phony + info.phony \in Nat
      BY <1>4, <1>5 DEF Rule
    <2>3. new = IF do # <<>>
                  THEN [rule EXCEPT !.depends = depends, !.phony = @ + info.phony, !.do = do, !.inputs = inputs]
                  ELSE [rule EXCEPT !.depends = depends, !.phony = @ + info.phony, !.do = info.do, !.inputs = info.inputs]
      BY <1>5, <1>10, <1>12, <1>13, <2>1 DEF Merge, Rule
    <2> QED
      BY <1>5, <1>9, <2>2, <2>3 DEF Rule
  <1>15. new \in Rule
    BY <1>5, <1>11, <1>14
  <1>16. Range(new.depends) = UNION {Range(c.depends) \union Range(c.inputs) : c \in Range(s)}
    <2>1. Range(rule.depends) = UNION {Range(c.depends) \union Range(c.inputs) : c \in Range(decls)}
      BY DEF MadeOf
    <2>2. Range(s) = Range(decls) \union {decl}
      BY <1>2, RangeAppend
    <2>3. UNION {Range(c.depends) \union Range(c.inputs) : c \in Range(s)}
            = Range(rule.depends) \union (Range(decl.depends) \union Range(decl.inputs))
      BY <2>1, <2>2
    <2>4. Range(info.depends) = Range(decl.depends) \union Range(decl.inputs)
      BY <1>4, ParseType
    <2>5. Range(new.depends) = Range(rule.depends) \union Range(info.depends)
      <3>1. CASE Identical(info, rule)
        BY <1>11, <3>1
      <3>2. CASE ~Identical(info, rule)
        <4>1. PICK p \in Seq(W), q \in Seq(W) : p = rule.depends /\ q = info.depends
          BY <1>9
        <4>2. Range(p \o q) = Range(p) \union Range(q)
          BY <4>1, RangeConcatenation
        <4>3. new.depends = p \o q
          BY <1>12, <1>14, <3>2, <4>1
        <4> QED
          BY <4>1, <4>2, <4>3
      <3> QED
        BY <3>1, <3>2
    <2> QED
      BY <2>3, <2>4, <2>5
  <1>17. ASSUME \A i \in DOMAIN s : s[i].do = <<>>
         PROVE  new.do = <<>> /\ Added(s)[Len(s)] = <<>>
    <2>1. decl.do = <<>> /\ \A i \in DOMAIN decls : decls[i].do = <<>>
      <3>1. n + 1 \in DOMAIN s /\ \A i \in 1 .. n : i \in DOMAIN s
        BY <1>3
      <3> QED
        BY <1>1, <1>3, <1>17, <3>1
    <2>2. rule.do = <<>> /\ b = <<>>
      BY <1>1, <1>6, <2>1 DEF MadeOf
    <2>3. ~decl.add /\ info.do = <<>> /\ info.adddo = <<>> /\ a = <<>>
      BY <1>7, <1>8, <2>1, <2>2
    <2>4. do = <<>>
      BY <1>9, <1>10, <2>2, <2>3, ConcatEmptySeq
    <2> QED
      BY <1>3, <1>7, <1>11, <1>14, <2>2, <2>3, <2>4
  <1>18. ASSUME NEW i \in DOMAIN s, s[i].do # <<>>, ~s[i].add, \A j \in 1 .. i - 1 : s[j].do = <<>>
         PROVE  new.do = s[i].do \o Added(s)[Len(s)]
    <2>1. CASE i \in 1 .. n
      <3>1. decls[i].do # <<>> /\ ~decls[i].add /\ \A j \in 1 .. i - 1 : decls[j].do = <<>>
        BY <1>3, <1>18, <2>1
      <3>2. rule.do = decls[i].do \o b
        BY <1>1, <1>6, <2>1, <3>1 DEF MadeOf
      <3>3. PICK d \in Seq(W) : d = decls[i].do
        <4>1. decls[i] \in Decls
          BY <1>1, <2>1, ElementOfSeq
        <4> QED
          BY <1>9, <4>1, ParseType
      <3>4. s[i].do = d /\ d # <<>>
        BY <1>3, <2>1, <3>1, <3>3
      <3>5. rule.do # <<>> /\ b \in Seq(W)
        BY <1>6, <1>9, <3>2, <3>3, <3>4, ConcatSimplifications
      <3>6. CASE Identical(info, rule)
        <4>1. ~decl.add
          BY <1>8, <1>11, <3>5, <3>6
        <4> QED
          BY <1>3, <1>7, <1>11, <3>2, <3>3, <3>4, <3>6, <4>1
      <3>7. CASE ~Identical(info, rule)
        <4>1. do # <<>>
          BY <1>9, <1>10, <3>5, ConcatSimplifications
        <4>2. new.do = (d \o b) \o info.adddo
          BY <1>10, <1>14, <3>2, <3>3, <3>7, <4>1
        <4>3. (d \o b) \o info.adddo = d \o (b \o info.adddo)
          <5>1. PICK c \in Seq(W), x \in Seq(W) : c = b /\ x = info.adddo
            BY <1>9, <3>5
          <5>2. (d \o c) \o x = d \o (c \o x)
            OBVIOUS
          <5> QED
            BY <5>1, <5>2
        <4>4. b \o info.adddo = a
          BY <1>7, <1>8, <3>5, ConcatEmptySeq
        <4> QED
          BY <1>3, <1>7, <3>4, <4>2, <4>3, <4>4
      <3> QED
        BY <3>6, <3>7
    <2>2. CASE i = n + 1
      <3>1. decl.do # <<>> /\ ~decl.add /\ \A j \in DOMAIN decls : decls[j].do = <<>>
        <4>1. \A j \in 1 .. n : j \in 1 .. i - 1
          BY <2>2
        <4> QED
          BY <1>1, <1>3, <1>18, <2>2, <4>1
      <3>2. rule.do = <<>> /\ b = <<>> /\ a = <<>>
        BY <1>1, <1>6, <1>7, <3>1 DEF MadeOf
      <3>3. info.do = decl.do /\ info.adddo = <<>>
        BY <1>8, <3>1
      <3>4. do = <<>>
        BY <1>9, <1>10, <3>2, <3>3, ConcatEmptySeq
      <3>5. new.do = decl.do
        BY <1>11, <1>14, <3>1, <3>2, <3>3, <3>4
      <3>6. decl.do \o <<>> = decl.do
        BY <1>9, <3>3, ConcatEmptySeq
      <3> QED
        BY <1>3, <1>7, <2>2, <3>2, <3>5, <3>6
    <2>3. i \in 1 .. n \/ i = n + 1
      BY <1>3
    <2> QED
      BY <2>1, <2>2, <2>3
  <1>19. MadeOf(new, s)
    BY <1>15, <1>16, <1>17, <1>18 DEF MadeOf
  <1> QED
    BY <1>2, <1>19

\* A declaration leaves the other rules as they are.
LEMMA TargetOther ==
  ASSUME NEW R, NEW d, NEW decl, NEW t, t # d
  PROVE  /\ t \in DOMAIN Target(R, d, decl) <=> t \in DOMAIN R
         /\ t \in DOMAIN R => Target(R, d, decl)[t] = R[t]
  BY DEF Target

\* So do the rules of the directories.
LEMMA PrologOther ==
  ASSUME NEW d \in Dirs, NEW t \in Shared
  PROVE  /\ t \in DOMAIN Prolog(d) <=> t \in DOMAIN rules
         /\ t \in DOMAIN rules => Prolog(d)[t] = rules[t]
  <1>1. t \notin Dirs /\ Parent[d] \in Dirs
    BY DescriptionsAssumption
  <1>2. PICK R : R = Target(rules, d, [Plain EXCEPT !.phony = TRUE])
    OBVIOUS
  <1>3. (t \in DOMAIN R <=> t \in DOMAIN rules) /\ (t \in DOMAIN rules => R[t] = rules[t])
    BY <1>1, <1>2, TargetOther
  <1>4. PICK decl : decl = [Plain EXCEPT !.phony = TRUE, !.depends = <<d>>]
    OBVIOUS
  <1>5. PICK Q : Q = Target(R, Parent[d], decl)
    OBVIOUS
  <1>6. (t \in DOMAIN Q <=> t \in DOMAIN R) /\ (t \in DOMAIN R => Q[t] = R[t])
    BY <1>1, <1>5, TargetOther
  <1>7. Prolog(d) \in {rules, Q}
    BY <1>2, <1>4, <1>5 DEF Prolog
  <1> QED
    BY <1>3, <1>6, <1>7

LEMMA RulesStep ==
  ASSUME TypeOK, RulesOK, [Next]_vars
  PROVE  RulesOK'
  <1>1. ASSUME declared' = declared,
               \A t \in Shared : /\ t \in DOMAIN rules' <=> t \in DOMAIN rules
                                 /\ t \in DOMAIN rules => rules'[t] = rules[t]
        PROVE  RulesOK'
    BY <1>1 DEF RulesOK
  <1>2. CASE UNCHANGED <<rules, declared>>
    BY <1>1, <1>2
  <1>3. CASE \E d \in Dirs : rules' = Prolog(d) /\ declared' = declared
    <2>1. PICK d \in Dirs : rules' = Prolog(d) /\ declared' = declared
      BY <1>3
    <2> QED
      BY <1>1, <2>1, PrologOther
  <1>4. CASE \E t \in Shared, decl \in Decls : Declare(t, decl)
    <2>1. PICK d \in Shared, decl \in Decls : Declare(d, decl)
      BY <1>4
    <2>2. CASE ~Valid(rules, d, decl)
      <3>1. UNCHANGED <<rules, declared>>
        BY <2>1, <2>2 DEF Declare, base
      <3> QED
        BY <1>2, <3>1
    <2>3. CASE Valid(rules, d, decl)
      <3>1. rules' = Target(rules, d, decl) /\ declared' = [declared EXCEPT ![d] = Append(@, decl)]
        BY <2>1, <2>3 DEF Declare
      <3>2. ASSUME NEW t \in Shared, t # d
            PROVE  /\ t \in DOMAIN rules' <=> declared'[t] # <<>>
                   /\ t \in DOMAIN rules' => MadeOf(rules'[t], declared'[t])
        <4>1. declared'[t] = declared[t]
          BY <3>1, <3>2 DEF TypeOK
        <4>2. (t \in DOMAIN rules' <=> t \in DOMAIN rules) /\ (t \in DOMAIN rules => rules'[t] = rules[t])
          BY <3>1, <3>2, TargetOther
        <4> QED
          BY <4>1, <4>2 DEF RulesOK
      <3>3. d \in DOMAIN rules' /\ declared'[d] # <<>> /\ MadeOf(rules'[d], declared'[d])
        <4>1. PICK s \in Seq(Decls) : s = declared[d]
          BY DEF TypeOK
        <4>2. declared'[d] = Append(s, decl)
          BY <3>1, <4>1 DEF TypeOK
        <4>3. Append(s, decl) # <<>>
          BY AppendProperties
        <4>4. d \in DOMAIN rules' /\ rules'[d] = Declared(rules, d, decl)
          BY <3>1 DEF Target
        <4>5. CASE d \notin DOMAIN rules
          <5>1. s = <<>>
            BY <4>1, <4>5 DEF RulesOK
          <5>2. rules'[d] = ParseRule(decl)
            BY <4>4, <4>5 DEF Declared
          <5> QED
            BY <4>2, <4>3, <4>4, <5>1, <5>2, MadeOfFirst
        <4>6. CASE d \in DOMAIN rules
          <5>1. PICK rule : rule = rules[d] /\ MadeOf(rule, s) /\ s # <<>>
            BY <4>1, <4>6 DEF RulesOK
          <5>2. rules'[d] = IF Identical(ParseRule(decl), rule) THEN rule ELSE Merge(rule, ParseRule(decl))
            BY <4>4, <4>6, <5>1 DEF Declared
          <5>3. PICK new : new = rules'[d]
            OBVIOUS
          <5>4. MadeOf(new, Append(s, decl))
            BY <5>1, <5>2, <5>3, MadeOfNext
          <5> QED
            BY <4>2, <4>3, <4>4, <5>3, <5>4
        <4> QED
          BY <4>5, <4>6
      <3> QED
        BY <3>2, <3>3 DEF RulesOK
    <2> QED
      BY <2>2, <2>3
  <1>5. ASSUME ~UNCHANGED <<rules, declared>>
        PROVE  \/ \E d \in Dirs : rules' = Prolog(d) /\ declared' = declared
               \/ \E t \in Shared, decl \in Decls : Declare(t, decl)
    <2>1. CASE \E v \in Vars : Define(v) \/ DefineFixed(v) \/ DefineDefault(v) \/ DefineAppend(v)
      BY <1>5, <2>1 DEF Define, DefineFixed, DefineDefault, DefineAppend, base
    <2>2. CASE \/ \E dir \in ScopeDirs : OpenScope(dir)
               \/ CloseScope
               \/ \E d \in Dirs : SubDirs(d)
               \/ \E onoff \in BOOLEAN : AutoSubDirs(onoff)
               \/ \E result \in {"ok", "skip", "error"} : EndDescription(result)
               \/ ReturnFromScope
               \/ Finish \/ Finished \/ UNCHANGED vars
      BY <1>5, <2>2 DEF OpenScope, CloseScope, SubDirs, AutoSubDirs, EndDescription, ReturnFromScope,
                        Finish, Finished, base, vars
    <2>3. CASE EpilogFails \/ EpilogVirtual \/ EpilogSpec
      BY <1>5, <2>3 DEF EpilogFails, EpilogVirtual, EpilogSpec, Epilog, base
    <2>4. CASE \E d \in Dirs : VirtualSubDir(d)
      <3>1. PICK d \in Dirs : VirtualSubDir(d)
        BY <2>4
      <3>2. Begin("virtual", d)
        BY <1>5, <3>1 DEF VirtualSubDir, base
      <3> QED
        BY <3>2 DEF Begin
    <2>5. CASE ReadSpec
      <3>1. PICK d \in Dirs : d = Head(todo)
        BY <2>5, HeadTailProperties DEF ReadSpec, TypeOK
      <3>2. Begin("spec", d)
        BY <2>5, <3>1 DEF ReadSpec
      <3> QED
        BY <3>2 DEF Begin
    <2> QED
      BY <2>1, <2>2, <2>3, <2>4, <2>5 DEF Next
  <1> QED
    BY <1>2, <1>3, <1>4, <1>5

-----------------------------------------------------------------------------
(* The invariant. *)

\* When tmake is done, all directories that are due have been read.
LEMMA EntersStep ==
  ASSUME TypeOK, WalkOK, EntersAll, [Next]_vars
  PROVE  EntersAll'
  <1>1. SUFFICES ASSUME pc' = "done", ~nested' PROVE \A d \in listed' : Range(Listing[d]) \subseteq entered'
    BY DEF EntersAll
  <1>2. CASE UNCHANGED vars
    BY <1>1, <1>2 DEF EntersAll, vars, control, walk
  <1>3. CASE Finish
    <2>1. UNCHANGED <<listed, nested, entered>> /\ todo = <<>>
      BY <1>3 DEF Finish, walk
    <2>2. Range(todo) = {}
      BY <2>1, EmptySeq DEF Range
    <2> QED
      BY <1>1, <2>1, <2>2 DEF WalkOK
  <1>4. CASE Finished
    BY <1>2, <1>4 DEF Finished
  <1>5. ASSUME Next, ~Finish, ~Finished PROVE pc' # "done"
    <2>1. CASE \E v \in Vars : Define(v) \/ DefineFixed(v) \/ DefineDefault(v) \/ DefineAppend(v)
      BY <2>1 DEF Define, DefineFixed, DefineDefault, DefineAppend, Command
    <2>2. CASE \/ \E dir \in ScopeDirs : OpenScope(dir)
               \/ CloseScope
               \/ \E d \in Dirs : VirtualSubDir(d) \/ SubDirs(d)
               \/ \E onoff \in BOOLEAN : AutoSubDirs(onoff)
               \/ ReadSpec
               \/ ReturnFromScope
      BY <2>2 DEF OpenScope, CloseScope, VirtualSubDir, SubDirs, AutoSubDirs, ReadSpec, ReturnFromScope,
                  Command, control
    <2>3. CASE \E t \in Shared, decl \in Decls : Declare(t, decl)
      BY <2>3 DEF Declare
    <2>4. CASE \/ \E result \in {"ok", "skip", "error"} : EndDescription(result)
               \/ EpilogFails
      BY <2>4 DEF EndDescription, EpilogFails, Ends
    <2>5. CASE EpilogVirtual \/ EpilogSpec
      BY <2>5 DEF EpilogVirtual, EpilogSpec
    <2> QED
      BY <1>5, <2>1, <2>2, <2>3, <2>4, <2>5 DEF Next
  <1> QED
    BY <1>1, <1>2, <1>3, <1>4, <1>5

LEMMA InitOK ==
  ASSUME Init
  PROVE  IInv
  <1>1. PICK here : here = [kind |-> "project", id |-> 0, dir |-> Top, within |-> FALSE,
                            defines |-> Unset, localdir |-> Top]
    OBVIOUS
  <1>2. Unset \in [Vars -> Seq(Nat)]
    BY EmptySeq DEF Unset
  <1>3. here \in Scopes
    BY <1>1, <1>2, DescriptionsAssumption DEF Scopes
  <1>4. /\ open = <<here>> /\ open \in Seq(Scopes) /\ Len(open) = 1 /\ DOMAIN open = 1 .. 1
        /\ open[1] = here /\ Here = here
    BY <1>1, <1>3 DEF Init, Here, Last
  <1>5. /\ log = <<>> /\ log \in Seq(Entry) /\ Len(log) = 0 /\ DOMAIN log = {}
        /\ Range(<<>>) = {} /\ Range(subdirs) = {} /\ Range(todo) = {Top}
    <2>1. log = <<>> /\ subdirs = <<>> /\ todo = <<Top>>
      BY DEF Init
    <2>2. DOMAIN <<>> = {} /\ Range(<<>>) = {}
      BY DEF Range
    <2>3. Range(<<Top>>) = {Top}
      BY DEF Range
    <2>4. <<>> \in Seq(Entry) /\ Len(<<>>) = 0
      BY EmptySeq
    <2> QED
      BY <2>1, <2>2, <2>3, <2>4
  <1>6. Replay(log) = Nothing
    BY <1>5, ReplayEmpty
  <1>7. TypeOK
    <2>1. /\ uses \in Projects /\ pc = "body" /\ rc = "ok" /\ defines = Unset /\ frame = Unset
          /\ fixed = {} /\ localdir \in Dirs /\ auto = TRUE /\ skip = {}
          /\ count = 0 /\ ids = 0 /\ MaxCommands \in Nat
          /\ escaped = {} /\ entered = {} /\ listed = {} /\ nested = FALSE /\ erred = FALSE
      BY DescriptionsAssumption DEF Init
    <2>2. <<Top>> \in Seq(Dirs) /\ <<>> \in Seq(Dirs) /\ <<>> \in Seq(Decls)
      BY DescriptionsAssumption, EmptySeq
    <2>3. todo \in Seq(Dirs) /\ subdirs \in Seq(Dirs) /\ declared \in [Shared -> Seq(Decls)]
      BY <2>2 DEF Init
    <2>4. 0 \in 0 .. MaxCommands
      BY <2>1
    <2> QED
      BY <1>2, <1>4, <1>5, <2>1, <2>3, <2>4 DEF TypeOK, Scopes, Entry
  <1>8. NestingOK
    BY <1>1, <1>4 DEF Init, NestingOK
  <1>9. IdsOK
    BY <1>1, <1>4 DEF Init, IdsOK
  <1>10. PlaceOK
    BY <1>4 DEF PlaceOK
  <1>11. LogOK
    BY <1>1, <1>4, <1>5 DEF LogOK
  <1>12. CurrentOK
    BY <1>1, <1>4, <1>6 DEF Init, CurrentOK, Agree, Nothing
  <1>13. TopFirst
    BY <1>4, <1>5 DEF Init, TopFirst, SpecOpen
  <1>14. WalkOK
    BY DEF Init, WalkOK
  <1>15. EntersAll
    BY DEF Init, EntersAll
  <1>16. RulesOK
    <2>1. DOMAIN rules = {Top} /\ declared = [t \in Shared |-> <<>>]
      <3>1. DOMAIN <<>> = {}
        OBVIOUS
      <3> QED
        BY <3>1 DEF Init, Target
    <2>2. \A t \in Shared : t \notin DOMAIN rules /\ declared[t] = <<>>
      BY <2>1, DescriptionsAssumption
    <2> QED
      BY <2>2 DEF RulesOK
  <1> QED
    BY <1>7, <1>8, <1>9, <1>10, <1>11, <1>12, <1>13, <1>14, <1>15, <1>16 DEF IInv, StackOK

LEMMA Step ==
  ASSUME IInv, [Next]_vars
  PROVE  IInv'
  <1>1. TypeOK /\ StackOK /\ TopFirst /\ WalkOK /\ EntersAll /\ RulesOK
    BY DEF IInv
  <1>2. TypeOK' /\ StackOK'
    <2>1. CASE \E v \in Vars : Define(v) \/ DefineFixed(v) \/ DefineDefault(v) \/ DefineAppend(v)
      BY <1>1, <2>1, DefineStep
    <2>2. CASE \/ \E dir \in ScopeDirs : OpenScope(dir)
               \/ \E d \in Dirs : VirtualSubDir(d)
               \/ ReadSpec
      BY <1>1, <2>2, BeginStep
    <2>3. CASE \/ CloseScope
               \/ \E result \in {"ok", "skip", "error"} : EndDescription(result)
               \/ ReturnFromScope \/ EpilogFails \/ EpilogVirtual \/ EpilogSpec
      BY <1>1, <2>3, EndStep
    <2>4. CASE \/ \E d \in Dirs : SubDirs(d)
               \/ \E onoff \in BOOLEAN : AutoSubDirs(onoff)
               \/ \E t \in Shared, decl \in Decls : Declare(t, decl)
               \/ Finish \/ UNCHANGED vars
      BY <1>1, <2>4, OtherStep
    <2>5. CASE Finished
      BY <2>4, <2>5 DEF Finished
    <2> QED
      BY <2>1, <2>2, <2>3, <2>4, <2>5 DEF Next
  <1>3. TopFirst' /\ WalkOK'
    BY <1>1, WalkStep
  <1>4. EntersAll'
    BY <1>1, EntersStep
  <1>5. RulesOK'
    BY <1>1, RulesStep
  <1> QED
    BY <1>2, <1>3, <1>4, <1>5 DEF IInv

\* What is true of the descriptions that are open, of the directories still to be
\* read and of the rules, at every step of load-build-description.
THEOREM DescriptionsInvariance == Spec => []IInv
  <1>1. Init => IInv
    BY InitOK
  <1>2. IInv /\ [Next]_vars => IInv'
    BY Step
  <1> QED
    BY <1>1, <1>2, PTL DEF Spec

\* The variables of the interpreter have their types while descriptions are read.
THEOREM DescriptionsType == Spec => []TypeOK
  <1>1. IInv => TypeOK
    BY DEF IInv
  <1> QED
    BY <1>1, DescriptionsInvariance, PTL

\* A description that has ended, and a scope in it, leaves nothing behind of what
\* it has defined, however scopes and descriptions are nested.
THEOREM ScopingLexical == Spec => []LexicalScoping
  <1>1. ASSUME IInv, pc = "body", escaped = {}, fixed = Replay(log).fixed
        PROVE  defines = Replay(log).defines
    <2>1. TypeOK /\ CurrentOK
      BY <1>1 DEF IInv, StackOK
    <2>2. Clean(Len(open))
      BY <1>1 DEF Clean
    <2>3. \A v \in Vars : defines[v] = Replay(log).defines[v]
      BY <1>1, <2>1, <2>2 DEF CurrentOK, Agree
    <2>4. Replay(log).defines \in [Vars -> Seq(Nat)] /\ defines \in [Vars -> Seq(Nat)]
      <3>1. log \in Seq(Entry)
        BY <2>1 DEF TypeOK, Entry
      <3>2. Replay(log) \in Env
        BY <3>1, ReplayType
      <3> QED
        BY <2>1, <3>2 DEF TypeOK, Env
    <2> QED
      BY <2>3, <2>4
  <1>2. IInv => LexicalScoping
    BY <1>1 DEF LexicalScoping
  <1> QED
    BY <1>2, DescriptionsInvariance, PTL

\* The commands of a description see its definitions as variables, and run in the
\* directory of the innermost scope.
THEOREM CommandsInPlace == Spec => []InPlace
  <1>1. ASSUME IInv, pc = "body"
        PROVE  frame = defines /\ (escaped = {} => localdir = Here.dir)
    <2>1. CurrentOK
      BY <1>1 DEF IInv, StackOK
    <2>2. escaped = {} => Clean(Len(open))
      BY DEF Clean
    <2> QED
      BY <1>1, <2>1, <2>2 DEF CurrentOK
  <1>2. IInv => InPlace
    BY <1>1 DEF InPlace
  <1> QED
    BY <1>2, DescriptionsInvariance, PTL

\* No subdirectory that is due is forgotten when the descriptions have been read.
THEOREM AllEntered == Spec => []EntersAll
  <1>1. IInv => EntersAll
    BY DEF IInv
  <1> QED
    BY <1>1, DescriptionsInvariance, PTL

\* Merging the declarations of a rule loses no dependency, and invents none.
THEOREM DependenciesKept == Spec => []DependsKept
  <1>1. IInv => DependsKept
    BY DEF IInv, RulesOK, DependsKept, MadeOf
  <1> QED
    BY <1>1, DescriptionsInvariance, PTL

\* Merging them keeps the first commands and, in order, those that are added.
THEOREM CommandsAreKept == Spec => []CommandsKept
  <1>1. ASSUME IInv, NEW t \in Shared, NEW i \in DOMAIN declared[t],
               declared[t][i].do # <<>>, ~declared[t][i].add,
               \A j \in 1 .. i - 1 : declared[t][j].do = <<>>
        PROVE  rules[t].do = declared[t][i].do \o Added(declared[t])[Len(declared[t])]
    <2>1. PICK s \in Seq(Decls) : s = declared[t]
      BY <1>1 DEF IInv, TypeOK
    <2>2. s # <<>>
      BY <1>1, <2>1
    <2>3. MadeOf(rules[t], s)
      BY <1>1, <2>1, <2>2 DEF IInv, RulesOK
    <2> QED
      BY <1>1, <2>1, <2>3 DEF MadeOf
  <1>2. IInv => CommandsKept
    BY <1>1 DEF CommandsKept
  <1> QED
    BY <1>2, DescriptionsInvariance, PTL
=============================================================================
