----------------------------- MODULE DataLemmas -----------------------------
(***************************************************************************)
(* Induction over the natural numbers, and what it shows of the loops the  *)
(* models are built from.  The induction theorems of the library take a    *)
(* predicate; here the same is said of a set, out of WFMin.                *)
(***************************************************************************)
EXTENDS Integers, Sequences, FiniteSets, Functions, FiniteSetTheorems, WellFoundedInduction, TLAPS

Smaller == OpToRel(<, Nat)

\* A set of natural numbers has a least element.
LEMMA LeastNatural ==
  ASSUME NEW T \in SUBSET Nat, T # {}
  PROVE  \E x \in T : \A y \in T : x <= y
<1>1. IsWellFoundedOn(Smaller, Nat)
  BY NatLessThanWellFounded DEF Smaller
<1>2. PICK x \in T : \A y \in T : <<y, x>> \notin Smaller
  BY <1>1, WFMin
<1>3. ASSUME NEW y \in T
      PROVE  x <= y
  <2>1. x \in Nat /\ y \in Nat
    OBVIOUS
  <2>2. <<y, x>> \notin Smaller
    BY <1>2
  <2>3. ~(y < x)
    BY <2>1, <2>2 DEF Smaller, OpToRel
  <2> QED
    BY <2>1, <2>3
<1> QED
  BY <1>3

\* A set that holds 0 and with n also n + 1 holds every natural number.
LEMMA NaturalInduction ==
  ASSUME NEW S \in SUBSET Nat, 0 \in S, \A n \in S : n + 1 \in S
  PROVE  Nat \subseteq S
<1> SUFFICES ASSUME Nat \ S # {}
             PROVE  FALSE
  OBVIOUS
<1>1. PICK n \in Nat \ S : \A m \in Nat \ S : n <= m
  BY LeastNatural
<1>2. n # 0 /\ n - 1 \in Nat /\ ~(n <= n - 1)
  BY <1>1
<1>3. n - 1 \in S
  BY <1>1, <1>2
<1> QED
  BY <1>1, <1>2, <1>3

-----------------------------------------------------------------------------
(* A loop that keeps the events after a cut                                *)

Later(events, cut) ==
  LET kept[i \in 0..Len(events)] ==
        IF i = 0 THEN << >>
        ELSE IF events[i] > cut THEN Append(kept[i - 1], events[i])
        ELSE kept[i - 1]
  IN  kept[Len(events)]

\* One round of the loop, given what the rounds before it kept.
Round(events, cut, kept) ==
  [i \in 0..Len(events) |->
     IF i = 0 THEN << >>
     ELSE IF events[i] > cut THEN Append(kept[i - 1], events[i])
     ELSE kept[i - 1]]

Rounds(events, cut) == CHOOSE kept : kept = Round(events, cut, kept)

LEMMA LaterIs ==
  ASSUME NEW events, NEW cut
  PROVE  Later(events, cut) = Rounds(events, cut)[Len(events)]
BY DEF Later, Rounds, Round

LEMMA RoundsExist ==
  ASSUME NEW S \in SUBSET Int, NEW events \in Seq(S), NEW cut \in Int
  PROVE  Rounds(events, cut) = Round(events, cut, Rounds(events, cut))
<1> DEFINE Done(kept, n) ==
             /\ kept = [i \in 0..Len(events) |-> kept[i]]
             /\ \A i \in 0..Len(events) : i <= n => kept[i] = Round(events, cut, kept)[i]
           Reached == { n \in Nat : \E kept : Done(kept, n) }
<1>0. Len(events) \in Nat
  OBVIOUS
<1>1. 0 \in Reached
  <2> DEFINE kept == [i \in 0..Len(events) |-> << >>]
  <2>1. Done(kept, 0)
    BY <1>0 DEF Round
  <2> QED
    BY <2>1
<1>2. ASSUME NEW n \in Reached
      PROVE  n + 1 \in Reached
  <2>1. PICK kept : Done(kept, n)
    BY <1>2
  <2> DEFINE next == Round(events, cut, kept)
  <2>2. next = [i \in 0..Len(events) |-> next[i]]
    BY DEF Round
  <2>3. \A i \in 0..Len(events) : i <= n => kept[i] = next[i]
    BY <2>1
  <2>4. ASSUME NEW i \in 0..Len(events), i <= n + 1
        PROVE  next[i] = Round(events, cut, next)[i]
    <3>1. n \in Nat /\ i \in Nat
      BY <1>0, <1>2
    <3>2. CASE i = 0
      BY <3>2 DEF Round
    <3>3. CASE i # 0
      <4>1. i - 1 \in 0..Len(events) /\ i - 1 <= n
        BY <2>4, <3>1, <3>3
      <4>2. kept[i - 1] = next[i - 1]
        BY <2>3, <4>1
      <4> QED
        BY <3>3, <4>2 DEF Round
    <3> QED
      BY <3>2, <3>3
  <2> QED
    BY <1>2, <2>2, <2>4
<1>3. Len(events) \in Reached
  <2>1. Reached \in SUBSET Nat
    OBVIOUS
  <2> HIDE DEF Reached
  <2> QED
    BY <1>0, <1>1, <1>2, <2>1, NaturalInduction
<1>4. PICK kept : Done(kept, Len(events))
  BY <1>3
<1>5. \A i \in 0..Len(events) : kept[i] = Round(events, cut, kept)[i]
  BY <1>0, <1>4
<1>6. kept = Round(events, cut, kept)
  BY <1>4, <1>5 DEF Round
<1> QED
  BY <1>6 DEF Rounds

LEMMA EventIs ==
  ASSUME NEW S \in SUBSET Int, NEW events \in Seq(S), NEW i \in 1..Len(events)
  PROVE  events[i] \in S /\ events[i] \in Int
<1>1. events[i] \in S
  OBVIOUS
<1> QED
  BY <1>1

\* How many events of a sequence are after one stamp and not after another.
Among(events, after, until) == { i \in 1..Len(events) : after < events[i] /\ events[i] <= until }
Count(events, after, until) == Cardinality(Among(events, after, until))

LEMMA CountIs ==
  ASSUME NEW S \in SUBSET Int, NEW events \in Seq(S), NEW after \in Int, NEW until \in Int
  PROVE  /\ IsFiniteSet(Among(events, after, until))
         /\ Count(events, after, until) \in Nat
         /\ Count(events, after, until) <= Len(events)
<1>1. Len(events) \in Nat
  OBVIOUS
<1>2. IsFiniteSet(1..Len(events)) /\ Cardinality(1..Len(events)) = Len(events)
  BY <1>1, FS_Interval
<1>3. Among(events, after, until) \subseteq 1..Len(events)
  BY DEF Among
<1>4. IsFiniteSet(Among(events, after, until))
  BY <1>2, <1>3, FS_Subset
<1> QED
  BY <1>2, <1>3, <1>4, FS_Subset, FS_CardinalityType DEF Count

LEMMA CountAppend ==
  ASSUME NEW S \in SUBSET Int, NEW events \in Seq(S), NEW e \in S,
         NEW after \in Int, NEW until \in Int
  PROVE  Count(Append(events, e), after, until) =
           IF after < e /\ e <= until THEN Count(events, after, until) + 1
                                     ELSE Count(events, after, until)
<1> DEFINE n == Len(events) + 1
<1>1. /\ Len(events) \in Nat /\ Len(Append(events, e)) = n
      /\ \A i \in 1..Len(events) : Append(events, e)[i] = events[i]
      /\ Append(events, e)[n] = e
  OBVIOUS
<1>2. \A i : i \in 1..n <=> i \in 1..Len(events) \/ i = n
  BY <1>1
<1>3. n \notin Among(events, after, until)
  BY <1>1 DEF Among
<1>4. CASE after < e /\ e <= until
  <2>1. Among(Append(events, e), after, until) = Among(events, after, until) \cup {n}
    BY <1>1, <1>2, <1>4 DEF Among
  <2> QED
    BY <1>3, <1>4, <2>1, CountIs, FS_AddElement DEF Count
<1>5. CASE ~(after < e /\ e <= until)
  <2>1. Among(Append(events, e), after, until) = Among(events, after, until)
    BY <1>1, <1>2, <1>5 DEF Among
  <2> QED
    BY <1>5, <2>1 DEF Count
<1> QED
  BY <1>4, <1>5

\* Fewer events are in a smaller stretch.
LEMMA CountShrinks ==
  ASSUME NEW S \in SUBSET Int, NEW events \in Seq(S), NEW after \in Int,
         NEW until \in Int, NEW sooner \in Int, sooner <= until
  PROVE  Count(events, after, sooner) <= Count(events, after, until)
<1>1. Among(events, after, sooner) \subseteq Among(events, after, until)
  <2>1. \A i \in 1..Len(events) : events[i] \in Int
    BY EventIs
  <2> QED
    BY <2>1 DEF Among
<1> QED
  BY <1>1, CountIs, FS_Subset DEF Count

\* What the loop keeps: no more than there was, only what is after the cut, all of
\* it if it keeps as much as there was, and everything after any later stamp.
LEMMA LaterKeeps ==
  ASSUME NEW S \in SUBSET Int, NEW events \in Seq(S), NEW cut \in Int
  PROVE  /\ Later(events, cut) \in Seq(S)
         /\ Len(Later(events, cut)) <= Len(events)
         /\ \A j \in 1..Len(Later(events, cut)) : Later(events, cut)[j] > cut
         /\ Len(Later(events, cut)) = Len(events) => Later(events, cut) = events
         /\ \A after, until \in Int : after >= cut =>
              Count(Later(events, cut), after, until) = Count(events, after, until)
<1> DEFINE kept == Rounds(events, cut)
           First(n) == SubSeq(events, 1, n)
           Good(n) ==
             /\ kept[n] \in Seq(S)
             /\ Len(kept[n]) <= n
             /\ \A j \in 1..Len(kept[n]) : kept[n][j] > cut
             /\ Len(kept[n]) = n => kept[n] = First(n)
             /\ \A after, until \in Int : after >= cut =>
                  Count(kept[n], after, until) = Count(First(n), after, until)
           Reached == { n \in Nat : n <= Len(events) => Good(n) }
<1>0. Len(events) \in Nat
  OBVIOUS
<1>1. \A n \in 0..Len(events) :
        kept[n] = IF n = 0 THEN << >>
                  ELSE IF events[n] > cut THEN Append(kept[n - 1], events[n])
                  ELSE kept[n - 1]
  BY RoundsExist DEF Round
<1>2. 0 \in Reached
  <2>1. kept[0] = << >> /\ First(0) = << >>
    BY <1>0, <1>1
  <2> HIDE DEF First, kept
  <2>2. Good(0)
    BY <2>1
  <2> QED
    BY <2>2
<1>3. ASSUME NEW n \in Reached
      PROVE  n + 1 \in Reached
  <2> SUFFICES ASSUME n + 1 <= Len(events)
               PROVE  Good(n + 1)
    BY <1>3
  <2> DEFINE e == events[n + 1]
  <2>1. /\ n \in Nat /\ n \in 0..Len(events) /\ n + 1 \in 0..Len(events) /\ n + 1 # 0
        /\ (n + 1) - 1 = n /\ n + 1 \in 1..Len(events)
    BY <1>0, <1>3
  <2>0. e \in S /\ e \in Int
    BY <2>1, EventIs
  <2>2. Good(n)
    BY <1>3, <2>1
  <2>3. First(n + 1) = Append(First(n), e) /\ First(n) \in Seq(S) /\ Len(First(n)) = n
    BY <1>0, <2>1
  <2>4. kept[n + 1] = IF e > cut THEN Append(kept[n], e) ELSE kept[n]
    BY <1>1, <2>1
  <2> HIDE DEF First, kept, e
  <2>5. CASE e > cut
    <3>1. kept[n + 1] = Append(kept[n], e)
      BY <2>4, <2>5
    <3>2. /\ kept[n + 1] \in Seq(S) /\ Len(kept[n + 1]) = Len(kept[n]) + 1
          /\ Len(kept[n + 1]) <= n + 1
          /\ \A j \in 1..Len(kept[n + 1]) : kept[n + 1][j] > cut
          /\ Len(kept[n + 1]) = n + 1 => kept[n + 1] = First(n + 1)
      BY <2>0, <2>1, <2>2, <2>3, <2>5, <3>1
    <3>3. ASSUME NEW after \in Int, NEW until \in Int, after >= cut
          PROVE  Count(kept[n + 1], after, until) = Count(First(n + 1), after, until)
      <4>1. /\ kept[n] \in Seq(S)
            /\ Count(kept[n], after, until) = Count(First(n), after, until)
        BY <2>2, <3>3
      <4>2. /\ S \in SUBSET Int /\ First(n) \in Seq(S) /\ e \in S
            /\ First(n + 1) = Append(First(n), e)
        BY <2>0, <2>3
      <4> HIDE DEF Good
      <4>3. Count(Append(kept[n], e), after, until) = Count(Append(First(n), e), after, until)
        <5>1. Count(Append(kept[n], e), after, until) =
                IF after < e /\ e <= until THEN Count(kept[n], after, until) + 1
                                          ELSE Count(kept[n], after, until)
          BY <4>1, <4>2, CountAppend
        <5>2. Count(Append(First(n), e), after, until) =
                IF after < e /\ e <= until THEN Count(First(n), after, until) + 1
                                          ELSE Count(First(n), after, until)
          BY <4>2, CountAppend
        <5> QED
          BY <4>1, <5>1, <5>2
      <4> QED
        BY <3>1, <4>2, <4>3
    <3> QED
      BY <3>2, <3>3
  <2>6. CASE ~(e > cut)
    <3>1. kept[n + 1] = kept[n]
      BY <2>4, <2>6
    <3>2. /\ kept[n + 1] \in Seq(S) /\ Len(kept[n + 1]) <= n + 1
          /\ \A j \in 1..Len(kept[n + 1]) : kept[n + 1][j] > cut
          /\ Len(kept[n + 1]) # n + 1
      BY <2>1, <2>2, <3>1
    <3>3. ASSUME NEW after \in Int, NEW until \in Int, after >= cut
          PROVE  Count(kept[n + 1], after, until) = Count(First(n + 1), after, until)
      <4>1. ~(after < e)
        BY <2>0, <2>6, <3>3
      <4>2. Count(kept[n], after, until) = Count(First(n), after, until)
        BY <2>2, <3>3
      <4> HIDE DEF Good
      <4>3. Count(Append(First(n), e), after, until) =
              IF after < e /\ e <= until THEN Count(First(n), after, until) + 1
                                        ELSE Count(First(n), after, until)
        BY <2>0, <2>3, CountAppend
      <4> QED
        BY <2>3, <3>1, <4>1, <4>2, <4>3
    <3> QED
      BY <3>2, <3>3
  <2> QED
    BY <2>5, <2>6
<1>4. Len(events) \in Reached
  <2>1. Reached \in SUBSET Nat
    OBVIOUS
  <2> HIDE DEF Reached
  <2> QED
    BY <1>0, <1>2, <1>3, <2>1, NaturalInduction
<1>5. Good(Len(events))
  BY <1>0, <1>4
<1>6. First(Len(events)) = events /\ Later(events, cut) = kept[Len(events)]
  BY <1>0, LaterIs
<1> HIDE DEF First, kept
<1> QED
  BY <1>5, <1>6

-----------------------------------------------------------------------------
(* Sums                                                                    *)

\* One round of the fold behind a sum, and what the rounds end up with.
SumRound(f, S, sums) ==
  [s \in SUBSET S |->
     IF s = {} THEN 0
     ELSE f[CHOOSE x \in s : TRUE] + sums[s \ {CHOOSE x \in s : TRUE}]]

Sums(f, S) == CHOOSE sums : sums = SumRound(f, S, sums)

LEMMA SumIs ==
  ASSUME NEW f, NEW S
  PROVE  SumFunctionOnSet(f, S) = Sums(f, S)[S]
BY DEF SumFunctionOnSet, FoldFunctionOnSet, MapThenFoldSet, Sums, SumRound

LEMMA ChosenIs ==
  ASSUME NEW s, IsFiniteSet(s), s # {}
  PROVE  /\ (CHOOSE x \in s : TRUE) \in s
         /\ IsFiniteSet(s \ {CHOOSE x \in s : TRUE})
         /\ Cardinality(s) \in Nat /\ Cardinality(s) # 0
         /\ Cardinality(s \ {CHOOSE x \in s : TRUE}) = Cardinality(s) - 1
<1>1. (CHOOSE x \in s : TRUE) \in s
  OBVIOUS
<1> QED
  BY <1>1, FS_RemoveElement, FS_CardinalityType, FS_EmptySet

LEMMA WithoutOne ==
  ASSUME NEW S, IsFiniteSet(S), NEW n \in Nat, Cardinality(S) = n + 1
  PROVE  /\ S # {}
         /\ \A x \in S : S \ {x} \in SUBSET S /\ Cardinality(S \ {x}) = n
<1>1. S # {}
  BY FS_EmptySet
<1>2. \A x \in S : Cardinality(S \ {x}) = Cardinality(S) - 1
  BY FS_RemoveElement
<1> QED
  BY <1>1, <1>2

LEMMA SumsExist ==
  ASSUME NEW S, IsFiniteSet(S), NEW f
  PROVE  Sums(f, S) = SumRound(f, S, Sums(f, S))
<1> DEFINE Done(sums, n) ==
             /\ sums = [s \in SUBSET S |-> sums[s]]
             /\ \A s \in SUBSET S : Cardinality(s) <= n => sums[s] = SumRound(f, S, sums)[s]
           Reached == { n \in Nat : \E sums : Done(sums, n) }
<1>0. \A s \in SUBSET S : IsFiniteSet(s) /\ Cardinality(s) \in Nat /\ Cardinality(s) <= Cardinality(S)
  BY FS_Subset, FS_CardinalityType
<1>1. 0 \in Reached
  <2> DEFINE sums == [s \in SUBSET S |-> 0]
  <2>1. \A s \in SUBSET S : Cardinality(s) <= 0 => s = {}
    BY <1>0, FS_EmptySet
  <2>2. Done(sums, 0)
    BY <2>1 DEF SumRound
  <2> QED
    BY <2>2
<1>2. ASSUME NEW n \in Reached
      PROVE  n + 1 \in Reached
  <2>1. PICK sums : Done(sums, n)
    BY <1>2
  <2> DEFINE next == SumRound(f, S, sums)
  <2>2. next = [s \in SUBSET S |-> next[s]]
    BY DEF SumRound
  <2>3. \A s \in SUBSET S : Cardinality(s) <= n => sums[s] = next[s]
    BY <2>1
  <2>4. ASSUME NEW s \in SUBSET S, Cardinality(s) <= n + 1
        PROVE  next[s] = SumRound(f, S, next)[s]
    <3>1. n \in Nat
      BY <1>2
    <3>2. CASE s = {}
      BY <3>2 DEF SumRound
    <3>3. CASE s # {}
      <4> DEFINE less == s \ {CHOOSE x \in s : TRUE}
      <4>1. less \in SUBSET S /\ Cardinality(less) <= n
        BY <1>0, <2>4, <3>1, <3>3, ChosenIs
      <4>2. sums[less] = next[less]
        BY <2>3, <4>1
      <4>3. next[s] = f[CHOOSE x \in s : TRUE] + sums[less]
        BY <3>3 DEF SumRound
      <4>4. SumRound(f, S, next)[s] = f[CHOOSE x \in s : TRUE] + next[less]
        BY <3>3 DEF SumRound
      <4> QED
        BY <4>2, <4>3, <4>4
    <3> QED
      BY <3>2, <3>3
  <2> HIDE DEF next
  <2>5. Done(next, n + 1)
    BY <2>2, <2>4
  <2> HIDE DEF Done
  <2>6. n \in Nat /\ \E result : Done(result, n + 1)
    BY <1>2, <2>5
  <2> QED
    BY <2>6
<1>3. Cardinality(S) \in Reached
  <2>1. Reached \in SUBSET Nat /\ Cardinality(S) \in Nat
    BY <1>0
  <2> HIDE DEF Reached
  <2> QED
    BY <1>1, <1>2, <2>1, NaturalInduction
<1>4. PICK sums : Done(sums, Cardinality(S))
  BY <1>3
<1>5. \A s \in SUBSET S : sums[s] = SumRound(f, S, sums)[s]
  BY <1>0, <1>4
<1>6. sums = SumRound(f, S, sums)
  BY <1>4, <1>5 DEF SumRound
<1> QED
  BY <1>6 DEF Sums

\* What the rounds of a larger set hold for a smaller one is the smaller one's sum.
LEMMA SumsAgree ==
  ASSUME NEW S, IsFiniteSet(S), NEW f, NEW T \in SUBSET S
  PROVE  Sums(f, S)[T] = Sums(f, T)[T]
<1> DEFINE Agree(n) == \A s \in SUBSET T : Cardinality(s) = n => Sums(f, S)[s] = Sums(f, T)[s]
           Reached == { n \in Nat : Agree(n) }
<1>0. /\ IsFiniteSet(T)
      /\ \A s \in SUBSET T : IsFiniteSet(s) /\ Cardinality(s) \in Nat
  BY FS_Subset, FS_CardinalityType
<1>1. /\ Sums(f, S) = SumRound(f, S, Sums(f, S))
      /\ Sums(f, T) = SumRound(f, T, Sums(f, T))
  BY <1>0, SumsExist
<1>2. 0 \in Reached
  <2>1. \A s \in SUBSET T : Cardinality(s) = 0 => s = {}
    BY <1>0, FS_EmptySet
  <2>2. Sums(f, S)[{}] = 0 /\ Sums(f, T)[{}] = 0
    <3>1. SumRound(f, S, Sums(f, S))[{}] = 0 /\ SumRound(f, T, Sums(f, T))[{}] = 0
      BY DEF SumRound
    <3> QED
      BY <1>1, <3>1
  <2> QED
    BY <2>1, <2>2
<1>3. ASSUME NEW n \in Reached
      PROVE  n + 1 \in Reached
  <2> SUFFICES ASSUME NEW s \in SUBSET T, Cardinality(s) = n + 1
               PROVE  Sums(f, S)[s] = Sums(f, T)[s]
    BY <1>3
  <2> DEFINE less == s \ {CHOOSE x \in s : TRUE}
  <2>1. n \in Nat /\ s # {}
    BY <1>3, FS_EmptySet
  <2>2. less \in SUBSET T /\ Cardinality(less) = n
    BY <1>0, <2>1, ChosenIs
  <2>3. Sums(f, S)[less] = Sums(f, T)[less]
    BY <1>3, <2>2
  <2>4. /\ SumRound(f, S, Sums(f, S))[s] = f[CHOOSE x \in s : TRUE] + Sums(f, S)[less]
        /\ SumRound(f, T, Sums(f, T))[s] = f[CHOOSE x \in s : TRUE] + Sums(f, T)[less]
    BY <2>1 DEF SumRound
  <2> QED
    BY <1>1, <2>3, <2>4
<1>4. Cardinality(T) \in Reached
  <2>1. Reached \in SUBSET Nat /\ Cardinality(T) \in Nat
    BY <1>0
  <2> HIDE DEF Reached
  <2> QED
    BY <1>2, <1>3, <2>1, NaturalInduction
<1> QED
  BY <1>4

LEMMA SumOfNone ==
  ASSUME NEW f
  PROVE  SumFunctionOnSet(f, {}) = 0
<1>1. Sums(f, {}) = SumRound(f, {}, Sums(f, {}))
  BY FS_EmptySet, SumsExist
<1>2. SumRound(f, {}, Sums(f, {}))[{}] = 0
  BY DEF SumRound
<1> QED
  BY <1>1, <1>2, SumIs

LEMMA SumOfChosen ==
  ASSUME NEW S, IsFiniteSet(S), S # {}, NEW f
  PROVE  SumFunctionOnSet(f, S) =
           f[CHOOSE x \in S : TRUE] + SumFunctionOnSet(f, S \ {CHOOSE x \in S : TRUE})
<1> DEFINE less == S \ {CHOOSE x \in S : TRUE}
<1>1. Sums(f, S) = SumRound(f, S, Sums(f, S))
  BY SumsExist
<1>2. SumRound(f, S, Sums(f, S))[S] = f[CHOOSE x \in S : TRUE] + Sums(f, S)[less]
  BY DEF SumRound
<1>3. Sums(f, S)[less] = Sums(f, less)[less]
  BY SumsAgree
<1> QED
  BY <1>1, <1>2, <1>3, SumIs

LEMMA SumTyped ==
  ASSUME NEW R \in {Nat, Int}, NEW S, IsFiniteSet(S), NEW f, \A x \in S : f[x] \in R
  PROVE  SumFunctionOnSet(f, S) \in R
<1> DEFINE Sum(s) == SumFunctionOnSet(f, s)
           Reached == { n \in Nat : \A s \in SUBSET S : Cardinality(s) = n => Sum(s) \in R }
<1>0. /\ \A s \in SUBSET S : IsFiniteSet(s) /\ Cardinality(s) \in Nat
      /\ 0 \in R /\ \A a, b \in R : a + b \in R
  BY FS_Subset, FS_CardinalityType
<1>1. 0 \in Reached
  BY <1>0, FS_EmptySet, SumOfNone
<1>2. ASSUME NEW n \in Reached
      PROVE  n + 1 \in Reached
  <2> SUFFICES ASSUME NEW s \in SUBSET S, Cardinality(s) = n + 1
               PROVE  Sum(s) \in R
    BY <1>2
  <2> DEFINE y == CHOOSE x \in s : TRUE
  <2>0. n \in Nat /\ IsFiniteSet(s)
    BY <1>0, <1>2
  <2>1. n \in Nat /\ s # {} /\ IsFiniteSet(s)
    BY <2>0, WithoutOne
  <2>2. y \in s /\ s \ {y} \in SUBSET S /\ Cardinality(s \ {y}) = n
    BY <2>1, ChosenIs
  <2>3. Sum(s) = f[y] + Sum(s \ {y})
    BY <2>1, SumOfChosen
  <2>4. Sum(s \ {y}) \in R /\ f[y] \in R
    BY <1>2, <2>2
  <2> HIDE DEF y, Sum
  <2> QED
    BY <1>0, <2>3, <2>4
<1>3. Cardinality(S) \in Reached
  <2>1. Reached \in SUBSET Nat /\ Cardinality(S) \in Nat
    BY <1>0
  <2> HIDE DEF Reached
  <2> QED
    BY <1>1, <1>2, <2>1, NaturalInduction
<1> QED
  BY <1>3

\* Any element may be taken out first.
LEMMA SumTakes ==
  ASSUME NEW S, IsFiniteSet(S), NEW f, \A x \in S : f[x] \in Int, NEW z \in S
  PROVE  SumFunctionOnSet(f, S) = f[z] + SumFunctionOnSet(f, S \ {z})
<1> DEFINE Sum(s) == SumFunctionOnSet(f, s)
           Takes(s) == \A x \in s : Sum(s) = f[x] + Sum(s \ {x})
           Reached == { n \in Nat : \A s \in SUBSET S : Cardinality(s) = n => Takes(s) }
<1>0. \A s \in SUBSET S : IsFiniteSet(s) /\ Cardinality(s) \in Nat
  BY FS_Subset, FS_CardinalityType
<1>1. 0 \in Reached
  <2>1. \A s \in SUBSET S : Cardinality(s) = 0 => s = {}
    BY <1>0, FS_EmptySet
  <2> QED
    BY <2>1
<1>2. ASSUME NEW n \in Reached
      PROVE  n + 1 \in Reached
  <2> SUFFICES ASSUME NEW s \in SUBSET S, Cardinality(s) = n + 1
               PROVE  Takes(s)
    BY <1>2
  <2> DEFINE y == CHOOSE x \in s : TRUE
  <2>0. n \in Nat /\ IsFiniteSet(s)
    BY <1>0, <1>2
  <2>1. n \in Nat /\ s # {} /\ IsFiniteSet(s)
    BY <2>0, WithoutOne
  <2>2. y \in s /\ Sum(s) = f[y] + Sum(s \ {y})
    BY <2>1, SumOfChosen
  <2>3. \A x \in s : s \ {x} \in SUBSET S /\ Cardinality(s \ {x}) = n
    BY <2>1, WithoutOne
  <2>4. \A x \in s : Takes(s \ {x})
    BY <1>2, <2>3
  <2>5. \A t \in SUBSET S : Sum(t) \in Int
    BY <1>0, SumTyped
  <2> HIDE DEF y, Sum
  <2>6. ASSUME NEW x \in s, x # y
        PROVE  Sum(s) = f[x] + Sum(s \ {x})
    <3> DEFINE both == (s \ {y}) \ {x}
    <3>1. x \in s \ {y} /\ y \in s \ {x} /\ (s \ {x}) \ {y} = both
      BY <2>2, <2>6
    <3>2. Sum(s \ {y}) = f[x] + Sum(both) /\ Sum(s \ {x}) = f[y] + Sum(both)
      BY <2>2, <2>4, <3>1
    <3>3. f[x] \in Int /\ f[y] \in Int /\ Sum(both) \in Int
      BY <2>2, <2>5
    <3> QED
      BY <2>2, <3>2, <3>3
  <2> QED
    BY <2>2, <2>6
<1>3. Cardinality(S) \in Reached
  <2>1. Reached \in SUBSET Nat /\ Cardinality(S) \in Nat
    BY <1>0
  <2> HIDE DEF Reached
  <2> QED
    BY <1>1, <1>2, <2>1, NaturalInduction
<1> QED
  BY <1>3

\* Sums of functions that agree, of two disjoint sets, and of a smaller set.
LEMMA SumAgrees ==
  ASSUME NEW S, IsFiniteSet(S), NEW f, NEW g, \A x \in S : f[x] = g[x]
  PROVE  SumFunctionOnSet(f, S) = SumFunctionOnSet(g, S)
<1> DEFINE Same(s) == SumFunctionOnSet(f, s) = SumFunctionOnSet(g, s)
           Reached == { n \in Nat : \A s \in SUBSET S : Cardinality(s) = n => Same(s) }
<1>0. \A s \in SUBSET S : IsFiniteSet(s) /\ Cardinality(s) \in Nat
  BY FS_Subset, FS_CardinalityType
<1>1. 0 \in Reached
  <2>1. \A s \in SUBSET S : Cardinality(s) = 0 => s = {}
    BY <1>0, FS_EmptySet
  <2> QED
    BY <2>1, SumOfNone
<1>2. ASSUME NEW n \in Reached
      PROVE  n + 1 \in Reached
  <2> SUFFICES ASSUME NEW s \in SUBSET S, Cardinality(s) = n + 1
               PROVE  Same(s)
    BY <1>2
  <2> DEFINE y == CHOOSE x \in s : TRUE
  <2>0. n \in Nat /\ IsFiniteSet(s)
    BY <1>0, <1>2
  <2>1. n \in Nat /\ s # {} /\ IsFiniteSet(s)
    BY <2>0, WithoutOne
  <2>2. y \in s /\ s \ {y} \in SUBSET S /\ Cardinality(s \ {y}) = n
    BY <2>1, ChosenIs
  <2>3. /\ SumFunctionOnSet(f, s) = f[y] + SumFunctionOnSet(f, s \ {y})
        /\ SumFunctionOnSet(g, s) = g[y] + SumFunctionOnSet(g, s \ {y})
    BY <2>1, SumOfChosen
  <2>4. Same(s \ {y}) /\ f[y] = g[y]
    BY <1>2, <2>2
  <2> HIDE DEF y
  <2> QED
    BY <2>3, <2>4
<1>3. Cardinality(S) \in Reached
  <2>1. Reached \in SUBSET Nat /\ Cardinality(S) \in Nat
    BY <1>0
  <2> HIDE DEF Reached
  <2> QED
    BY <1>1, <1>2, <2>1, NaturalInduction
<1> QED
  BY <1>3

LEMMA SumOfUnion ==
  ASSUME NEW S, NEW T, IsFiniteSet(S), IsFiniteSet(T), S \cap T = {},
         NEW f, \A x \in S \cup T : f[x] \in Int
  PROVE  SumFunctionOnSet(f, S \cup T) = SumFunctionOnSet(f, S) + SumFunctionOnSet(f, T)
<1> DEFINE Sum(s) == SumFunctionOnSet(f, s)
           Splits(s) == Sum(S \cup s) = Sum(S) + Sum(s)
           Reached == { n \in Nat : \A s \in SUBSET T : Cardinality(s) = n => Splits(s) }
<1>0. /\ \A s \in SUBSET T : IsFiniteSet(s) /\ Cardinality(s) \in Nat /\ IsFiniteSet(S \cup s)
  BY FS_Subset, FS_CardinalityType, FS_Union
<1>1. /\ Sum(S) \in Int
      /\ \A s \in SUBSET T : Sum(s) \in Int
  BY <1>0, SumTyped
<1>2. 0 \in Reached
  <2>1. \A s \in SUBSET T : Cardinality(s) = 0 => s = {}
    BY <1>0, FS_EmptySet
  <2>2. Sum(S \cup {}) = Sum(S) /\ Sum({}) = 0
    <3>1. S \cup {} = S
      OBVIOUS
    <3> QED
      BY <3>1, SumOfNone
  <2> HIDE DEF Sum
  <2>3. Splits({})
    BY <1>1, <2>2
  <2> QED
    BY <2>1, <2>3
<1>3. ASSUME NEW n \in Reached
      PROVE  n + 1 \in Reached
  <2> SUFFICES ASSUME NEW s \in SUBSET T, Cardinality(s) = n + 1
               PROVE  Splits(s)
    BY <1>3
  <2>0. n \in Nat /\ IsFiniteSet(s)
    BY <1>0, <1>3
  <2>1. n \in Nat /\ s # {} /\ IsFiniteSet(s)
    BY <2>0, WithoutOne
  <2>2. PICK y \in s : TRUE
    BY <2>1
  <2>3. s \ {y} \in SUBSET T /\ Cardinality(s \ {y}) = n
    BY <2>1, <2>2, WithoutOne
  <2>4. Sum(s) = f[y] + Sum(s \ {y})
    BY <2>1, <2>2, SumTakes
  <2>5. Sum(S \cup s) = f[y] + Sum(S \cup (s \ {y}))
    <3>1. (S \cup s) \ {y} = S \cup (s \ {y}) /\ y \in S \cup s
      BY <2>2
    <3>2. IsFiniteSet(S \cup s) /\ \A x \in S \cup s : f[x] \in Int
      BY <1>0
    <3>3. Sum(S \cup s) = f[y] + Sum((S \cup s) \ {y})
      BY <3>1, <3>2, SumTakes
    <3> QED
      BY <3>1, <3>3
  <2>6. Splits(s \ {y})
    BY <1>3, <2>3
  <2>7. f[y] \in Int /\ Sum(s \ {y}) \in Int
    BY <1>1, <2>2, <2>3
  <2> HIDE DEF Sum
  <2> QED
    BY <1>1, <2>4, <2>5, <2>6, <2>7
<1>4. Cardinality(T) \in Reached
  <2>1. Reached \in SUBSET Nat /\ Cardinality(T) \in Nat
    BY <1>0
  <2> HIDE DEF Reached
  <2> QED
    BY <1>2, <1>3, <2>1, NaturalInduction
<1> QED
  BY <1>4

LEMMA SumOfFewer ==
  ASSUME NEW S, IsFiniteSet(S), NEW T \in SUBSET S, NEW f, \A x \in S : f[x] \in Nat
  PROVE  SumFunctionOnSet(f, T) <= SumFunctionOnSet(f, S)
<1>1. IsFiniteSet(T) /\ IsFiniteSet(S \ T)
  BY FS_Subset
<1>2. SumFunctionOnSet(f, T) \in Nat /\ SumFunctionOnSet(f, S \ T) \in Nat
  BY <1>1, SumTyped
<1>3. SumFunctionOnSet(f, S) = SumFunctionOnSet(f, T) + SumFunctionOnSet(f, S \ T)
  <2>1. T \cup (S \ T) = S /\ T \cap (S \ T) = {}
    OBVIOUS
  <2>2. \A x \in T \cup (S \ T) : f[x] \in Int
    OBVIOUS
  <2>3. SumFunctionOnSet(f, T \cup (S \ T)) = SumFunctionOnSet(f, T) + SumFunctionOnSet(f, S \ T)
    BY <1>1, <2>1, <2>2, SumOfUnion
  <2> QED
    BY <2>1, <2>3
<1> QED
  BY <1>2, <1>3

\* The sums of disjoint parts add up to the sum of them all.
LEMMA SumOfParts ==
  ASSUME NEW C, IsFiniteSet(C), NEW part,
         \A c \in C : IsFiniteSet(part[c]),
         \A c, d \in C : c # d => part[c] \cap part[d] = {},
         NEW f, \A c \in C : \A x \in part[c] : f[x] \in Int
  PROVE  /\ IsFiniteSet(UNION { part[c] : c \in C })
         /\ SumFunctionOnSet([c \in C |-> SumFunctionOnSet(f, part[c])], C)
              = SumFunctionOnSet(f, UNION { part[c] : c \in C })
<1> DEFINE parts == [c \in C |-> SumFunctionOnSet(f, part[c])]
           All(s) == UNION { part[c] : c \in s }
           AddsUp(s) == /\ IsFiniteSet(All(s))
                        /\ SumFunctionOnSet(parts, s) = SumFunctionOnSet(f, All(s))
           Reached == { n \in Nat : \A s \in SUBSET C : Cardinality(s) = n => AddsUp(s) }
<1>0. \A s \in SUBSET C : IsFiniteSet(s) /\ Cardinality(s) \in Nat
  BY FS_Subset, FS_CardinalityType
<1>1. \A c \in C : parts[c] = SumFunctionOnSet(f, part[c]) /\ parts[c] \in Int
  BY SumTyped
<1>2. 0 \in Reached
  <2>1. \A s \in SUBSET C : Cardinality(s) = 0 => s = {}
    BY <1>0, FS_EmptySet
  <2>2. All({}) = {}
    OBVIOUS
  <2>3. AddsUp({})
    BY <2>2, SumOfNone, FS_EmptySet
  <2> HIDE DEF AddsUp
  <2> QED
    BY <2>1, <2>3
<1>3. ASSUME NEW n \in Reached
      PROVE  n + 1 \in Reached
  <2> SUFFICES ASSUME NEW s \in SUBSET C, Cardinality(s) = n + 1
               PROVE  AddsUp(s)
    BY <1>3
  <2>0. n \in Nat /\ IsFiniteSet(s)
    BY <1>0, <1>3
  <2>1. n \in Nat /\ s # {} /\ IsFiniteSet(s)
    BY <2>0, WithoutOne
  <2>2. PICK c \in s : TRUE
    BY <2>1
  <2>3. s \ {c} \in SUBSET C /\ Cardinality(s \ {c}) = n
    BY <2>1, <2>2, WithoutOne
  <2>4. AddsUp(s \ {c})
    BY <1>3, <2>3
  <2>5. SumFunctionOnSet(parts, s) = parts[c] + SumFunctionOnSet(parts, s \ {c})
    <3>1. \A x \in s : parts[x] \in Int
      BY <1>1
    <3> HIDE DEF parts
    <3> QED
      BY <2>1, <2>2, <3>1, SumTakes
  <2>6. PICK one, rest : one = part[c] /\ rest = All(s \ {c})
    OBVIOUS
  <2>7. /\ All(s) = one \cup rest /\ one \cap rest = {}
        /\ \A x \in one \cup rest : f[x] \in Int
    BY <2>2, <2>6
  <2>8. /\ IsFiniteSet(one) /\ IsFiniteSet(rest) /\ IsFiniteSet(one \cup rest)
        /\ SumFunctionOnSet(f, one \cup rest) = SumFunctionOnSet(f, one) + SumFunctionOnSet(f, rest)
    <3>1. IsFiniteSet(one) /\ IsFiniteSet(rest)
      BY <2>2, <2>4, <2>6
    <3>2. IsFiniteSet(one \cup rest)
      BY <3>1, FS_Union, Zenon
    <3> HIDE DEF parts, All, AddsUp, Reached
    <3>3. SumFunctionOnSet(f, one \cup rest) = SumFunctionOnSet(f, one) + SumFunctionOnSet(f, rest)
      BY <2>7, <3>1, SumOfUnion
    <3> QED
      BY <3>1, <3>2, <3>3
  <2>9. parts[c] = SumFunctionOnSet(f, part[c])
    BY <1>1, <2>2
  <2> HIDE DEF parts, All
  <2> QED
    BY <2>4, <2>5, <2>6, <2>7, <2>8, <2>9
<1>4. Cardinality(C) \in Reached
  <2>1. Reached \in SUBSET Nat /\ Cardinality(C) \in Nat
    BY <1>0
  <2> HIDE DEF Reached
  <2> QED
    BY <1>2, <1>3, <2>1, NaturalInduction
<1> QED
  BY <1>4
=============================================================================
