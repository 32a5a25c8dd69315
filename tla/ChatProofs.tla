----------------------------- MODULE ChatProofs -----------------------------
(***************************************************************************)
(* Proofs about ChatSession, for any requests in progress, thresholds,     *)
(* chats, deletions, restarts, reads that lag behind and failures.         *)
(***************************************************************************)
EXTENDS ChatSession, FiniteSetTheorems, SequenceTheorems, WellFoundedInduction,
        TLAPS

-----------------------------------------------------------------------------
(* Induction.  The library's induction theorems take a predicate, which    *)
(* the provers cannot instantiate; its theorem on well-founded relations   *)
(* takes a set.                                                            *)

\* Any natural numbers have a least one.
LEMMA LeastNatural ==
  ASSUME NEW T \in SUBSET Nat, T # {}
  PROVE  \E x \in T : \A y \in T : x <= y
<1> DEFINE R == {ss \in Nat \X Nat : ss[1] < ss[2]}
<1>1. IsWellFoundedOn(R, Nat)
  BY NatLessThanWellFounded DEF OpToRel
<1>2. PICK x \in T : \A y \in T : ~ (<<y, x>> \in R)
  <2> HIDE DEF R
  <2> QED
    BY <1>1, WFMin
<1>3. ASSUME NEW y \in T, ~ (x <= y)
      PROVE  FALSE
  <2>1. <<y, x>> \in Nat \X Nat /\ <<y, x>>[1] < <<y, x>>[2]
    BY <1>3
  <2>2. <<y, x>> \in R
    BY <2>1, Zenon
  <2>3. QED
    BY <1>2, <2>2
<1>4. QED
  BY <1>3

\* What holds up to 0 and from each number up to the next holds up to m.
LEMMA UpTo ==
  ASSUME NEW m \in Nat, NEW T \in SUBSET Nat, 0 \in T,
         \A n \in T : n < m => n + 1 \in T
  PROVE  \A n \in 0..m : n \in T
<1> DEFINE U == (0..m) \ T
<1>1. SUFFICES ASSUME U # {}
               PROVE  FALSE
  OBVIOUS
<1>2. PICK n \in U : \A k \in U : n <= k
  <2>1. U \in SUBSET Nat
    OBVIOUS
  <2> HIDE DEF U
  <2> QED
    BY <1>1, <2>1, LeastNatural
<1>3. n # 0 /\ n - 1 \in 0..m /\ n - 1 < m /\ ~ (n <= n - 1)
  BY <1>2
<1>4. n - 1 \in T
  BY <1>2, <1>3
<1>5. QED
  BY <1>2, <1>3, <1>4

\* What holds of the empty sequence, and of a longer one when of its beginning,
\* holds of all.
LEMMA SequenceInduction ==
  ASSUME NEW S, NEW T \in SUBSET Seq(S), <<>> \in T,
         \A s \in T, e \in S : Append(s, e) \in T
  PROVE  \A s \in Seq(S) : s \in T
<1> DEFINE N == {n \in Nat : \A s \in Seq(S) : Len(s) = n => s \in T}
<1>1. 0 \in N
  BY EmptySeq
<1>2. ASSUME NEW n \in N
      PROVE  n + 1 \in N
  <2>1. ASSUME NEW s \in Seq(S), Len(s) = n + 1
        PROVE  s \in T
    <3>1. s # <<>>
      BY <2>1, EmptySeq
    <3>2. PICK t \in Seq(S), e \in S : s = Append(t, e)
      BY <3>1, SequenceEmptyOrAppend
    <3>3. Len(t) = n
      BY <2>1, <3>2, AppendProperties, LenProperties
    <3>4. QED
      BY <1>2, <3>2, <3>3
  <2>2. QED
    BY <2>1
<1>3. ASSUME NEW s \in Seq(S)
      PROVE  s \in T
  <2>1. Len(s) \in Nat
    OBVIOUS
  <2>2. \A n \in 0..Len(s) : n \in N
    <3>1. N \in SUBSET Nat
      OBVIOUS
    <3> HIDE DEF N
    <3> QED
      BY <1>1, <1>2, <2>1, <3>1, UpTo
  <2>3. Len(s) \in N
    <3> HIDE DEF N
    <3> QED
      BY <2>1, <2>2
  <2>4. QED
    BY <2>3
<1>4. QED
  BY <1>3

-----------------------------------------------------------------------------
(* Filters.                                                                *)

\* One step of the filter, from what f says of fewer items.
NextKept(s, drop, f, n) == IF n = 0 THEN <<>>
                           ELSE IF s[n] \in drop THEN f[n - 1]
                           ELSE Append(f[n - 1], s[n])

\* There is a function that filters the first m items.
Filterable(S, s, D, m) ==
  \E f \in [0..m -> Seq(S)] : \A n \in 0..m : f[n] = NextKept(s, D, f, n)

\* One that filters m items gives one that filters one more.
LEMMA FilterOneMore ==
  ASSUME NEW S, NEW s \in Seq(S), NEW D, NEW j \in Nat, j < Len(s),
         Filterable(S, s, D, j)
  PROVE  Filterable(S, s, D, j + 1)
<1> DEFINE k == j + 1
<1>1. PICK f \in [0..j -> Seq(S)] : \A n \in 0..j : f[n] = NextKept(s, D, f, n)
  BY DEF Filterable
<1> DEFINE g == [n \in 0..k |-> IF n = k THEN NextKept(s, D, f, k) ELSE f[n]]
<1>2. k \in 1..Len(s)
  OBVIOUS
<1>3. NextKept(s, D, f, k) \in Seq(S)
  BY <1>2 DEF NextKept
<1>4. g \in [0..k -> Seq(S)]
  BY <1>2, <1>3
<1>5. ASSUME NEW n \in 0..k
      PROVE  g[n] = NextKept(s, D, g, n)
  <2>1. n = 0 \/ n - 1 \in 0..j
    BY <1>2
  <2>2. n = 0 \/ g[n - 1] = f[n - 1]
    BY <1>2, <2>1
  <2>3. NextKept(s, D, g, n) = NextKept(s, D, f, n)
    BY <2>2 DEF NextKept
  <2>4. g[n] = NextKept(s, D, f, n)
    BY <1>1, <1>2
  <2>5. QED
    BY <2>3, <2>4
<1>6. QED
  <2> HIDE DEF g
  <2> QED
    BY <1>4, <1>5 DEF Filterable

\* So there is one for the whole sequence.
LEMMA FilterExists ==
  ASSUME NEW S, NEW s \in Seq(S), NEW D
  PROVE  Filterable(S, s, D, Len(s))
<1> DEFINE T == {k \in Nat : k <= Len(s) => Filterable(S, s, D, k)}
<1>1. 0 \in T
  <2> DEFINE f == [i \in 0..0 |-> <<>>]
  <2>1. f \in [0..0 -> Seq(S)] /\ \A n \in 0..0 : f[n] = NextKept(s, D, f, n)
    BY DEF NextKept
  <2>2. Filterable(S, s, D, 0)
    BY <2>1 DEF Filterable
  <2>3. QED
    BY <2>2
<1>2. ASSUME NEW j \in T, j < Len(s)
      PROVE  j + 1 \in T
  BY <1>2, FilterOneMore
<1>3. T \in SUBSET Nat /\ Len(s) \in Nat
  OBVIOUS
<1>4. \A n \in 0..Len(s) : n \in T
  <2> HIDE DEF T
  <2> QED
    BY <1>1, <1>2, <1>3, UpTo
<1>5. QED
  BY <1>3, <1>4

\* Kept is such a function.
LEMMA KeptIs ==
  ASSUME NEW S, NEW s \in Seq(S), NEW D
  PROVE  \A n \in 0..Len(s) : Kept(s, D)[n] = NextKept(s, D, Kept(s, D), n)
<1> DEFINE Def(f) == [n \in 0..Len(s) |-> IF n = 0 THEN <<>>
                                          ELSE IF s[n] \in D THEN f[n - 1]
                                          ELSE Append(f[n - 1], s[n])]
<1>1. PICK f \in [0..Len(s) -> Seq(S)] :
        \A n \in 0..Len(s) : f[n] = NextKept(s, D, f, n)
  BY FilterExists DEF Filterable
<1>2. f = Def(f)
  BY <1>1 DEF NextKept
<1>3. Kept(s, D) = CHOOSE h : h = Def(h)
  BY DEF Kept
<1>4. Kept(s, D) = Def(Kept(s, D))
  <2> HIDE DEF Def
  <2> QED
    BY <1>2, <1>3
<1>5. QED
  BY <1>4 DEF NextKept

\* What it keeps is items of the sequence that are not dropped.
LEMMA KeptType ==
  ASSUME NEW S, NEW s \in Seq(S), NEW D
  PROVE  \A n \in 0..Len(s) : Kept(s, D)[n] \in Seq(S \ D)
<1> DEFINE k == Kept(s, D)
           T == {n \in Nat : n <= Len(s) => k[n] \in Seq(S \ D)}
<1>1. \A n \in 0..Len(s) : k[n] = NextKept(s, D, k, n)
  BY KeptIs
<1> HIDE DEF k
<1>2. 0 \in T
  <2>1. k[0] = <<>> /\ <<>> \in Seq(S \ D)
    BY <1>1 DEF NextKept
  <2>2. QED
    BY <2>1
<1>3. ASSUME NEW n \in T, n < Len(s)
      PROVE  n + 1 \in T
  <2>1. n \in Nat /\ n + 1 \in 0..Len(s) /\ k[n] \in Seq(S \ D) /\ s[n + 1] \in S
    BY <1>3
  <2>2. k[n + 1] = IF s[n + 1] \in D THEN k[n] ELSE Append(k[n], s[n + 1])
    BY <1>1, <2>1 DEF NextKept
  <2>3. k[n + 1] \in Seq(S \ D)
    BY <2>1, <2>2
  <2>4. QED
    BY <2>1, <2>3
<1>4. \A n \in 0..Len(s) : n \in T
  <2>1. T \in SUBSET Nat /\ Len(s) \in Nat
    OBVIOUS
  <2> HIDE DEF T
  <2> QED
    BY <1>2, <1>3, <2>1, UpTo
<1>5. QED
  BY <1>4 DEF k

\* A filter returns items of the sequence that are not dropped.
LEMMA WithoutType ==
  ASSUME NEW S, NEW s \in Seq(S), NEW D
  PROVE  Without(s, D) \in Seq(S \ D) /\ Without(s, D) \in Seq(S)
<1>1. Len(s) \in 0..Len(s)
  BY LenProperties
<1>2. Kept(s, D)[Len(s)] \in Seq(S \ D)
  BY <1>1, KeptType
<1>3. S \ D \subseteq S
  OBVIOUS
<1>4. QED
  BY <1>2, <1>3, SeqMonotonic DEF Without

\* Nothing is left of nothing.
LEMMA WithoutEmpty ==
  ASSUME NEW D
  PROVE  Without(<<>>, D) = <<>>
<1>1. <<>> \in Seq({}) /\ Len(<<>>) = 0
  BY EmptySeq
<1>2. Kept(<<>>, D)[0] = NextKept(<<>>, D, Kept(<<>>, D), 0)
  <2>1. \A n \in 0..Len(<<>>) : Kept(<<>>, D)[n] = NextKept(<<>>, D, Kept(<<>>, D), n)
    BY <1>1, KeptIs
  <2>2. QED
    BY <1>1, <2>1
<1>3. QED
  BY <1>1, <1>2 DEF NextKept, Without

\* One more item is kept or dropped at the end.
LEMMA WithoutAppend ==
  ASSUME NEW S, NEW s \in Seq(S), NEW e \in S, NEW D
  PROVE  Without(Append(s, e), D) = IF e \in D THEN Without(s, D)
                                    ELSE Append(Without(s, D), e)
<1> DEFINE t == Append(s, e)
           m == Len(s)
           f == Kept(s, D)
           g == Kept(t, D)
           T == {n \in Nat : n <= m => g[n] = f[n]}
<1>1. /\ t \in Seq(S) /\ m \in Nat /\ Len(t) = m + 1 /\ t[m + 1] = e
      /\ \A n \in 1..m : t[n] = s[n]
  BY AppendProperties
<1>2. \A n \in 0..m : f[n] = NextKept(s, D, f, n)
  BY KeptIs
<1>3. \A n \in 0..(m + 1) : g[n] = NextKept(t, D, g, n)
  <2> HIDE DEF t
  <2> QED
    BY <1>1, KeptIs
<1> HIDE DEF t, f, g
<1>4. 0 \in T
  <2>1. f[0] = <<>> /\ g[0] = <<>>
    BY <1>1, <1>2, <1>3 DEF NextKept
  <2>2. QED
    BY <2>1
<1>5. ASSUME NEW n \in T, n < m
      PROVE  n + 1 \in T
  <2>1. n \in Nat /\ n + 1 \in 1..m /\ g[n] = f[n] /\ t[n + 1] = s[n + 1]
    BY <1>1, <1>5
  <2>2. f[n + 1] = IF s[n + 1] \in D THEN f[n] ELSE Append(f[n], s[n + 1])
    BY <1>2, <2>1 DEF NextKept
  <2>3. g[n + 1] = IF t[n + 1] \in D THEN g[n] ELSE Append(g[n], t[n + 1])
    BY <1>1, <1>3, <2>1 DEF NextKept
  <2>4. QED
    BY <2>1, <2>2, <2>3
<1>6. \A n \in 0..m : n \in T
  <2>1. T \in SUBSET Nat
    OBVIOUS
  <2> HIDE DEF T
  <2> QED
    BY <1>1, <1>4, <1>5, <2>1, UpTo
<1>7. g[m] = f[m]
  BY <1>1, <1>6
<1>8. g[m + 1] = IF e \in D THEN g[m] ELSE Append(g[m], e)
  BY <1>1, <1>3 DEF NextKept
<1>9. QED
  BY <1>1, <1>7, <1>8 DEF Without, t, f, g

\* The items of a sequence, when it grows.
LEMMA ToSetAppend ==
  ASSUME NEW S, NEW s \in Seq(S), NEW e \in S
  PROVE  ToSet(Append(s, e)) = ToSet(s) \union {e}
<1>1. /\ DOMAIN s = 1..Len(s) /\ Len(s) \in Nat
      /\ DOMAIN Append(s, e) = 1..(Len(s) + 1)
      /\ \A i \in 1..Len(s) : Append(s, e)[i] = s[i]
      /\ Append(s, e)[Len(s) + 1] = e
  BY AppendProperties, LenProperties
<1>2. QED
  BY <1>1 DEF ToSet

\* The items of a sequence, by number.
LEMMA ToSetIs ==
  ASSUME NEW S, NEW s \in Seq(S)
  PROVE  /\ ToSet(s) = {s[i] : i \in 1..Len(s)}
         /\ ToSet(s) \subseteq S
         /\ ToSet(s) = {} => s = <<>>
<1>1. DOMAIN s = 1..Len(s) /\ Len(s) \in Nat
  BY LenProperties
<1>2. ToSet(s) = {s[i] : i \in 1..Len(s)}
  BY <1>1 DEF ToSet
<1>3. ToSet(s) \subseteq S
  BY <1>2, ElementOfSeq
<1>4. ASSUME s # <<>>
      PROVE  ToSet(s) # {}
  <2>1. 1 \in 1..Len(s)
    BY <1>1, <1>4, EmptySeq
  <2>2. QED
    BY <1>2, <2>1
<1>5. QED
  BY <1>2, <1>3, <1>4

\* A filter drops what it is to drop and nothing else.
LEMMA WithoutItems ==
  ASSUME NEW S, NEW D
  PROVE  \A s \in Seq(S) : ToSet(Without(s, D)) = ToSet(s) \ D
<1> DEFINE T == {s \in Seq(S) : ToSet(Without(s, D)) = ToSet(s) \ D}
<1>1. <<>> \in T
  BY EmptySeq, WithoutEmpty DEF ToSet
<1>2. ASSUME NEW s \in T, NEW e \in S
      PROVE  Append(s, e) \in T
  <2>1. s \in Seq(S) /\ Append(s, e) \in Seq(S) /\ ToSet(Without(s, D)) = ToSet(s) \ D
    BY AppendProperties
  <2>2. ToSet(Append(s, e)) = ToSet(s) \union {e}
    BY <2>1, ToSetAppend
  <2>3. Without(Append(s, e), D) = IF e \in D THEN Without(s, D)
                                   ELSE Append(Without(s, D), e)
    BY <2>1, WithoutAppend
  <2>4. Without(s, D) \in Seq(S \ D)
    BY <2>1, WithoutType
  <2>5. e \notin D => ToSet(Append(Without(s, D), e)) = ToSet(Without(s, D)) \union {e}
    BY <2>4, ToSetAppend
  <2>6. ToSet(Without(Append(s, e), D)) = ToSet(Append(s, e)) \ D
    BY <2>1, <2>2, <2>3, <2>5
  <2>7. QED
    BY <2>1, <2>6
<1>3. T \in SUBSET Seq(S)
  OBVIOUS
<1>4. \A s \in Seq(S) : s \in T
  <2> HIDE DEF T
  <2> QED
    BY <1>1, <1>2, <1>3, SequenceInduction
<1>5. QED
  BY <1>4

\* What is filtered out for one reason makes no difference to what was not there
\* for another: messages are those they were whichever summaries are dropped.
LEMMA WithoutOthers ==
  ASSUME NEW S, NEW D, NEW E, E \subseteq D
  PROVE  \A s \in Seq(S) : Without(Without(s, E), D) = Without(s, D)
<1> DEFINE T == {s \in Seq(S) : Without(Without(s, E), D) = Without(s, D)}
<1>1. <<>> \in T
  BY EmptySeq, WithoutEmpty
<1>2. ASSUME NEW s \in T, NEW e \in S
      PROVE  Append(s, e) \in T
  <2>1. /\ s \in Seq(S) /\ Append(s, e) \in Seq(S)
        /\ Without(Without(s, E), D) = Without(s, D)
    BY AppendProperties
  <2>2. /\ Without(Append(s, e), E) = IF e \in E THEN Without(s, E)
                                      ELSE Append(Without(s, E), e)
        /\ Without(Append(s, e), D) = IF e \in D THEN Without(s, D)
                                      ELSE Append(Without(s, D), e)
    BY <2>1, WithoutAppend
  <2>3. Without(s, E) \in Seq(S)
    BY <2>1, WithoutType
  <2>4. Without(Append(Without(s, E), e), D) =
          IF e \in D THEN Without(Without(s, E), D)
          ELSE Append(Without(Without(s, E), D), e)
    BY <2>3, WithoutAppend
  <2>5. Without(Without(Append(s, e), E), D) = Without(Append(s, e), D)
    BY <2>1, <2>2, <2>4
  <2>6. QED
    BY <2>1, <2>5
<1>3. T \in SUBSET Seq(S)
  OBVIOUS
<1>4. \A s \in Seq(S) : s \in T
  <2> HIDE DEF T
  <2> QED
    BY <1>1, <1>2, <1>3, SequenceInduction
<1>5. QED
  BY <1>4

\* Nothing is left when all is dropped.
LEMMA WithoutAll ==
  ASSUME NEW S, NEW s \in Seq(S), NEW D, ToSet(s) \subseteq D
  PROVE  Without(s, D) = <<>>
<1>1. ToSet(Without(s, D)) = {}
  BY WithoutItems
<1>2. Without(s, D) \in Seq(S \ D)
  BY WithoutType
<1>3. QED
  BY <1>1, <1>2, ToSetIs

-----------------------------------------------------------------------------
(* Types.                                                                  *)

\* A summary is no message, and there is nothing else in the table.
LEMMA ItemsSplit == /\ Messages \intersect Summaries = {}
                    /\ Items \ Summaries = Messages
                    /\ Items \ Messages = Summaries
<1>1. Messages \intersect Summaries = {}
  BY DEF Messages, Summaries
<1>2. QED
  BY <1>1 DEF Items

\* The messages and the summaries of a table are that.
LEMMA SplitType ==
  ASSUME NEW t \in Seq(Items)
  PROVE  /\ MessagesOf(t) \in Seq(Messages) /\ MessagesOf(t) \in Seq(Items)
         /\ SummariesOf(t) \in Seq(Summaries) /\ SummariesOf(t) \in Seq(Items)
<1>1. Without(t, Summaries) \in Seq(Items \ Summaries) /\ Without(t, Summaries) \in Seq(Items)
  BY WithoutType
<1>2. Without(t, Messages) \in Seq(Items \ Messages) /\ Without(t, Messages) \in Seq(Items)
  BY WithoutType
<1>3. QED
  BY <1>1, <1>2, ItemsSplit DEF MessagesOf, SummariesOf

\* The newest n of a sequence are its last n, or all of it.
LEMMA NewestIs ==
  ASSUME NEW S, NEW s \in Seq(S), NEW n \in Nat
  PROVE  /\ Newest(s, n) \in Seq(S)
         /\ Len(s) <= n => Newest(s, n) = s
         /\ Len(s) > n => Newest(s, n) = SubSeq(s, Len(s) - n + 1, Len(s))
<1>1. Len(s) \in Nat /\ \A i \in 1..Len(s) : s[i] \in S
  OBVIOUS
<1>2. CASE Len(s) > n
  <2>1. Len(s) - n + 1 \in Int /\ \A i \in (Len(s) - n + 1)..Len(s) : s[i] \in S
    BY <1>1, <1>2
  <2>2. SubSeq(s, Len(s) - n + 1, Len(s)) \in Seq(S)
    BY <1>1, <2>1, SubSeqProperties
  <2>3. QED
    BY <1>1, <1>2, <2>2 DEF Newest
<1>3. CASE ~ (Len(s) > n)
  BY <1>1, <1>3, SubSeqFull DEF Newest
<1>4. QED
  BY <1>2, <1>3

\* They are items of it.
LEMMA NewestItems ==
  ASSUME NEW S, NEW s \in Seq(S), NEW n \in Nat
  PROVE  ToSet(Newest(s, n)) \subseteq ToSet(s)
<1>1. Len(s) \in Nat /\ s \in Seq(ToSet(s))
  <2> DEFINE T == ToSet(s)
             k == Len(s)
  <2>1. T = {s[i] : i \in 1..k} /\ k \in Nat
    BY ToSetIs
  <2>2. s \in [1..k -> T]
    BY <2>1, LenProperties
  <2> HIDE DEF T, k
  <2>3. [1..k -> T] \in {[1..j -> T] : j \in Nat}
    BY <2>1
  <2>4. s \in UNION {[1..j -> T] : j \in Nat}
    BY <2>2, <2>3, Zenon
  <2>5. s \in Seq(T)
    BY <2>4, SeqDef, Zenon
  <2>6. QED
    BY <2>1, <2>5 DEF T, k
<1>2. Newest(s, n) \in Seq(ToSet(s))
  BY <1>1, NewestIs
<1>3. QED
  BY <1>2, ToSetIs

\* Two messages make a turn.
LEMMA KeepType == Keep \in Nat /\ Keep > 0
BY ThresholdsAssumption DEF Keep

\* What an agent is given is items.
LEMMA ContextType ==
  ASSUME NEW t \in Seq(Items)
  PROVE  Context(t) \in Seq(Items)
<1>1. Newest(SummariesOf(t), 1) \in Seq(Items) /\ Newest(MessagesOf(t), Keep) \in Seq(Items)
  BY SplitType, NewestIs, KeepType
<1>2. QED
  BY <1>1, ConcatProperties DEF Context

\* What is summarised is messages.
LEMMA ToSummarizeType ==
  ASSUME NEW t \in Seq(Items)
  PROVE  ToSummarize(MessagesOf(t)) \in SUBSET Messages
<1> DEFINE s == MessagesOf(t)
<1>1. s \in Seq(Messages) /\ Len(s) \in Nat /\ Keep \in Nat
  BY SplitType, KeepType
<1>2. \A i \in 1..(Len(s) - Keep) : s[i] \in Messages
  <2> HIDE DEF s
  <2> QED
    BY <1>1
<1>3. SubSeq(s, 1, Len(s) - Keep) \in Seq(Messages)
  <2> HIDE DEF s
  <2> QED
    BY <1>1, <1>2, SubSeqProperties
<1>4. QED
  BY <1>3, ToSetIs DEF ToSummarize

\* What a query reads of items is items.
LEMMA FirstPageType ==
  ASSUME NEW t \in Seq(Items)
  PROVE  FirstPage(t) \in Seq(Items)
BY WithoutType DEF FirstPage

\* A read of the messages is answered from one of these, so from items.
Copies == {table, lagTable}

LEMMA CopiesType ==
  ASSUME TypeOK
  PROVE  \A t \in Copies : t \in Seq(Items) /\ FirstPage(t) \in Seq(Items)
BY FirstPageType DEF TypeOK, Copies

\* Every item has a rank.
LEMMA RankType ==
  ASSUME NEW i \in Items
  PROVE  RankOf(i) \in Ranks /\ RankOf(i) \in Nat /\ RankOf(i) > 0
<1>1. i.turn \in Turns /\ i.role \in Roles
  BY DEF Items, Messages, Summaries, Roles
<1>2. <<i.turn, i.role>> \in Turns \X Roles
  BY <1>1
<1>3. RankOf(i) \in Ranks
  BY <1>2, RankAssumption DEF RankOf
<1>4. QED
  BY <1>3, ChatsAssumption DEF Ranks

\* The greatest of some ranks is one of them.
LEMMA MaxRank ==
  ASSUME NEW T \in SUBSET Ranks, T # {}
  PROVE  Max(T) \in T /\ \A r \in T : Max(T) >= r
<1> DEFINE n == 4 * MaxChats
           U == {n - r : r \in T}
<1>1. n \in Nat /\ \A r \in T : r \in 1..n
  BY ChatsAssumption DEF Ranks
<1> HIDE DEF n
<1>2. U \in SUBSET Nat /\ U # {}
  BY <1>1
<1>3. PICK x \in U : \A y \in U : x <= y
  <2> HIDE DEF U
  <2> QED
    BY <1>2, LeastNatural
<1>4. PICK m \in T : x = n - m
  OBVIOUS
<1>5. \A r \in T : m >= r
  <2>1. SUFFICES ASSUME NEW r \in T
                 PROVE  m >= r
    OBVIOUS
  <2>2. n - m <= n - r
    BY <1>3, <1>4
  <2>3. QED
    BY <1>1, <2>2
<1>6. QED
  BY <1>4, <1>5 DEF Max

\* The items of a sequence are finitely many.
LEMMA ToSetFinite ==
  ASSUME NEW S
  PROVE  \A s \in Seq(S) : IsFiniteSet(ToSet(s))
<1> DEFINE T == {s \in Seq(S) : IsFiniteSet(ToSet(s))}
<1>1. <<>> \in T
  <2>1. ToSet(<<>>) = {} /\ <<>> \in Seq(S)
    BY EmptySeq DEF ToSet
  <2>2. QED
    BY <2>1, FS_EmptySet
<1>2. ASSUME NEW s \in T, NEW e \in S
      PROVE  Append(s, e) \in T
  <2>1. s \in Seq(S) /\ Append(s, e) \in Seq(S) /\ IsFiniteSet(ToSet(s))
    BY AppendProperties
  <2>2. ToSet(Append(s, e)) = ToSet(s) \union {e}
    BY <2>1, ToSetAppend
  <2>3. IsFiniteSet(ToSet(s) \union {e})
    BY <2>1, FS_AddElement
  <2>4. QED
    BY <2>1, <2>2, <2>3
<1>3. T \in SUBSET Seq(S)
  OBVIOUS
<1>4. \A s \in Seq(S) : s \in T
  <2> HIDE DEF T
  <2> QED
    BY <1>1, <1>2, <1>3, SequenceInduction
<1>5. QED
  BY <1>4

\* A page of items is some of them, and if it is not all that follow, the others
\* follow its last.
LEMMA PageIs ==
  ASSUME NEW t \in Seq(Items), NEW k, NEW page, page = Page(t, k)
  PROVE  /\ page \in SUBSET Items /\ Rest(t, k) \subseteq ToSet(t)
         /\ page # Rest(t, k) =>
              LET last == Max({RankOf(i) : i \in page})
              IN /\ last \in Ranks
                 /\ \A i \in Rest(t, k) \ page : RankOf(i) > last
<1> DEFINE R == Rest(t, k)
           Before(i) == {j \in R : RankOf(j) < RankOf(i)}
<1>1. R \subseteq ToSet(t) /\ ToSet(t) \subseteq Items /\ IsFiniteSet(ToSet(t))
  BY ToSetIs, ToSetFinite DEF Rest
<1>2. page = {i \in R : Cardinality(Before(i)) < PageSize}
  BY DEF Page
<1>3. \A i \in R : RankOf(i) \in Ranks /\ RankOf(i) \in Nat
  BY <1>1, RankType
<1>4. IsFiniteSet(R)
  BY <1>1, FS_Subset
<1> HIDE DEF R
<1>5. \A i, j \in R : RankOf(i) <= RankOf(j) /\ j \in page => i \in page
  <2>1. SUFFICES ASSUME NEW i \in R, NEW j \in R, RankOf(i) <= RankOf(j), j \in page
                 PROVE  i \in page
    OBVIOUS
  <2>2. Before(i) \in SUBSET Before(j) /\ Before(j) \in SUBSET R
    BY <1>3, <2>1
  <2>3. IsFiniteSet(Before(j)) /\ Cardinality(Before(j)) < PageSize
    BY <1>2, <1>4, <2>1, <2>2, FS_Subset
  <2> HIDE DEF Before
  <2>4. /\ Cardinality(Before(i)) <= Cardinality(Before(j))
        /\ Cardinality(Before(i)) \in Nat /\ Cardinality(Before(j)) \in Nat
    BY <2>2, <2>3, FS_Subset, FS_CardinalityType
  <2>5. QED
    BY <1>2, <2>3, <2>4, PageAssumption
<1>6. ASSUME page # R
      PROVE  page # {}
  <2>1. R # {}
    BY <1>2, <1>6
  <2> DEFINE U == {RankOf(i) : i \in R}
  <2>2. U \in SUBSET Nat /\ U # {}
    BY <1>3, <2>1
  <2>3. PICK x \in U : \A y \in U : x <= y
    <3> HIDE DEF U
    <3> QED
      BY <2>2, LeastNatural
  <2>4. PICK i \in R : x = RankOf(i)
    OBVIOUS
  <2>5. \A j \in R : RankOf(i) <= RankOf(j)
    BY <2>3, <2>4
  <2>6. Before(i) = {}
    BY <1>3, <2>5
  <2>7. Cardinality(Before(i)) = 0
    BY <2>6, FS_EmptySet
  <2>8. QED
    BY <1>2, <2>7, PageAssumption
<1>7. ASSUME page # R
      PROVE  LET last == Max({RankOf(i) : i \in page})
             IN /\ last \in Ranks
                /\ \A i \in R \ page : RankOf(i) > last
  <2> DEFINE T == {RankOf(i) : i \in page}
             last == Max(T)
  <2>1. T \in SUBSET Ranks /\ T # {}
    <3>1. page \subseteq R
      BY <1>2
    <3>2. page # {}
      BY <1>6, <1>7
    <3>3. QED
      BY <1>3, <3>1, <3>2
  <2>2. last \in T
    <3> HIDE DEF T
    <3> QED
      BY <2>1, MaxRank
  <2>3. PICK j \in page : last = RankOf(j)
    <3> HIDE DEF last
    <3> QED
      BY <2>2
  <2>4. \A i \in R \ page : RankOf(i) > RankOf(j)
    BY <1>2, <1>3, <1>5
  <2>5. last \in Ranks /\ \A i \in R \ page : RankOf(i) > last
    <3> HIDE DEF last, T
    <3> QED
      BY <2>1, <2>2, <2>3, <2>4
  <2>6. QED
    BY <2>5
<1>8. page \in SUBSET Items
  BY <1>1, <1>2
<1>9. QED
  BY <1>1, <1>7, <1>8 DEF R

\* A request that does nothing, begins, goes on or ends is well typed.
LEMMA EnterType ==
  /\ Idle \in Locals
  /\ \A n \in Turns : Enter("history", n) \in Locals
  /\ Enter("query", 0) \in Locals
<1>1. \A n \in 0..MaxChats, pc \in {"idle", "history", "query"} : Enter(pc, n) \in Frames
  <2>1. <<>> \in Seq(Items)
    BY EmptySeq
  <2>2. 0 \in 0..MaxChats /\ 0 \in 0..(4 * MaxChats)
    BY ChatsAssumption
  <2>3. QED
    BY <2>1, <2>2 DEF Enter, Frames, ChatPC, DeletePC
<1>2. \A n \in 0..MaxChats, pc \in {"idle", "history", "query"} :
        Enter(pc, n).pc = pc /\ Enter(pc, n).turn = n
  BY DEF Enter
<1>3. Idle \in Locals /\ Enter("query", 0) \in Locals
  BY <1>1, <1>2, ChatsAssumption DEF Idle, Locals, ChatPC
<1>4. \A n \in Turns : n \in 0..MaxChats
  BY DEF Turns
<1>5. QED
  BY <1>1, <1>2, <1>3, <1>4 DEF Locals

\* What a request holds.
LEMMA ProcType ==
  ASSUME TypeOK, NEW p \in Procs
  PROVE  /\ proc[p] \in Locals /\ proc[p] \in Frames
         /\ proc[p].pc \in ChatPC => proc[p].turn \in Turns
         /\ proc[p].turn \in 0..MaxChats /\ proc[p].agent \in 0..MaxChats
         /\ proc[p].context \in Seq(Items)
         /\ proc[p].batch \in SUBSET Items /\ proc[p].covers \in SUBSET Messages
         /\ proc[p].last \in 0..(4 * MaxChats) /\ proc[p].summed \in BOOLEAN
BY DEF TypeOK, Locals, Frames

\* A request goes on with its chat.
LEMMA GotoType ==
  ASSUME TypeOK, NEW p \in Procs, NEW pc \in ChatPC, Goto(p, pc), proc[p].pc \in ChatPC
  PROVE  proc' \in [Procs -> Locals]
<1>1. [proc[p] EXCEPT !.pc = pc] \in Locals
  BY ProcType DEF Locals, Frames
<1>2. QED
  BY <1>1 DEF TypeOK, Goto

\* A request ends.
LEMMA ReturnType ==
  ASSUME TypeOK, NEW p \in Procs, Return(p)
  PROVE  proc' \in [Procs -> Locals]
BY EnterType DEF TypeOK, Return

\* A message is added to the table.
LEMMA AddMessageType ==
  ASSUME TypeOK, NEW p \in Procs, NEW from \in ChatPC, NEW to \in ChatPC,
         NEW role \in {"user", "assistant", "error"}, AddMessage(p, from, role, to)
  PROVE  TypeOK' /\ [turn |-> proc[p].turn, role |-> role] \in Messages
<1>1. proc[p].turn \in Turns /\ proc[p].pc \in ChatPC
  BY ProcType DEF AddMessage, At
<1>2. [turn |-> proc[p].turn, role |-> role] \in Messages
  BY <1>1 DEF Messages
<1>3. table' \in Seq(Items)
  BY <1>2, AppendProperties DEF AddMessage, Items, TypeOK
<1>4. proc' \in [Procs -> Locals]
  BY <1>1, GotoType DEF AddMessage
<1>5. QED
  BY <1>2, <1>3, <1>4 DEF AddMessage, TypeOK

\* A chat and what it stores around the answer keep the types.
LEMMA AroundTypes ==
  ASSUME TypeOK, NEW p \in Procs,
         \/ ChatBegins(p) \/ LoadHistory(p) \/ AddUser(p) \/ Touch(p)
         \/ AddReply(p) \/ AddError(p) \/ TableFails(p)
  PROVE  TypeOK'
<1> USE DEF ChatPC
<1>1. CASE ChatBegins(p)
  <2>1. chats + 1 \in Turns /\ chats + 1 \in 0..MaxChats
    BY <1>1, ChatsAssumption DEF ChatBegins, TypeOK, Turns
  <2>2. proc' \in [Procs -> Locals] /\ lags' \in 0..MaxLags
    BY <1>1, <2>1, EnterType, ChatsAssumption DEF ChatBegins, ReadConv, TypeOK
  <2>3. QED
    BY <1>1, <2>1, <2>2 DEF ChatBegins, TypeOK
<1>2. CASE LoadHistory(p)
  <2> DEFINE c(t) == Context(FirstPage(t))
  <2>1. PICK t \in Copies : proc' = [proc EXCEPT ![p].pc = "user", ![p].context = c(t)]
    BY <1>2 DEF LoadHistory, Copies
  <2>2. c(t) \in Seq(Items)
    BY ContextType, CopiesType
  <2>3. proc[p].turn \in Turns
    BY <1>2, ProcType DEF LoadHistory, At
  <2> HIDE DEF c
  <2>4. [proc[p] EXCEPT !.pc = "user", !.context = c(t)] \in Locals
    BY <2>2, <2>3, ProcType DEF Locals, Frames
  <2>5. proc' \in [Procs -> Locals]
    BY <2>1, <2>4 DEF TypeOK
  <2>6. lags' \in 0..MaxLags
    BY <1>2, ChatsAssumption DEF LoadHistory, ReadTable, TypeOK
  <2>7. QED
    BY <1>2, <2>5, <2>6 DEF LoadHistory, TypeOK
<1>3. CASE AddUser(p)
  BY <1>3, AddMessageType DEF AddUser
<1>4. CASE Touch(p)
  <2>1. proc' \in [Procs -> Locals]
    BY <1>4, GotoType, ReturnType DEF Touch, At
  <2>2. QED
    BY <1>4, <2>1 DEF Touch, TypeOK
<1>5. CASE AddReply(p)
  BY <1>5, AddMessageType DEF AddReply
<1>6. CASE AddError(p)
  BY <1>6, AddMessageType DEF AddError
<1>7. CASE TableFails(p)
  <2>1. proc' \in [Procs -> Locals]
    BY <1>7, ReturnType DEF TableFails
  <2>2. QED
    BY <1>7, <2>1 DEF TableFails, TypeOK
<1>8. QED
  BY <1>1, <1>2, <1>3, <1>4, <1>5, <1>6, <1>7

\* What becomes of one agent keeps the types of all.
LEMMA AgentsType ==
  ASSUME TypeOK, NEW n \in 0..MaxChats, NEW busy \in BOOLEAN, NEW s \in Seq(Items),
         \/ agents' = [agents EXCEPT ![n].busy = busy, ![n].messages = s]
         \/ agents' = [agents EXCEPT ![n].messages = s]
         \/ agents' = [agents EXCEPT ![n].busy = busy]
         \/ agents' = [agents EXCEPT ![n] = NewAgent(s)]
  PROVE  agents' \in [Turns -> [busy : BOOLEAN, messages : Seq(Items)]]
<1> DEFINE A == [busy : BOOLEAN, messages : Seq(Items)]
<1>1. agents \in [Turns -> A]
  BY DEF TypeOK
<1>2. CASE n \notin Turns
  BY <1>1, <1>2
<1>3. CASE n \in Turns
  <2>1. agents[n] \in A
    BY <1>1, <1>3
  <2>2. /\ [agents[n] EXCEPT !.busy = busy, !.messages = s] \in A
        /\ [agents[n] EXCEPT !.messages = s] \in A
        /\ [agents[n] EXCEPT !.busy = busy] \in A
        /\ NewAgent(s) \in A
    BY <2>1 DEF NewAgent
  <2> HIDE DEF A
  <2>3. QED
    BY <1>1, <1>3, <2>2 DEF A
<1>4. QED
  BY <1>2, <1>3

\* What an agent remembers, with one message more.
LEMMA RemembersType ==
  ASSUME TypeOK, NEW n \in Turns, NEW k \in Turns, NEW role \in {"user", "assistant"}
  PROVE  Append(agents[n].messages, [turn |-> k, role |-> role]) \in Seq(Items)
<1>1. agents[n].messages \in Seq(Items)
  BY DEF TypeOK
<1>2. [turn |-> k, role |-> role] \in Items
  BY DEF Items, Messages
<1>3. QED
  BY <1>1, <1>2, AppendProperties

\* The agent and its cache keep the types.
LEMMA AgentTypes ==
  ASSUME TypeOK, NEW p \in Procs,
         FindAgent(p) \/ StoreAgent(p) \/ CallAgent(p) \/ AgentAnswers(p) \/ AgentFails(p)
  PROVE  TypeOK'
<1> USE DEF ChatPC
<1>1. CASE FindAgent(p)
  <2>1. proc' \in [Procs -> Locals]
    BY <1>1, GotoType DEF FindAgent, At
  <2>2. agents' \in [Turns -> [busy : BOOLEAN, messages : Seq(Items)]]
    BY <1>1, AgentsType, ProcType DEF FindAgent, TypeOK
  <2>3. QED
    BY <1>1, <2>1, <2>2 DEF FindAgent, TypeOK
<1>2. CASE StoreAgent(p)
  <2>1. proc' \in [Procs -> Locals] /\ cache' \in 0..MaxChats
    BY <1>2, GotoType, ProcType DEF StoreAgent, At
  <2>2. QED
    BY <1>2, <2>1 DEF StoreAgent, TypeOK
<1>3. CASE CallAgent(p)
  <2>1. CASE Goto(p, "error") /\ UNCHANGED agents
    <3>1. proc' \in [Procs -> Locals]
      BY <1>3, <2>1, GotoType DEF CallAgent, At
    <3>2. QED
      BY <1>3, <2>1, <3>1 DEF CallAgent, TypeOK
  <2>2. CASE ~ (cache = 0 \/ agents[cache].busy)
    <3> DEFINE s == Append(agents[cache].messages, [turn |-> proc[p].turn, role |-> "user"])
    <3>1. cache \in Turns /\ cache \in 0..MaxChats /\ proc[p].turn \in Turns
      BY <1>3, <2>2, ProcType DEF CallAgent, At, TypeOK, Turns
    <3>2. s \in Seq(Items)
      BY <3>1, RemembersType
    <3>3. agents' = [agents EXCEPT ![cache].busy = TRUE, ![cache].messages = s]
      BY <1>3, <2>2 DEF CallAgent
    <3>4. agents' \in [Turns -> [busy : BOOLEAN, messages : Seq(Items)]]
      <4> HIDE DEF s
      <4> QED
        BY <3>1, <3>2, <3>3, AgentsType
    <3>5. [proc[p] EXCEPT !.pc = "run", !.agent = cache] \in Locals
      BY <3>1, ProcType DEF Locals, Frames
    <3>6. proc' \in [Procs -> Locals]
      BY <1>3, <2>2, <3>5 DEF CallAgent, TypeOK
    <3>7. QED
      BY <1>3, <3>4, <3>6 DEF CallAgent, TypeOK
  <2>3. QED
    BY <1>3, <2>1, <2>2 DEF CallAgent
<1>4. CASE AgentAnswers(p)
  <2> DEFINE n == proc[p].agent
             s == Append(agents[n].messages, [turn |-> proc[p].turn, role |-> "assistant"])
  <2>1. n \in 0..MaxChats /\ proc[p].turn \in Turns
    BY <1>4, ProcType DEF AgentAnswers, At
  <2>2. agents' = [agents EXCEPT ![n].busy = FALSE, ![n].messages = s]
    BY <1>4 DEF AgentAnswers
  <2>3. agents' \in [Turns -> [busy : BOOLEAN, messages : Seq(Items)]]
    <3>1. CASE n \in Turns
      <4>1. s \in Seq(Items)
        BY <2>1, <3>1, RemembersType
      <4> HIDE DEF s, n
      <4>2. QED
        BY <2>1, <2>2, <4>1, AgentsType
    <3>2. CASE n \notin Turns
      BY <2>2, <3>2 DEF TypeOK
    <3>3. QED
      BY <3>1, <3>2
  <2>4. proc' \in [Procs -> Locals]
    BY <1>4, GotoType DEF AgentAnswers, At
  <2>5. QED
    BY <1>4, <2>3, <2>4 DEF AgentAnswers, TypeOK
<1>5. CASE AgentFails(p)
  <2>1. proc[p].pc \in ChatPC
    BY <1>5 DEF AgentFails, At
  <2>2. proc' \in [Procs -> Locals]
    BY <1>5, <2>1, GotoType DEF AgentFails
  <2>3. agents' \in [Turns -> [busy : BOOLEAN, messages : Seq(Items)]]
    BY <1>5, AgentsType, ProcType, EmptySeq DEF AgentFails, TypeOK
  <2>4. QED
    BY <1>5, <2>2, <2>3 DEF AgentFails, TypeOK
<1>6. QED
  BY <1>1, <1>2, <1>3, <1>4, <1>5

\* Making and storing a summary keeps the types.
LEMMA SummaryTypes ==
  ASSUME TypeOK, NEW p \in Procs,
         \/ Count(p) \/ CountFails(p) \/ List(p) \/ Generate(p) \/ SummaryFails(p)
         \/ SummaryQuery(p) \/ SummaryDelete(p) \/ SummaryPut(p)
         \/ Refresh(p) \/ Assign(p)
  PROVE  TypeOK'
<1> USE DEF ChatPC
<1> DEFINE Done == [proc[p] EXCEPT !.pc = "reply", !.summed = TRUE]
<1>1. proc[p].pc \in ChatPC => Done \in Locals
  BY ProcType DEF Locals, Frames
<1>2. CASE Count(p)
  <2>1. proc' \in [Procs -> Locals]
    BY <1>1, <1>2, GotoType DEF Count, At, TypeOK
  <2>2. lags' \in 0..MaxLags
    BY <1>2, ChatsAssumption DEF Count, ReadTable, TypeOK
  <2>3. QED
    BY <1>2, <2>1, <2>2 DEF Count, TypeOK
<1>3. CASE CountFails(p)
  <2>1. proc' \in [Procs -> Locals]
    BY <1>3, GotoType DEF CountFails
  <2>2. QED
    BY <1>3, <2>1 DEF CountFails, TypeOK
<1>4. CASE List(p)
  <2>1. PICK covers \in SUBSET Messages :
          proc' = IF covers = {} THEN [proc EXCEPT ![p].pc = "reply", ![p].summed = TRUE]
                  ELSE [proc EXCEPT ![p].pc = "generate", ![p].covers = covers]
    BY <1>4, CopiesType, ToSummarizeType DEF List, Copies
  <2>2. proc[p].pc \in ChatPC
    BY <1>4 DEF List, At
  <2>3. [proc[p] EXCEPT !.pc = "generate", !.covers = covers] \in Locals
    BY <2>2, ProcType DEF Locals, Frames
  <2>4. proc' \in [Procs -> Locals]
    BY <1>1, <2>1, <2>2, <2>3 DEF TypeOK
  <2>5. lags' \in 0..MaxLags
    BY <1>4, ChatsAssumption DEF List, ReadTable, TypeOK
  <2>6. QED
    BY <1>4, <2>4, <2>5 DEF List, TypeOK
<1>5. CASE Generate(p)
  <2>1. proc' \in [Procs -> Locals]
    BY <1>5, GotoType DEF Generate, At
  <2>2. QED
    BY <1>5, <2>1 DEF Generate, TypeOK
<1>6. CASE SummaryQuery(p)
  <2>1. PICK batch \in SUBSET Items :
          proc' = [proc EXCEPT ![p].pc = "sum_delete", ![p].batch = batch]
    <3>1. \A t \in Copies : ToSet(SummariesOf(FirstPage(t))) \in SUBSET Items
      BY CopiesType, SplitType, ToSetIs
    <3>2. QED
      BY <1>6, <3>1 DEF SummaryQuery, Copies
  <2>2. proc[p].pc \in ChatPC
    BY <1>6 DEF SummaryQuery, At
  <2>3. [proc[p] EXCEPT !.pc = "sum_delete", !.batch = batch] \in Locals
    BY <2>2, ProcType DEF Locals, Frames
  <2>4. proc' \in [Procs -> Locals]
    BY <2>1, <2>3 DEF TypeOK
  <2>5. lags' \in 0..MaxLags
    BY <1>6, ChatsAssumption DEF SummaryQuery, ReadTable, TypeOK
  <2>6. QED
    BY <1>6, <2>4, <2>5 DEF SummaryQuery, TypeOK
<1>7. CASE SummaryDelete(p)
  <2>1. table' \in Seq(Items)
    BY <1>7, WithoutType DEF SummaryDelete, TypeOK
  <2>2. [proc[p] EXCEPT !.pc = "sum_put", !.batch = {}] \in Locals
    BY <1>7, ProcType DEF SummaryDelete, At, Locals, Frames
  <2>3. proc' \in [Procs -> Locals]
    BY <1>7, <2>2 DEF SummaryDelete, TypeOK
  <2>4. QED
    BY <1>7, <2>1, <2>3 DEF SummaryDelete, TypeOK
<1>8. CASE SummaryPut(p)
  <2>1. proc[p].turn \in Turns
    BY <1>8, ProcType DEF SummaryPut, At
  <2>2. [turn |-> proc[p].turn, role |-> "summary", covers |-> proc[p].covers] \in Items
    BY <2>1, ProcType DEF Items, Summaries
  <2>3. table' \in Seq(Items)
    <3> DEFINE u == [turn |-> proc[p].turn, role |-> "summary", covers |-> proc[p].covers]
    <3>1. table' = Append(table, u)
      BY <1>8 DEF SummaryPut
    <3>2. table \in Seq(Items) /\ u \in Items
      BY <2>2 DEF TypeOK
    <3> HIDE DEF u
    <3>3. QED
      BY <3>1, <3>2, AppendProperties
  <2>4. proc' \in [Procs -> Locals]
    BY <1>8, GotoType DEF SummaryPut, At
  <2>5. QED
    BY <1>8, <2>3, <2>4 DEF SummaryPut, TypeOK
<1>9. CASE Refresh(p)
  <2>1. proc[p].pc \in ChatPC
    BY <1>9 DEF Refresh, At
  <2>2. CASE cache = 0
    <3>1. proc' \in [Procs -> Locals]
      BY <1>1, <1>9, <2>1, <2>2 DEF Refresh, TypeOK
    <3>2. QED
      BY <1>9, <2>2, <3>1 DEF Refresh, TypeOK
  <2>3. CASE cache # 0
    <3>1. PICK c \in Seq(Items) :
            proc' = [proc EXCEPT ![p].pc = "assign", ![p].context = c]
      BY <1>9, <2>3, CopiesType, ContextType DEF Refresh, Copies
    <3>2. [proc[p] EXCEPT !.pc = "assign", !.context = c] \in Locals
      BY <2>1, ProcType DEF Locals, Frames
    <3>3. proc' \in [Procs -> Locals]
      BY <3>1, <3>2 DEF TypeOK
    <3>4. lags' \in 0..MaxLags
      BY <1>9, <2>3, ChatsAssumption DEF Refresh, ReadTable, TypeOK
    <3>5. QED
      BY <1>9, <3>3, <3>4 DEF Refresh, TypeOK
  <2>4. QED
    BY <2>2, <2>3
<1>10. CASE Assign(p)
  <2>1. proc' \in [Procs -> Locals]
    BY <1>1, <1>10 DEF Assign, At, TypeOK
  <2>2. agents' \in [Turns -> [busy : BOOLEAN, messages : Seq(Items)]]
    <3>1. proc[p].context \in Seq(Items) /\ cache \in 0..MaxChats
      BY ProcType DEF TypeOK
    <3>2. QED
      BY <1>10, <3>1, AgentsType DEF Assign, TypeOK
  <2>3. QED
    BY <1>10, <2>1, <2>2 DEF Assign, TypeOK
<1>11. CASE SummaryFails(p)
  <2>1. proc[p].pc \in ChatPC
    BY <1>11 DEF SummaryFails
  <2>2. [proc[p] EXCEPT !.pc = "reply", !.batch = {}] \in Locals
    BY <2>1, ProcType DEF Locals, Frames
  <2>3. proc' \in [Procs -> Locals]
    BY <1>11, <2>2 DEF SummaryFails, TypeOK
  <2>4. QED
    BY <1>11, <2>3 DEF SummaryFails, TypeOK
<1>12. QED
  BY <1>2, <1>3, <1>4, <1>5, <1>6, <1>7, <1>8, <1>9, <1>10, <1>11

\* A deletion keeps the types.
LEMMA DeleteTypes ==
  ASSUME TypeOK, NEW p \in Procs,
         DeleteBegins(p) \/ DeleteQuery(p) \/ DeleteBatch(p) \/ DeletePop(p)
  PROVE  TypeOK'
<1> USE DEF ChatPC, DeletePC
<1>1. CASE DeleteBegins(p)
  <2>1. proc' \in [Procs -> Locals]
    BY <1>1, EnterType DEF DeleteBegins, TypeOK
  <2>2. deletes' \in 0..MaxDeletes
    BY <1>1, ChatsAssumption DEF DeleteBegins, TypeOK
  <2>3. QED
    BY <1>1, <2>1, <2>2 DEF DeleteBegins, TypeOK
<1>2. CASE DeleteQuery(p)
  <2> DEFINE rest(t) == Rest(t, proc[p].last)
             page(t) == Page(t, proc[p].last)
             last(t) == IF page(t) = rest(t) THEN 0 ELSE Max({RankOf(i) : i \in page(t)})
  <2>1. PICK t \in Copies : proc' = [proc EXCEPT ![p].pc = "batch", ![p].batch = page(t),
                                                ![p].last = last(t)]
    BY <1>2 DEF DeleteQuery, Copies
  <2>2. page(t) \in SUBSET Items /\ last(t) \in 0..(4 * MaxChats)
    <3>1. t \in Seq(Items)
      BY CopiesType
    <3>2. QED
      BY <3>1, PageIs, ChatsAssumption DEF Ranks
  <2> HIDE DEF page, last
  <2>3. [proc[p] EXCEPT !.pc = "batch", !.batch = page(t), !.last = last(t)] \in Locals
    BY <2>2, ProcType DEF Locals, Frames
  <2>4. proc' \in [Procs -> Locals]
    BY <2>1, <2>3 DEF TypeOK
  <2>5. lags' \in 0..MaxLags
    BY <1>2, ChatsAssumption DEF DeleteQuery, ReadTable, TypeOK
  <2>6. QED
    BY <1>2, <2>4, <2>5 DEF DeleteQuery, TypeOK
<1>3. CASE DeleteBatch(p)
  <2>1. table' \in Seq(Items)
    BY <1>3, WithoutType DEF DeleteBatch, TypeOK
  <2>2. \A pc \in {"query", "pop"} :
          [proc[p] EXCEPT !.pc = pc, !.batch = {}] \in Locals
    BY ProcType DEF Locals, Frames
  <2>3. proc' \in [Procs -> Locals]
    BY <1>3, <2>2 DEF DeleteBatch, TypeOK
  <2>4. QED
    BY <1>3, <2>1, <2>3 DEF DeleteBatch, TypeOK
<1>4. CASE DeletePop(p)
  <2>1. proc' \in [Procs -> Locals] /\ cache' \in 0..MaxChats
    BY <1>4, ReturnType, ChatsAssumption DEF DeletePop
  <2>2. QED
    BY <1>4, <2>1 DEF DeletePop, TypeOK
<1>5. QED
  BY <1>1, <1>2, <1>3, <1>4

\* Every step keeps the types.
LEMMA ChatStep == TypeOK /\ [Next]_vars => TypeOK'
<1> SUFFICES ASSUME TypeOK, [Next]_vars
             PROVE  TypeOK'
  OBVIOUS
<1>1. CASE UNCHANGED vars
  BY <1>1 DEF vars, TypeOK
<1>2. ASSUME NEW p \in Procs, Advance(p)
      PROVE  TypeOK'
  BY <1>2, AroundTypes, AgentTypes, SummaryTypes, DeleteTypes DEF Advance
<1>3. ASSUME NEW p \in Procs,
             \/ ChatBegins(p) \/ DeleteBegins(p)
             \/ AgentFails(p) \/ CountFails(p) \/ SummaryFails(p) \/ TableFails(p)
      PROVE  TypeOK'
  BY <1>3, AroundTypes, AgentTypes, SummaryTypes, DeleteTypes
<1>4. CASE Restart
  <2>1. restarts' \in 0..MaxRestarts /\ cache' \in 0..MaxChats /\ proc' \in [Procs -> Locals]
    BY <1>4, EnterType, ChatsAssumption DEF Restart, TypeOK
  <2>2. agents' \in [Turns -> [busy : BOOLEAN, messages : Seq(Items)]]
    BY <1>4, EmptySeq DEF Restart, NewAgent
  <2>3. QED
    BY <1>4, <2>1, <2>2 DEF Restart, TypeOK
<1>5. CASE CatchUp
  BY <1>5 DEF CatchUp, TypeOK
<1>6. QED
  BY <1>1, <1>2, <1>3, <1>4, <1>5 DEF Next

\* A new conversation is well typed.
LEMMA ChatInit == Init => TypeOK
<1> SUFFICES ASSUME Init
             PROVE  TypeOK
  OBVIOUS
<1>1. /\ table \in Seq(Items) /\ lagTable \in Seq(Items)
      /\ agents \in [Turns -> [busy : BOOLEAN, messages : Seq(Items)]]
  BY EmptySeq DEF Init, NewAgent
<1>2. proc \in [Procs -> Locals]
  BY EnterType DEF Init
<1>3. /\ cache \in 0..MaxChats /\ chats \in 0..MaxChats
      /\ deletes \in 0..MaxDeletes /\ restarts \in 0..MaxRestarts
      /\ lags \in 0..MaxLags
  BY ChatsAssumption DEF Init
<1>4. /\ conv \in {"none", "full", "bare"} /\ lagConv \in {"none", "full", "bare"}
      /\ gone \in BOOLEAN
  BY DEF Init
<1>5. QED
  BY <1>1, <1>2, <1>3, <1>4 DEF TypeOK

\* The tables, the agents and the requests keep their types, whatever overlaps,
\* whatever fails, however far reads lag behind and however many pages there are;
\* in particular no summary ever covers a summary.
THEOREM ChatTypes == Spec => []TypeOK
BY ChatInit, ChatStep, PTL DEF Spec

-----------------------------------------------------------------------------
(* What a step does to the table and to the requests.                      *)

\* A step of a request.
Moves(p) == \/ Advance(p) \/ ChatBegins(p) \/ DeleteBegins(p)
            \/ AgentFails(p) \/ CountFails(p) \/ SummaryFails(p) \/ TableFails(p)

\* A step is a step of one request, and the others stay where they are.
LEMMA OneMoves ==
  ASSUME TypeOK, [Next]_vars
  PROVE  \/ UNCHANGED vars
         \/ Restart
         \/ CatchUp
         \/ \E p \in Procs : Moves(p) /\ \A q \in Procs \ {p} : proc'[q] = proc[q]
<1>1. ASSUME NEW p \in Procs, Moves(p)
      PROVE  \A q \in Procs \ {p} : proc'[q] = proc[q]
  <2>1. proc \in [Procs -> Locals]
    BY DEF TypeOK
  <2>2. CASE \/ ChatBegins(p) \/ DeleteBegins(p) \/ AgentFails(p) \/ CountFails(p)
             \/ SummaryFails(p) \/ TableFails(p)
    BY <2>1, <2>2
       DEF ChatBegins, DeleteBegins, AgentFails, CountFails, SummaryFails, TableFails, Goto, Return
  <2>3. CASE Advance(p)
    BY <2>1, <2>3
       DEF Advance, LoadHistory, AddUser, AddReply, AddError, AddMessage, Touch, FindAgent,
           StoreAgent, CallAgent, AgentAnswers, Count, List, Generate, SummaryQuery,
           SummaryDelete, SummaryPut, Refresh, Assign, DeleteQuery, DeleteBatch, DeletePop,
           Goto, Return
  <2>4. QED
    BY <1>1, <2>2, <2>3 DEF Moves
<1>2. QED
  BY <1>1 DEF Next, Moves

\* Once a read has lagged behind, one has: before that, all reads were current.
LEMMA LagsFall ==
  ASSUME TypeOK, [Next]_vars, lags' = MaxLags
  PROVE  lags' = lags
<1>1. lags \in 0..MaxLags /\ MaxLags \in Nat
  BY ChatsAssumption DEF TypeOK
<1>2. CASE UNCHANGED vars
  BY <1>2 DEF vars
<1>3. CASE Restart \/ CatchUp
  BY <1>3 DEF Restart, CatchUp
<1>4. ASSUME NEW p \in Procs, Moves(p)
      PROVE  lags' <= lags
  <2>1. \A x : (ReadTable(x) \/ ReadConv(x)) => lags' <= lags
    BY <1>1 DEF ReadTable, ReadConv
  <2>2. CASE UNCHANGED lags
    BY <1>1, <2>2
  <2>3. CASE ~ UNCHANGED lags
    BY <1>4, <2>1, <2>3
       DEF Moves, Advance, LoadHistory, AddUser, AddReply, AddError, AddMessage, Touch, FindAgent,
           StoreAgent, CallAgent, AgentAnswers, Count, List, Generate, SummaryQuery,
           SummaryDelete, SummaryPut, Refresh, Assign, DeleteQuery, DeleteBatch, DeletePop,
           ChatBegins, DeleteBegins, AgentFails, CountFails, SummaryFails, TableFails
  <2>4. QED
    BY <2>2, <2>3
<1>5. CASE \E p \in Procs : Moves(p)
  BY <1>1, <1>4, <1>5
<1>6. QED
  BY <1>2, <1>3, <1>5 DEF Next, Moves

\* The messages and summaries when a message is added.
LEMMA MessageAdded ==
  ASSUME NEW t \in Seq(Items), NEW m \in Messages
  PROVE  /\ MessagesOf(Append(t, m)) = Append(MessagesOf(t), m)
         /\ SummariesOf(Append(t, m)) = SummariesOf(t)
BY WithoutAppend, ItemsSplit DEF MessagesOf, SummariesOf, Items

\* The messages and summaries when a summary is added.
LEMMA SummaryAdded ==
  ASSUME NEW t \in Seq(Items), NEW s \in Summaries
  PROVE  /\ MessagesOf(Append(t, s)) = MessagesOf(t)
         /\ SummariesOf(Append(t, s)) = Append(SummariesOf(t), s)
BY WithoutAppend, ItemsSplit DEF MessagesOf, SummariesOf, Items

\* The messages and summaries when summaries are deleted.
LEMMA SummariesDeleted ==
  ASSUME NEW t \in Seq(Items), NEW D, D \subseteq Summaries
  PROVE  /\ MessagesOf(Without(t, D)) = MessagesOf(t)
         /\ ToSet(SummariesOf(Without(t, D))) = ToSet(SummariesOf(t)) \ D
<1>1. Without(t, D) \in Seq(Items)
  BY WithoutType
<1>2. /\ ToSet(SummariesOf(Without(t, D))) = (ToSet(t) \ D) \ Messages
      /\ ToSet(SummariesOf(t)) = ToSet(t) \ Messages
  BY <1>1, WithoutItems DEF SummariesOf
<1>3. MessagesOf(Without(t, D)) = MessagesOf(t)
  BY WithoutOthers DEF MessagesOf
<1>4. QED
  BY <1>2, <1>3

-----------------------------------------------------------------------------
(* Summaries.  Until a deletion is asked for, what is summarised is always *)
(* a run of messages from the first, however requests overlap and however  *)
(* far a read lags behind: the messages only grow, a copy that lags holds  *)
(* a beginning of them, and what add_summary deletes are summaries.        *)

\* The conversation fits in a page.
Short == Len(table) <= PageSize

IsStart(c, s) == \E k \in 0..Len(s) : c = ToSet(SubSeq(s, 1, k))

\* A beginning of a sequence.
Begins(b, s) == \E k \in 0..Len(s) : b = SubSeq(s, 1, k)

\* Where a request holds what its summary is to cover.
Summarising == {"generate", "sum_query", "sum_delete", "sum_put"}

\* A request that covers a start of the messages, and deletes summaries only.
CoversStart(l, s) ==
  /\ l.pc \notin DeletePC
  /\ l.pc \in Summarising => IsStart(l.covers, s)
  /\ l.pc = "sum_delete" => l.batch \subseteq Summaries

\* The copy that lags behind is no longer than a page, nor than the messages.
Lags == Len(lagTable) <= PageSize /\ Begins(MessagesOf(lagTable), MessagesOf(table))

StartInv == deletes = MaxDeletes =>
  /\ Lags
  /\ \A p \in Procs : CoversStart(proc[p], MessagesOf(table))
  /\ \A s \in ToSet(SummariesOf(table)) : IsStart(s.covers, MessagesOf(table))

\* All of a sequence is a beginning of it, and a beginning is one of more too.
LEMMA BeginsGrows ==
  ASSUME NEW S, NEW s \in Seq(S)
  PROVE  /\ Begins(s, s) /\ Begins(<<>>, s)
         /\ \A e \in S : \A b : Begins(b, s) => Begins(b, Append(s, e))
<1>1. Len(s) \in Nat /\ SubSeq(s, 1, Len(s)) = s /\ SubSeq(s, 1, 0) = <<>>
  BY SubSeqFull, SubSeqEmpty
<1>2. Begins(s, s) /\ Begins(<<>>, s)
  <2>1. Len(s) \in 0..Len(s) /\ 0 \in 0..Len(s)
    BY <1>1
  <2>2. QED
    BY <1>1, <2>1, Zenon DEF Begins
<1>3. ASSUME NEW e \in S, NEW b, Begins(b, s)
      PROVE  Begins(b, Append(s, e))
  <2>1. PICK k \in 0..Len(s) : b = SubSeq(s, 1, k)
    BY <1>3 DEF Begins
  <2>2. SubSeq(Append(s, e), 1, k) = SubSeq(s, 1, k) /\ k \in 0..Len(Append(s, e))
    BY AppendProperties
  <2>3. QED
    BY <2>1, <2>2 DEF Begins
<1>4. QED
  BY <1>2, <1>3

\* A start of a beginning is one of the whole.
LEMMA StartOfBeginning ==
  ASSUME NEW S, NEW s \in Seq(S), NEW b, Begins(b, s), NEW c, IsStart(c, b)
  PROVE  IsStart(c, s)
<1>1. PICK k \in 0..Len(s) : b = SubSeq(s, 1, k)
  BY DEF Begins
<1>2. Len(s) \in Nat /\ \A i \in 1..Len(s) : s[i] \in S
  OBVIOUS
<1>3. b \in Seq(S) /\ Len(b) = k /\ \A i \in 1..k : b[i] = s[i]
  <2>1. \A i \in 1..k : s[i] \in S
    BY <1>2
  <2>2. CASE k = 0
    BY <1>1, <2>2, SubSeqEmpty, EmptySeq
  <2>3. CASE k > 0
    BY <1>1, <1>2, <2>1, <2>3, SubSeqProperties
  <2>4. QED
    BY <1>2, <2>2, <2>3
<1>4. PICK j \in 0..Len(b) : c = ToSet(SubSeq(b, 1, j))
  BY DEF IsStart
<1>5. SubSeq(b, 1, j) = SubSeq(s, 1, j)
  BY <1>3, <1>4
<1>6. j \in 0..Len(s)
  BY <1>2, <1>3
<1>7. QED
  BY <1>4, <1>5, <1>6 DEF IsStart

\* As long as a conversation fits in a page a read finds all of it, or all of a
\* copy that lags.
LEMMA ReadsAll ==
  ASSUME TypeOK, Short, NEW t \in Copies
  PROVE  /\ FirstPage(table) = table
         /\ Lags => /\ FirstPage(t) = t /\ t \in Seq(Items)
                    /\ Begins(MessagesOf(t), MessagesOf(table))
<1>1. t = table \/ t = lagTable
  BY DEF Copies
<1>2. MessagesOf(table) \in Seq(Messages)
  BY SplitType DEF TypeOK
<1>3. Begins(MessagesOf(table), MessagesOf(table))
  BY <1>2, BeginsGrows
<1>4. QED
  BY <1>1, <1>3 DEF Short, FirstPage, Lags, TypeOK

\* A start of the messages is one when there are more.
LEMMA StartGrows ==
  ASSUME NEW S, NEW s \in Seq(S), NEW e \in S, NEW c, IsStart(c, s)
  PROVE  IsStart(c, Append(s, e))
<1>1. PICK k \in 0..Len(s) : c = ToSet(SubSeq(s, 1, k))
  BY DEF IsStart
<1>2. SubSeq(Append(s, e), 1, k) = SubSeq(s, 1, k)
  BY AppendProperties
<1>3. k \in 0..Len(Append(s, e))
  BY AppendProperties
<1>4. QED
  BY <1>1, <1>2, <1>3 DEF IsStart

\* What is to be summarised is a start of the messages.
LEMMA StartListed ==
  ASSUME NEW S, NEW s \in Seq(S)
  PROVE  IsStart(ToSummarize(s), s)
<1>1. Len(s) \in Nat /\ Keep \in Nat
  BY KeepType
<1>2. CASE Len(s) >= Keep
  BY <1>1, <1>2 DEF IsStart, ToSummarize
<1>3. CASE Len(s) < Keep
  <2>1. SubSeq(s, 1, Len(s) - Keep) = <<>> /\ SubSeq(s, 1, 0) = <<>>
    BY <1>1, <1>3, SubSeqEmpty
  <2>2. ToSummarize(s) = ToSet(SubSeq(s, 1, Len(s) - Keep))
    BY DEF ToSummarize
  <2>3. ToSummarize(s) = ToSet(SubSeq(s, 1, 0))
    BY <2>1, <2>2
  <2>4. 0 \in 0..Len(s)
    BY <1>1
  <2>5. QED
    BY <2>3, <2>4 DEF IsStart
<1>4. QED
  BY <1>1, <1>2, <1>3

\* When only request p and at most the messages' end change, what the others and
\* the table's summaries cover is a start still; p and a new summary are left.
LEMMA StartKept ==
  ASSUME TypeOK, StartInv, deletes = MaxDeletes, NEW p \in Procs,
         \A q \in Procs \ {p} : proc'[q] = proc[q], UNCHANGED lagTable,
         \/ MessagesOf(table') = MessagesOf(table)
         \/ \E m \in Messages : MessagesOf(table') = Append(MessagesOf(table), m),
         CoversStart(proc'[p], MessagesOf(table')),
         \A s \in ToSet(SummariesOf(table')) :
           s \in ToSet(SummariesOf(table)) \/ IsStart(s.covers, MessagesOf(table'))
  PROVE  StartInv'
<1>1. MessagesOf(table) \in Seq(Messages)
  BY SplitType DEF TypeOK
<1>2. \A c : IsStart(c, MessagesOf(table)) => IsStart(c, MessagesOf(table'))
  BY <1>1, StartGrows
<1>3. \A q \in Procs : CoversStart(proc'[q], MessagesOf(table'))
  BY <1>2 DEF StartInv, CoversStart
<1>4. \A s \in ToSet(SummariesOf(table')) : IsStart(s.covers, MessagesOf(table'))
  BY <1>2 DEF StartInv
<1>5. Lags'
  BY <1>1, BeginsGrows DEF StartInv, Lags
<1>6. QED
  BY <1>3, <1>4, <1>5 DEF StartInv

\* A request that neither covers nor deletes anything is no danger.
LEMMA CoversNothing ==
  ASSUME NEW l, NEW s, l.pc \notin DeletePC \union Summarising
  PROVE  CoversStart(l, s)
BY DEF CoversStart, Summarising

\* A request's step keeps StartInv.
LEMMA StartMoves ==
  ASSUME TypeOK, Short, StartInv, deletes = MaxDeletes, deletes' = MaxDeletes,
         NEW p \in Procs, Moves(p), \A q \in Procs \ {p} : proc'[q] = proc[q]
  PROVE  StartInv'
<1> USE DEF ChatPC, DeletePC, Summarising
<1>1. proc \in [Procs -> Locals] /\ table \in Seq(Items) /\ proc[p] \in Frames
  BY ProcType DEF TypeOK
<1>2. CoversStart(proc[p], MessagesOf(table)) /\ Lags
  BY DEF StartInv
<1>same. UNCHANGED lagTable
  <2>1. CASE Advance(p)
    BY <2>1
       DEF Advance, LoadHistory, AddUser, AddReply, AddError, AddMessage, Touch, FindAgent,
           StoreAgent, CallAgent, AgentAnswers, Count, List, Generate, SummaryQuery,
           SummaryDelete, SummaryPut, Refresh, Assign, DeleteQuery, DeleteBatch, DeletePop
  <2>2. CASE ~ Advance(p)
    BY <2>2
       DEF Moves, ChatBegins, DeleteBegins, AgentFails, CountFails, SummaryFails, TableFails
  <2>3. QED
    BY <2>1, <2>2
<1>3. MessagesOf(table) \in Seq(Messages)
  BY <1>1, SplitType
<1>4. ASSUME NEW from \in ChatPC, NEW role \in {"user", "assistant", "error"},
             NEW to \in {"touch_user", "touch_reply"}, AddMessage(p, from, role, to)
      PROVE  StartInv'
  <2>1. [turn |-> proc[p].turn, role |-> role] \in Messages
    <3>1. to \in ChatPC
      OBVIOUS
    <3> HIDE DEF ChatPC, DeletePC, Summarising
    <3>2. QED
      BY <1>4, <3>1, AddMessageType
  <2>2. proc'[p].pc = to
    BY <1>1, <1>4 DEF AddMessage, Goto, Frames
  <2>3. CoversStart(proc'[p], MessagesOf(table'))
    BY <2>2, CoversNothing
  <2>4. /\ MessagesOf(table') = Append(MessagesOf(table), [turn |-> proc[p].turn, role |-> role])
        /\ SummariesOf(table') = SummariesOf(table)
    BY <1>1, <1>4, <2>1, MessageAdded DEF AddMessage
  <2>5. QED
    BY <2>1, <2>3, <2>4, <1>same, StartKept
<1>5. CASE AddUser(p) \/ AddReply(p) \/ AddError(p)
  BY <1>4, <1>5 DEF AddUser, AddReply, AddError
<1>6. ASSUME UNCHANGED table, proc'[p].pc \notin DeletePC \union Summarising
      PROVE  StartInv'
  BY <1>6, <1>same, CoversNothing, StartKept
<1>7. CASE \/ ChatBegins(p) \/ LoadHistory(p) \/ Touch(p) \/ TableFails(p)
           \/ FindAgent(p) \/ StoreAgent(p) \/ CallAgent(p) \/ AgentAnswers(p)
           \/ AgentFails(p) \/ Count(p) \/ CountFails(p) \/ SummaryFails(p)
           \/ Refresh(p) \/ Assign(p)
  <2>1. UNCHANGED table
    BY <1>7 DEF ChatBegins, LoadHistory, Touch, TableFails, FindAgent, StoreAgent, CallAgent,
                AgentAnswers, AgentFails, Count, CountFails, SummaryFails, Refresh, Assign
  <2>2. proc'[p].pc \notin DeletePC \union Summarising
    <3>1. CASE ChatBegins(p)
      BY <1>1, <3>1 DEF ChatBegins, Enter, Idle
    <3>2. CASE ~ ChatBegins(p)
      BY <1>1, <1>7, <3>2
         DEF LoadHistory, Touch, TableFails, FindAgent, StoreAgent, CallAgent,
             AgentAnswers, AgentFails, Count, CountFails, SummaryFails, Refresh, Assign,
             Goto, Return, Idle, Enter, Frames
    <3>3. QED
      BY <3>1, <3>2
  <2>3. QED
    BY <1>6, <2>1, <2>2
<1>8. CASE List(p)
  <2> DEFINE covers(t) == ToSummarize(MessagesOf(FirstPage(t)))
  <2>1. PICK t \in Copies :
          proc' = IF covers(t) = {} THEN [proc EXCEPT ![p].pc = "reply", ![p].summed = TRUE]
                  ELSE [proc EXCEPT ![p].pc = "generate", ![p].covers = covers(t)]
    BY <1>8 DEF List, Copies
  <2>2. IsStart(covers(t), MessagesOf(table))
    <3>1. /\ FirstPage(t) = t /\ MessagesOf(t) \in Seq(Messages)
          /\ Begins(MessagesOf(t), MessagesOf(table))
      BY <1>2, ReadsAll, SplitType
    <3>2. IsStart(covers(t), MessagesOf(t))
      BY <3>1, StartListed
    <3> HIDE DEF covers
    <3>3. QED
      BY <1>3, <3>1, <3>2, StartOfBeginning
  <2> HIDE DEF covers
  <2>3. UNCHANGED table
    BY <1>8 DEF List
  <2>4. CASE covers(t) = {}
    <3>1. proc'[p].pc = "reply"
      BY <1>1, <2>1, <2>4 DEF Frames
    <3>2. QED
      BY <1>6, <2>3, <3>1
  <2>5. CASE covers(t) # {}
    <3>1. proc'[p].pc = "generate" /\ proc'[p].covers = covers(t)
      BY <1>1, <2>1, <2>5 DEF Frames
    <3>2. CoversStart(proc'[p], MessagesOf(table'))
      BY <2>2, <2>3, <3>1 DEF CoversStart
    <3>3. QED
      BY <1>same, <2>3, <3>2, StartKept
  <2>6. QED
    BY <2>4, <2>5
<1>9. CASE Generate(p)
  <2>1. CoversStart(proc'[p], MessagesOf(table'))
    BY <1>1, <1>2, <1>9 DEF Generate, At, Goto, CoversStart, Frames
  <2>2. QED
    BY <1>9, <2>1, <1>same, StartKept DEF Generate
<1>10. CASE SummaryQuery(p)
  <2>1. PICK batch \in SUBSET Summaries :
          proc' = [proc EXCEPT ![p].pc = "sum_delete", ![p].batch = batch]
    <3>1. \A t \in Copies : ToSet(SummariesOf(FirstPage(t))) \in SUBSET Summaries
      BY CopiesType, SplitType, ToSetIs
    <3>2. QED
      BY <1>10, <3>1 DEF SummaryQuery, Copies
  <2>2. CoversStart(proc'[p], MessagesOf(table'))
    BY <1>1, <1>2, <1>10, <2>1 DEF SummaryQuery, At, CoversStart, Frames
  <2>3. QED
    BY <1>10, <1>same, <2>2, StartKept DEF SummaryQuery
<1>11. CASE SummaryDelete(p)
  <2>1. proc[p].batch \subseteq Summaries
    BY <1>2, <1>11 DEF SummaryDelete, At, CoversStart
  <2>2. /\ MessagesOf(table') = MessagesOf(table)
        /\ ToSet(SummariesOf(table')) \subseteq ToSet(SummariesOf(table))
    BY <1>1, <1>11, <2>1, SummariesDeleted DEF SummaryDelete
  <2>3. CoversStart(proc'[p], MessagesOf(table'))
    BY <1>1, <1>2, <1>11, <2>2 DEF SummaryDelete, At, CoversStart, Frames
  <2>4. QED
    BY <2>2, <2>3, <1>same, StartKept
<1>12. CASE SummaryPut(p)
  <2> DEFINE s == [turn |-> proc[p].turn, role |-> "summary", covers |-> proc[p].covers]
  <2>1. IsStart(s.covers, MessagesOf(table))
    BY <1>2, <1>12 DEF SummaryPut, At, CoversStart
  <2>2. proc'[p].pc = "refresh" /\ table' = Append(table, s)
    BY <1>1, <1>12 DEF SummaryPut, Goto, Frames
  <2>3. s \in Summaries
    BY <1>12, ProcType DEF SummaryPut, At, Summaries
  <2>4. /\ MessagesOf(table') = MessagesOf(table)
        /\ SummariesOf(table') = Append(SummariesOf(table), s)
    BY <1>1, <2>2, <2>3, SummaryAdded
  <2>5. ToSet(SummariesOf(table')) = ToSet(SummariesOf(table)) \union {s}
    BY <1>1, <2>3, <2>4, SplitType, ToSetAppend
  <2>6. CoversStart(proc'[p], MessagesOf(table'))
    BY <2>2, CoversNothing
  <2>7. QED
    BY <1>same, <2>1, <2>4, <2>5, <2>6, StartKept
<1>13. CASE DeleteBegins(p)
  BY <1>13, ChatsAssumption DEF DeleteBegins, TypeOK
<1>14. CASE DeleteQuery(p) \/ DeleteBatch(p) \/ DeletePop(p)
  BY <1>2, <1>14 DEF DeleteQuery, DeleteBatch, DeletePop, At, CoversStart
<1>15. QED
  BY <1>5, <1>7, <1>8, <1>9, <1>10, <1>11, <1>12, <1>13, <1>14 DEF Moves, Advance

\* Every step keeps it.
LEMMA StartStep == TypeOK /\ Short /\ StartInv /\ [Next]_vars => StartInv'
<1> SUFFICES ASSUME TypeOK, Short, StartInv, [Next]_vars
             PROVE  StartInv'
  OBVIOUS
<1>1. CASE UNCHANGED vars
  BY <1>1 DEF vars, StartInv, Lags
<1>2. CASE Restart
  <2>1. \A p \in Procs : proc'[p] = Idle
    BY <1>2 DEF Restart
  <2>2. Idle.pc \notin DeletePC \union Summarising
    BY DEF Idle, Enter, DeletePC, Summarising
  <2>3. \A p \in Procs : CoversStart(proc'[p], MessagesOf(table'))
    BY <2>1, <2>2, CoversNothing
  <2>4. QED
    BY <1>2, <2>3 DEF Restart, StartInv, Lags
<1>3. ASSUME NEW p \in Procs, Moves(p), \A q \in Procs \ {p} : proc'[q] = proc[q]
      PROVE  StartInv'
  <2>1. deletes' = MaxDeletes => deletes = MaxDeletes
    <3>1. CASE DeleteBegins(p)
      BY <3>1, ChatsAssumption DEF DeleteBegins, TypeOK
    <3>2. CASE ~ DeleteBegins(p)
      BY <1>3, <3>2
         DEF Moves, Advance, LoadHistory, AddUser, AddReply, AddError, AddMessage, Touch, FindAgent,
             StoreAgent, CallAgent, AgentAnswers, Count, List, Generate, SummaryQuery,
             SummaryDelete, SummaryPut, Refresh, Assign, DeleteQuery, DeleteBatch, DeletePop,
             ChatBegins, AgentFails, CountFails, SummaryFails, TableFails
    <3>3. QED
      BY <3>1, <3>2
  <2>2. CASE deletes' = MaxDeletes
    BY <1>3, <2>1, <2>2, StartMoves
  <2>3. CASE deletes' # MaxDeletes
    BY <2>3 DEF StartInv
  <2>4. QED
    BY <2>2, <2>3
<1>4. CASE CatchUp
  <2>1. /\ UNCHANGED <<table, proc, deletes>>
        /\ UNCHANGED lagTable \/ lagTable' = table
    BY <1>4 DEF CatchUp
  <2>2. Begins(MessagesOf(table), MessagesOf(table))
    BY SplitType, BeginsGrows DEF TypeOK
  <2>3. QED
    BY <2>1, <2>2 DEF StartInv, Lags, Short
<1>5. QED
  BY <1>1, <1>2, <1>3, <1>4, OneMoves

\* It holds of a new conversation, and what the newest summary covers is one of
\* the things it speaks of.
LEMMA StartInit == Init => StartInv
<1> SUFFICES ASSUME Init
             PROVE  StartInv
  OBVIOUS
<1>1. ToSet(SummariesOf(table)) = {}
  BY WithoutEmpty DEF Init, SummariesOf, ToSet
<1>2. \A p \in Procs : proc[p].pc \notin DeletePC \union Summarising
  BY DEF Init, Idle, Enter, DeletePC, Summarising
<1>3. Lags
  <2>1. MessagesOf(lagTable) = <<>> /\ Len(lagTable) = 0 /\ table \in Seq(Items)
    BY EmptySeq, WithoutEmpty DEF Init, MessagesOf
  <2>2. Begins(<<>>, MessagesOf(table))
    BY <2>1, SplitType, BeginsGrows
  <2>3. QED
    BY <2>1, <2>2, PageAssumption DEF Lags
<1>4. QED
  BY <1>1, <1>2, <1>3, CoversNothing DEF StartInv

LEMMA StartIsPrefix == TypeOK /\ StartInv => SummaryIsPrefix
<1> SUFFICES ASSUME TypeOK, StartInv, deletes = MaxDeletes,
                    NEW s \in ToSet(Newest(SummariesOf(table), 1))
             PROVE  IsStart(s.covers, MessagesOf(table))
  BY DEF SummaryIsPrefix, IsStart
<1>1. SummariesOf(table) \in Seq(Summaries)
  BY SplitType DEF TypeOK
<1>2. s \in ToSet(SummariesOf(table))
  BY <1>1, NewestItems
<1>3. QED
  BY <1>2 DEF StartInv

\* As long as no deletion was asked for and the conversation fits in a page, no
\* message older than one the newest summary covers is left out, whichever requests
\* overlap, fail or are killed, and however far a read lags behind.
THEOREM ChatSummaries == Spec /\ []Short => []SummaryIsPrefix
<1>1. Init => TypeOK /\ StartInv
  BY ChatInit, StartInit
<1>2. TypeOK /\ Short /\ StartInv /\ [Next]_vars => (TypeOK /\ StartInv)'
  BY ChatStep, StartStep
<1>3. QED
  BY <1>1, <1>2, StartIsPrefix, PTL DEF Spec

-----------------------------------------------------------------------------
(* Deletions that overlap no chat, however many requests there are.        *)

\* No message is answered while the conversation is deleted.
Apart == \A p, q \in Procs : ~ (proc[p].pc \in ChatPC /\ proc[q].pc \in DeletePC)

\* A chat finds the conversation and a deletion does not; what a deletion has not
\* found yet follows its last page, and nothing is left behind it.
Deletes(l) ==
  /\ l.pc \in ChatPC => conv = "full"
  /\ l.pc \in DeletePC => conv = "none"
  /\ l.pc = "query" => \A i \in ToSet(table) : RankOf(i) > l.last
  /\ l.pc = "batch" => \A i \in ToSet(table) \ l.batch : l.last # 0 /\ RankOf(i) > l.last
  /\ l.pc = "pop" => table = <<>>
DeleteInv ==
  /\ conv # "bare"
  /\ gone => conv = "none" /\ table = <<>> /\ cache = 0
  /\ \A p \in Procs : Deletes(proc[p])

\* A chat's step leaves a conversation that was found as it is.
LEMMA DeleteChats ==
  ASSUME TypeOK, DeleteInv, NEW p \in Procs, proc[p].pc \in ChatPC, Moves(p),
         \A q \in Procs \ {p} : proc'[q] = proc[q], Apart
  PROVE  DeleteInv'
<1> USE DEF ChatPC, DeletePC
<1>1. proc \in [Procs -> Locals] /\ proc[p] \in Frames
  BY ProcType DEF TypeOK
<1>2. conv = "full" /\ gone = FALSE
  BY DEF DeleteInv, Deletes, TypeOK
<1>3. /\ UNCHANGED <<conv, gone>>
      /\ proc'[p].pc \in ChatPC \union {"idle"}
  <2>1. proc[p] # Idle
    BY DEF Idle, Enter
  <2>2. CASE AddUser(p) \/ AddReply(p) \/ AddError(p)
    BY <1>1, <2>2 DEF AddUser, AddReply, AddError, AddMessage, Goto, Frames
  <2>3. CASE \/ Touch(p) \/ TableFails(p) \/ LoadHistory(p) \/ AgentFails(p)
             \/ CountFails(p) \/ SummaryFails(p)
    BY <1>1, <1>2, <2>3
       DEF Touch, TableFails, LoadHistory, AgentFails, CountFails, SummaryFails,
           Goto, Return, Idle, Enter, Frames
  <2>4. CASE \/ FindAgent(p) \/ StoreAgent(p) \/ CallAgent(p) \/ AgentAnswers(p)
             \/ Refresh(p) \/ Assign(p)
    BY <1>1, <2>4
       DEF FindAgent, StoreAgent, CallAgent, AgentAnswers, Refresh, Assign, Goto, Frames
  <2>5. CASE \/ Count(p) \/ List(p) \/ Generate(p) \/ SummaryQuery(p)
             \/ SummaryDelete(p) \/ SummaryPut(p)
    BY <1>1, <2>5
       DEF Count, List, Generate, SummaryQuery, SummaryDelete, SummaryPut, Goto, Frames
  <2>6. QED
    BY <2>1, <2>2, <2>3, <2>4, <2>5
       DEF Moves, Advance, ChatBegins, DeleteBegins, DeleteQuery, DeleteBatch, DeletePop, At
<1>4. Deletes(proc[p])'
  BY <1>2, <1>3 DEF Deletes
<1>5. \A q \in Procs \ {p} : Deletes(proc[q])'
  <2>1. SUFFICES ASSUME NEW q \in Procs \ {p}
                 PROVE  Deletes(proc[q])'
    OBVIOUS
  <2>2. proc'[q] = proc[q] /\ proc[q].pc \notin DeletePC
    BY DEF Apart
  <2>3. QED
    BY <1>2, <1>3, <2>2 DEF Deletes
<1>6. QED
  BY <1>2, <1>3, <1>4, <1>5 DEF DeleteInv

\* What a deletion's step leaves in the table is in it already; the other
\* deletions' pages are still all of it.
LEMMA DeleteOthers ==
  ASSUME TypeOK, DeleteInv, NEW p \in Procs, \A q \in Procs \ {p} : proc'[q] = proc[q],
         conv' = conv \/ (conv' = "none" /\ Apart' /\ proc'[p].pc \in DeletePC),
         Deletes(proc[p])',
         table' = table \/ \E d : table' = Without(table, d),
         gone' => conv' = "none" /\ table' = <<>> /\ cache' = 0
  PROVE  DeleteInv'
<1>1. ToSet(table') \subseteq ToSet(table) /\ (table = <<>> => table' = <<>>)
  BY WithoutItems, WithoutEmpty DEF TypeOK
<1>2. \A q \in Procs \ {p} : Deletes(proc[q])'
  <2>1. SUFFICES ASSUME NEW q \in Procs \ {p}
                 PROVE  Deletes(proc[q])'
    OBVIOUS
  <2>2. Deletes(proc[q]) /\ proc'[q] = proc[q]
    BY DEF DeleteInv
  <2>3. QED
    BY <1>1, <2>2 DEF Deletes, Apart
<1>3. QED
  BY <1>2 DEF DeleteInv

\* A deletion's step keeps DeleteInv.
LEMMA DeleteMoves ==
  ASSUME lags' = lags, TypeOK, DeleteInv, NEW p \in Procs, proc[p].pc \in DeletePC, Moves(p),
         \A q \in Procs \ {p} : proc'[q] = proc[q]
  PROVE  DeleteInv'
<1> USE DEF ChatPC, DeletePC
<1>1. proc \in [Procs -> Locals] /\ proc[p] \in Frames /\ table \in Seq(Items)
      /\ lags \in Nat
  BY ProcType, ChatsAssumption DEF TypeOK
<1>2. Deletes(proc[p]) /\ conv = "none"
  BY DEF DeleteInv, Deletes
<1>3. CASE DeleteQuery(p)
  <2> DEFINE rest == Rest(table, proc[p].last)
             page == Page(table, proc[p].last)
             last == IF page = rest THEN 0 ELSE Max({RankOf(i) : i \in page})
  <2>1. proc' = [proc EXCEPT ![p].pc = "batch", ![p].batch = page, ![p].last = last]
    <3> DEFINE after(t) ==
          [proc EXCEPT ![p].pc = "batch", ![p].batch = Page(t, proc[p].last),
                       ![p].last = IF Page(t, proc[p].last) = Rest(t, proc[p].last) THEN 0
                                   ELSE Max({RankOf(i) : i \in Page(t, proc[p].last)})]
    <3>1. \E t \in {table, lagTable} : ReadTable(t) /\ proc' = after(t)
      BY <1>3 DEF DeleteQuery
    <3>2. SUFFICES proc' = after(table)
      OBVIOUS
    <3> HIDE DEF after
    <3>3. QED
      BY <1>1, <3>1 DEF ReadTable
  <2>2. rest = ToSet(table)
    BY <1>2, <1>3 DEF DeleteQuery, At, Deletes, Rest
  <2>3. \A i \in ToSet(table) \ page : last # 0 /\ RankOf(i) > last
    <3>1. CASE page = rest
      BY <2>2, <3>1
    <3>2. CASE page # rest
      <4>1. last \in Ranks /\ \A i \in rest \ page : RankOf(i) > last
        BY <1>1, <3>2, PageIs
      <4> HIDE DEF page, last, rest
      <4>2. QED
        BY <2>2, <4>1 DEF Ranks
    <3>3. QED
      BY <3>1, <3>2
  <2> HIDE DEF page, last, rest
  <2>4. proc'[p].pc = "batch" /\ proc'[p].batch = page /\ proc'[p].last = last
    BY <1>1, <2>1 DEF Frames
  <2>5. Deletes(proc[p])'
    BY <1>2, <1>3, <2>3, <2>4 DEF Deletes, DeleteQuery
  <2> HIDE DEF ChatPC, DeletePC
  <2>6. QED
    BY <1>3, <2>5, DeleteOthers DEF DeleteQuery, DeleteInv
<1>4. CASE DeleteBatch(p)
  <2>1. proc[p].pc = "batch" /\ table' = Without(table, proc[p].batch)
    BY <1>4 DEF DeleteBatch, At
  <2>2. /\ proc'[p].pc = IF proc[p].last = 0 THEN "pop" ELSE "query"
        /\ proc'[p].last = proc[p].last
    BY <1>1, <1>4 DEF DeleteBatch, Frames
  <2>3. proc[p].last = 0 => table' = <<>>
    <3>1. proc[p].last = 0 => ToSet(table) \subseteq proc[p].batch
      BY <1>2, <2>1 DEF Deletes
    <3>2. QED
      BY <1>1, <2>1, <3>1, WithoutAll
  <2>4. \A i \in ToSet(table') : proc[p].last # 0 => RankOf(i) > proc[p].last
    <3>1. ToSet(table') = ToSet(table) \ proc[p].batch
      BY <1>1, <2>1, WithoutItems
    <3>2. QED
      BY <1>2, <2>1, <3>1 DEF Deletes
  <2>5. Deletes(proc[p])'
    <3>1. conv' = "none"
      BY <1>2, <1>4 DEF DeleteBatch
    <3>2. CASE proc[p].last = 0
      BY <2>2, <2>3, <3>1, <3>2 DEF Deletes
    <3>3. CASE proc[p].last # 0
      BY <2>2, <2>4, <3>1, <3>3 DEF Deletes
    <3>4. QED
      BY <3>2, <3>3
  <2>6. gone' => conv' = "none" /\ table' = <<>> /\ cache' = 0
    BY <1>4, <2>1, WithoutEmpty DEF DeleteBatch, DeleteInv
  <2> HIDE DEF ChatPC, DeletePC
  <2>7. QED
    BY <1>4, <2>1, <2>5, <2>6, DeleteOthers DEF DeleteBatch
<1>5. CASE DeletePop(p)
  <2>1. proc'[p] = Idle /\ table = <<>>
    BY <1>1, <1>2, <1>5 DEF DeletePop, At, Return, Deletes
  <2>2. Deletes(proc[p])'
    BY <2>1 DEF Deletes, Idle, Enter
  <2> HIDE DEF ChatPC, DeletePC
  <2>3. QED
    BY <1>2, <1>5, <2>1, <2>2, DeleteOthers DEF DeletePop
<1>6. CASE TableFails(p)
  <2>1. proc'[p] = Idle
    BY <1>1, <1>6 DEF TableFails, Return
  <2>2. Deletes(proc[p])'
    BY <2>1 DEF Deletes, Idle, Enter
  <2> HIDE DEF ChatPC, DeletePC
  <2>3. QED
    BY <1>6, <2>2, DeleteOthers DEF TableFails, DeleteInv
<1>7. QED
  <2>1. proc[p] # Idle
    BY DEF Idle, Enter
  <2>2. QED
    BY <1>3, <1>4, <1>5, <1>6, <2>1
       DEF Moves, Advance, LoadHistory, AddUser, AddReply, AddError, AddMessage, Touch, FindAgent,
           StoreAgent, CallAgent, AgentAnswers, Count, List, Generate, SummaryQuery,
           SummaryDelete, SummaryPut, Refresh, Assign, ChatBegins, DeleteBegins, AgentFails,
           CountFails, SummaryFails, At

\* A request that starts keeps it, if no deletion starts during a chat.
LEMMA DeleteStarts ==
  ASSUME lags' = lags, TypeOK, DeleteInv, NEW p \in Procs, ChatBegins(p) \/ DeleteBegins(p),
         \A q \in Procs \ {p} : proc'[q] = proc[q], Apart'
  PROVE  DeleteInv'
<1> USE DEF ChatPC, DeletePC
<1>1. proc \in [Procs -> Locals] /\ lags \in Nat
  BY ChatsAssumption DEF TypeOK
<1>2. CASE ChatBegins(p)
  <2>1. /\ UNCHANGED <<conv, gone, table, cache>>
        /\ proc'[p] = proc[p] \/ (conv = "full" /\ proc'[p].pc = "history")
    BY <1>1, <1>2 DEF ChatBegins, ReadConv, Enter
  <2>2. Deletes(proc[p])'
    BY <2>1 DEF Deletes, DeleteInv
  <2> HIDE DEF ChatPC, DeletePC
  <2>3. QED
    BY <2>1, <2>2, DeleteOthers DEF DeleteInv
<1>3. CASE DeleteBegins(p)
  <2>1. /\ UNCHANGED <<gone, table, cache>> /\ conv' = "none"
        /\ proc'[p].pc = "query" /\ proc'[p].pc \in DeletePC /\ proc'[p].last = 0
    BY <1>1, <1>3 DEF DeleteBegins, Enter
  <2>2. \A i \in ToSet(table) : RankOf(i) > 0
    <3>1. ToSet(table) \subseteq Items
      BY ToSetIs DEF TypeOK
    <3>2. QED
      BY <3>1, RankType
  <2>3. Deletes(proc[p])'
    BY <2>1, <2>2 DEF Deletes
  <2> HIDE DEF ChatPC, DeletePC
  <2>4. QED
    BY <2>1, <2>3, DeleteOthers DEF DeleteInv
<1>4. QED
  BY <1>2, <1>3

\* A request that is not in progress can only start.
LEMMA IdleStarts ==
  ASSUME NEW p \in Procs, Moves(p), proc[p].pc \notin ChatPC \union DeletePC
  PROVE  ChatBegins(p) \/ DeleteBegins(p)
<1>1. CASE Advance(p)
  BY <1>1
     DEF Advance, LoadHistory, AddUser, AddReply, AddError, AddMessage, Touch,
         FindAgent, StoreAgent, CallAgent, AgentAnswers, Count, List, Generate, SummaryQuery,
         SummaryDelete, SummaryPut, Refresh, Assign, DeleteQuery, DeleteBatch, DeletePop,
         At, ChatPC, DeletePC
<1>2. CASE ~ Advance(p)
  BY <1>2 DEF Moves, AgentFails, CountFails, SummaryFails, TableFails, At, ChatPC, DeletePC
<1>3. QED
  BY <1>1, <1>2

\* As long as no read has lagged behind.
DeleteNow == lags = MaxLags => DeleteInv

\* Every step keeps it that ends with no chat during a deletion.
LEMMA DeleteStep == TypeOK /\ Apart /\ DeleteNow /\ [Next]_vars /\ Apart' => DeleteNow'
<1> SUFFICES ASSUME TypeOK, Apart, DeleteInv, [Next]_vars, Apart', lags' = lags
             PROVE  DeleteInv'
  BY LagsFall DEF DeleteNow
<1>1. CASE UNCHANGED vars
  BY <1>1 DEF vars, DeleteInv, Deletes
<1>2. CASE Restart
  <2>1. /\ UNCHANGED <<conv, table, gone>> /\ cache' = 0
        /\ \A p \in Procs : proc'[p].pc = "idle"
    BY <1>2 DEF Restart, Idle, Enter
  <2>2. QED
    BY <2>1 DEF DeleteInv, Deletes, ChatPC, DeletePC
<1>3. ASSUME NEW p \in Procs, Moves(p), \A q \in Procs \ {p} : proc'[q] = proc[q]
      PROVE  DeleteInv'
  <2>1. CASE proc[p].pc \in ChatPC
    BY <1>3, <2>1, DeleteChats
  <2>2. CASE proc[p].pc \in DeletePC
    BY <1>3, <2>2, DeleteMoves
  <2>3. CASE proc[p].pc \notin ChatPC \union DeletePC
    BY <1>3, <2>3, IdleStarts, DeleteStarts
  <2>4. QED
    BY <2>1, <2>2, <2>3
<1>4. CASE CatchUp
  BY <1>4 DEF CatchUp, DeleteInv, Deletes
<1>5. QED
  BY <1>1, <1>2, <1>3, <1>4, OneMoves

LEMMA DeleteInit == Init => DeleteNow
BY DEF Init, DeleteNow, DeleteInv, Deletes, Idle, Enter, ChatPC, DeletePC

\* A deletion that was answered has left nothing, however many pages it took, and
\* no conversation is without a title, as long as no message is being answered
\* while one is in progress and no read has lagged behind.
THEOREM ChatDeletions == Spec /\ []Apart => [](DeletedIsGone /\ ListWorks)
<1>1. DeleteNow => DeletedIsGone /\ ListWorks
  BY DEF DeleteNow, DeleteInv, DeletedIsGone, ListWorks
<1>2. QED
  BY <1>1, ChatInit, ChatStep, DeleteInit, DeleteStep, PTL DEF Spec

\* So it is when the requests come one at a time, whatever fails and however
\* often the server is restarted.
THEOREM ChatDeletionsAlone ==
  ASSUME \A p, q \in Procs : p = q
  PROVE  Spec => [](DeletedIsGone /\ ListWorks)
<1>1. Apart
  BY DEF Apart, ChatPC, DeletePC
<1>2. DeleteNow => DeletedIsGone /\ ListWorks
  BY DEF DeleteNow, DeleteInv, DeletedIsGone, ListWorks
<1>3. TypeOK /\ DeleteNow /\ [Next]_vars => (TypeOK /\ DeleteNow)'
  <2>1. Apart'
    BY DEF Apart, ChatPC, DeletePC
  <2>2. QED
    BY <1>1, <2>1, ChatStep, DeleteStep
<1>4. QED
  BY <1>2, <1>3, ChatInit, DeleteInit, PTL DEF Spec

-----------------------------------------------------------------------------
(* What is remembered, when nothing overlaps.                              *)

\* No two requests are in progress at once.
Solo == \A p, q \in Procs : proc[p].pc # "idle" /\ proc[q].pc # "idle" => p = q

\* Said and Unanswered, of any table.
SaidIn(t) == {i \in ToSet(t) : i.role \in {"user", "assistant"}}
UnansweredIn(t) == {i \in SaidIn(t) : i.role = "user" /\ \A j \in ToSet(t) :
                                        j.turn = i.turn => j.role \notin {"assistant", "error"}}

\* Who remembers s knows all that was said and reached an agent.
Knows(s, t) == SaidIn(t) \subseteq Told(s) \union UnansweredIn(t)

\* The messages are few enough to need no summary, or the newest one covers the
\* others.
Few(t) == Len(MessagesOf(t)) <= Keep
Summed(t) == \E s \in Summaries : /\ Newest(SummariesOf(t), 1) = <<s>>
                                  /\ s.covers = ToSummarize(MessagesOf(t))

\* The items of two sequences, one after the other.
LEMMA ToSetConcat ==
  ASSUME NEW S, NEW s \in Seq(S), NEW u \in Seq(S)
  PROVE  ToSet(s \o u) = ToSet(s) \union ToSet(u)
<1> DEFINE k == Len(s)
           m == Len(u)
           v == s \o u
<1>1. /\ v \in Seq(S) /\ Len(v) = k + m /\ k \in Nat /\ m \in Nat
      /\ \A i \in 1..k : v[i] = s[i]
      /\ \A i \in 1..m : v[k + i] = u[i]
  BY ConcatProperties
<1>2. /\ ToSet(s) = {s[i] : i \in 1..k} /\ ToSet(u) = {u[i] : i \in 1..m}
      /\ ToSet(v) = {v[i] : i \in 1..(k + m)}
  BY <1>1, ToSetIs
<1> HIDE DEF k, m, v
<1>3. ToSet(v) \subseteq ToSet(s) \union ToSet(u)
  <2>1. SUFFICES ASSUME NEW i \in 1..(k + m)
                 PROVE  v[i] \in ToSet(s) \union ToSet(u)
    BY <1>2
  <2>2. CASE i <= k
    <3>1. i \in 1..k /\ v[i] = s[i]
      BY <1>1, <2>2
    <3>2. s[i] \in ToSet(s)
      BY <1>2, <3>1, Zenon
    <3>3. QED
      BY <3>1, <3>2, Zenon
  <2>3. CASE i > k
    <3>1. i - k \in 1..m /\ k + (i - k) = i
      BY <1>1, <2>3
    <3>2. v[k + (i - k)] = u[i - k]
      BY <1>1, <3>1
    <3>3. QED
      BY <1>2, <3>1, <3>2
  <2>4. QED
    BY <1>1, <2>2, <2>3
<1>4. ToSet(s) \union ToSet(u) \subseteq ToSet(v)
  <2>1. \A i \in 1..k : s[i] \in ToSet(v)
    BY <1>1, <1>2
  <2>2. \A i \in 1..m : u[i] \in ToSet(v)
    <3>1. SUFFICES ASSUME NEW i \in 1..m
                   PROVE  u[i] \in ToSet(v)
      OBVIOUS
    <3>2. k + i \in 1..(k + m) /\ v[k + i] = u[i]
      BY <1>1
    <3>3. QED
      BY <1>2, <3>2
  <2>3. QED
    BY <1>2, <2>1, <2>2
<1>5. QED
  BY <1>3, <1>4 DEF v

\* A message tells itself.
LEMMA ToldAppend ==
  ASSUME NEW s \in Seq(Items), NEW m \in Messages
  PROVE  Told(Append(s, m)) = Told(s) \union {m}
<1>1. ToSet(Append(s, m)) = ToSet(s) \union {m}
  BY ToSetAppend DEF Items
<1>2. IsMessage(m) /\ ~ IsSummary(m)
  BY DEF Messages, IsMessage, IsSummary
<1>3. QED
  BY <1>1, <1>2 DEF Told

\* A context tells its messages and what its summary covers.
LEMMA ToldContext ==
  ASSUME NEW t \in Seq(Items)
  PROVE  Told(Context(t)) = ToSet(Newest(MessagesOf(t), Keep))
           \union UNION {i.covers : i \in ToSet(Newest(SummariesOf(t), 1))}
<1> DEFINE a == Newest(SummariesOf(t), 1)
           b == Newest(MessagesOf(t), Keep)
<1>1. a \in Seq(Summaries) /\ b \in Seq(Messages)
  BY SplitType, NewestIs, KeepType
<1>2. ToSet(a) \subseteq Summaries /\ ToSet(b) \subseteq Messages
  BY <1>1, ToSetIs
<1>3. a \in Seq(Items) /\ b \in Seq(Items)
  BY SplitType, NewestIs, KeepType
<1>4. Context(t) = a \o b
  BY DEF Context
<1> HIDE DEF a, b
<1>5. ToSet(Context(t)) = ToSet(a) \union ToSet(b)
  BY <1>3, <1>4, ToSetConcat
<1>6. /\ \A i \in ToSet(a) : IsSummary(i) /\ ~ IsMessage(i)
      /\ \A i \in ToSet(b) : IsMessage(i) /\ ~ IsSummary(i)
  BY <1>2 DEF Messages, Summaries, IsMessage, IsSummary
<1>7. /\ {i \in ToSet(Context(t)) : IsMessage(i)} = ToSet(b)
      /\ {i \in ToSet(Context(t)) : IsSummary(i)} = ToSet(a)
  BY <1>5, <1>6
<1>8. QED
  BY <1>7 DEF Told, a, b

\* What was said depends on the messages alone, and is among them.
LEMMA SaidIs ==
  ASSUME NEW t \in Seq(Items)
  PROVE  /\ SaidIn(t) = {i \in ToSet(MessagesOf(t)) : i.role \in {"user", "assistant"}}
         /\ UnansweredIn(t) = {i \in SaidIn(t) :
              i.role = "user" /\ \A j \in ToSet(MessagesOf(t)) :
                j.turn = i.turn => j.role \notin {"assistant", "error"}}
<1>1. ToSet(MessagesOf(t)) = ToSet(t) \ Summaries
  BY WithoutItems DEF MessagesOf
<1>2. \A i \in Summaries : i.role \notin {"user", "assistant", "error"}
  BY DEF Summaries
<1>3. QED
  BY <1>1, <1>2 DEF SaidIn, UnansweredIn

\* A message is said, unless it is an error; it leaves unanswered what was, but
\* for what it answers.
LEMMA SaidAppend ==
  ASSUME NEW t \in Seq(Items), NEW m \in Messages
  PROVE  /\ SaidIn(Append(t, m)) \subseteq SaidIn(t) \union {m}
         /\ m.role = "error" => SaidIn(Append(t, m)) = SaidIn(t)
         /\ UnansweredIn(t) \ {[turn |-> m.turn, role |-> "user"]}
              \subseteq UnansweredIn(Append(t, m))
         /\ m.role = "user" => UnansweredIn(t) \subseteq UnansweredIn(Append(t, m))
         /\ m.role = "user" /\ (\A i \in ToSet(t) : i.turn < m.turn)
              => m \in UnansweredIn(Append(t, m))
<1>1. ToSet(Append(t, m)) = ToSet(t) \union {m} /\ m.turn \in Nat
  BY ToSetAppend DEF Items, Messages, Turns
<1>2. /\ SaidIn(Append(t, m)) \subseteq SaidIn(t) \union {m}
      /\ SaidIn(t) \subseteq SaidIn(Append(t, m))
      /\ m.role = "error" => SaidIn(Append(t, m)) = SaidIn(t)
  BY <1>1 DEF SaidIn
<1>3. ASSUME NEW i \in UnansweredIn(t), i # [turn |-> m.turn, role |-> "user"]
      PROVE  i \in UnansweredIn(Append(t, m))
  <2>1. i \in Items /\ i.role = "user" /\ i \in SaidIn(t) /\ i \in SaidIn(Append(t, m))
    BY <1>2, ToSetIs DEF UnansweredIn, SaidIn
  <2>2. i \in Messages
    BY <2>1 DEF Items, Summaries
  <2>3. i = [turn |-> i.turn, role |-> "user"]
    BY <2>1, <2>2 DEF Messages
  <2>4. i.turn # m.turn
    BY <1>3, <2>3
  <2>5. QED
    BY <1>1, <2>1, <2>4 DEF UnansweredIn
<1>4. ASSUME m.role = "user"
      PROVE  UnansweredIn(t) \subseteq UnansweredIn(Append(t, m))
  BY <1>1, <1>2, <1>4 DEF UnansweredIn
<1>5. ASSUME m.role = "user", \A i \in ToSet(t) : i.turn < m.turn
      PROVE  m \in UnansweredIn(Append(t, m))
  <2>1. \A i \in ToSet(t) : i.turn # m.turn
    <3>1. SUFFICES ASSUME NEW i \in ToSet(t)
                   PROVE  i.turn # m.turn
      OBVIOUS
    <3>2. i \in Items
      BY ToSetIs
    <3>3. i.turn \in Nat /\ i.turn < m.turn
      BY <1>5, <3>2 DEF Items, Messages, Summaries, Turns
    <3>4. QED
      BY <1>1, <3>3
  <2>2. m \in SaidIn(Append(t, m))
    BY <1>1, <1>5 DEF SaidIn
  <2>3. QED
    BY <1>1, <1>5, <2>1, <2>2 DEF UnansweredIn
<1>6. QED
  BY <1>2, <1>3, <1>4, <1>5

\* All messages are either to be summarised or among the newest.
LEMMA OldOrNew ==
  ASSUME NEW S, NEW s \in Seq(S)
  PROVE  ToSet(s) \subseteq ToSummarize(s) \union ToSet(Newest(s, Keep))
<1>1. Len(s) \in Nat /\ Keep \in Nat /\ Keep > 0 /\ ToSet(s) = {s[i] : i \in 1..Len(s)}
  BY KeepType, ToSetIs
<1>2. CASE Len(s) <= Keep
  BY <1>1, <1>2, NewestIs
<1>3. CASE Len(s) > Keep
  <2> DEFINE k == Len(s) - Keep
             a == SubSeq(s, 1, k)
             b == SubSeq(s, k + 1, Len(s))
  <2>1. k \in 1..Len(s) /\ \A i \in 1..Len(s) : s[i] \in S
    BY <1>1, <1>3
  <2>2. a \in Seq(S) /\ Len(a) = k /\ \A i \in 1..k : a[i] = s[i]
    BY <1>1, <2>1, SubSeqProperties
  <2>3. b \in Seq(S) /\ Len(b) = Keep /\ \A i \in 1..Keep : b[i] = s[k + i]
    BY <1>1, <1>3, <2>1, SubSeqProperties
  <2>4. ToSummarize(s) = ToSet(a) /\ Newest(s, Keep) = b
    BY <1>1, <1>3, NewestIs DEF ToSummarize
  <2>5. ASSUME NEW i \in 1..Len(s)
        PROVE  s[i] \in ToSet(a) \union ToSet(b)
    <3>1. CASE i <= k
      <4>1. a[i] = s[i] /\ i \in 1..Len(a)
        BY <2>1, <2>2, <3>1
      <4> HIDE DEF a
      <4>2. QED
        BY <2>2, <4>1, ToSetIs
    <3>2. CASE i > k
      <4>1. i - k \in 1..Keep /\ k + (i - k) = i
        BY <1>1, <1>3, <3>2
      <4>2. b[i - k] = s[i] /\ i - k \in 1..Len(b)
        <5> HIDE DEF b, k
        <5> QED
          BY <2>3, <4>1
      <4> HIDE DEF b, k
      <4>3. QED
        BY <2>3, <4>2, ToSetIs
    <3>3. QED
      BY <2>1, <3>1, <3>2
  <2>6. QED
    BY <1>1, <2>4, <2>5
<1>4. QED
  BY <1>1, <1>2, <1>3

\* There is something to summarise when the messages are not few.
LEMMA MuchToSummarize ==
  ASSUME NEW t \in Seq(Items)
  PROVE  ToSummarize(MessagesOf(t)) = {} <=> Few(t)
<1> DEFINE s == MessagesOf(t)
           k == Len(s) - Keep
           u == SubSeq(s, 1, k)
<1>1. s \in Seq(Messages) /\ Len(s) \in Nat /\ Keep \in Nat
  BY SplitType, KeepType
<1>2. (Few(t) <=> k <= 0) /\ k \in Int /\ k <= Len(s)
  BY <1>1 DEF Few
<1>3. ToSummarize(MessagesOf(t)) = ToSet(u)
  BY DEF ToSummarize
<1> HIDE DEF s, k
<1>4. k <= 0 => u = <<>>
  BY <1>1, <1>2, SubSeqEmpty
<1>5. k > 0 => u \in Seq(Messages) /\ Len(u) = k
  <2>1. k > 0 => \A i \in 1..k : s[i] \in Messages
    BY <1>1, <1>2
  <2>2. QED
    BY <1>1, <1>2, <2>1, SubSeqProperties
<1> HIDE DEF u
<1>6. ToSet(u) = {} <=> u = <<>>
  <2>1. u \in Seq(Messages)
    <3>1. <<>> \in Seq(Messages)
      BY EmptySeq
    <3>2. k <= 0 \/ k > 0
      BY <1>2
    <3>3. QED
      BY <1>4, <1>5, <3>1, <3>2
  <2>2. ToSet(<<>>) = {}
    BY DEF ToSet
  <2>3. QED
    BY <2>1, <2>2, ToSetIs
<1>7. k > 0 => u # <<>>
  BY <1>2, <1>5, EmptySeq
<1>8. QED
  BY <1>2, <1>3, <1>4, <1>6, <1>7

\* A context misses nothing when the messages are few or summed up.
LEMMA ContextTellsAll ==
  ASSUME NEW t \in Seq(Items), Few(t) \/ Summed(t)
  PROVE  SaidIn(t) \subseteq Told(Context(t))
<1> DEFINE s == MessagesOf(t)
<1>1. s \in Seq(Messages) /\ SaidIn(t) \subseteq ToSet(s)
  BY SplitType, SaidIs
<1>2. ToSet(s) \subseteq ToSummarize(s) \union ToSet(Newest(s, Keep))
  BY <1>1, OldOrNew
<1>3. ToSummarize(s) \subseteq UNION {i.covers : i \in ToSet(Newest(SummariesOf(t), 1))}
  <2>1. CASE Few(t)
    BY <2>1, MuchToSummarize
  <2>2. CASE Summed(t)
    <3>1. PICK u \in Summaries : /\ Newest(SummariesOf(t), 1) = <<u>>
                                 /\ u.covers = ToSummarize(s)
      BY <2>2 DEF Summed
    <3>2. ToSet(<<u>>) = {u}
      BY DEF ToSet
    <3>3. QED
      BY <3>1, <3>2
  <2>3. QED
    BY <2>1, <2>2
<1>4. QED
  BY <1>1, <1>2, <1>3, ToldContext

\* The newest n items, by number.
LEMMA NewestSet ==
  ASSUME NEW S, NEW s \in Seq(S), NEW n \in Nat
  PROVE  ToSet(Newest(s, n)) = {s[i] : i \in {j \in 1..Len(s) : j > Len(s) - n}}
<1> DEFINE k == Len(s) - n
           b == SubSeq(s, k + 1, Len(s))
<1>1. Len(s) \in Nat /\ \A i \in 1..Len(s) : s[i] \in S
  OBVIOUS
<1>2. CASE Len(s) <= n
  <2>1. Newest(s, n) = s
    BY <1>2, NewestIs
  <2>2. {j \in 1..Len(s) : j > Len(s) - n} = 1..Len(s)
    BY <1>1, <1>2
  <2>3. QED
    BY <2>1, <2>2, ToSetIs
<1>3. CASE Len(s) > n
  <2>1. k \in 1..Len(s) /\ Newest(s, n) = b
    <3>1. k \in 1..Len(s)
      BY <1>1, <1>3
    <3>2. QED
      BY <1>3, <3>1, NewestIs
  <2>2. b \in Seq(S) /\ Len(b) = n /\ \A i \in 1..n : b[i] = s[k + i]
    BY <1>1, <1>3, <2>1, SubSeqProperties
  <2>3. k = Len(s) - n
    OBVIOUS
  <2> HIDE DEF b, k
  <2>4. ToSet(b) = {b[i] : i \in 1..n}
    BY <2>2, ToSetIs
  <2>5. ASSUME NEW i \in 1..n
        PROVE  b[i] \in {s[j] : j \in {h \in 1..Len(s) : h > k}}
    <3>1. b[i] = s[k + i] /\ k + i \in {h \in 1..Len(s) : h > k}
      BY <1>1, <2>1, <2>2, <2>3
    <3>2. QED
      BY <3>1
  <2>6. ASSUME NEW i \in 1..Len(s), i > k
        PROVE  s[i] \in ToSet(b)
    <3>1. i - k \in 1..n /\ k + (i - k) = i
      BY <1>1, <2>1, <2>3, <2>6
    <3>2. b[i - k] = s[i]
      BY <2>2, <3>1
    <3>3. QED
      BY <2>4, <3>1, <3>2
  <2>7. ToSet(b) = {s[j] : j \in {h \in 1..Len(s) : h > k}}
    BY <2>4, <2>5, <2>6
  <2>8. QED
    BY <2>1, <2>3, <2>7
<1>4. QED
  BY <1>1, <1>2, <1>3

\* One more item pushes out one at most.
LEMMA NewestAppend ==
  ASSUME NEW S, NEW s \in Seq(S), NEW e \in S, NEW n \in Nat, n > 0
  PROVE  /\ e \in ToSet(Newest(Append(s, e), n))
         /\ \E x : ToSet(Newest(s, n)) \subseteq ToSet(Newest(Append(s, e), n)) \union {x}
<1> DEFINE u == Append(s, e)
           k == Len(s)
<1>1. /\ u \in Seq(S) /\ Len(u) = k + 1 /\ k \in Nat /\ u[k + 1] = e
      /\ \A i \in 1..k : u[i] = s[i]
  BY AppendProperties
<1> HIDE DEF u, k
<1>2. ToSet(Newest(u, n)) = {u[i] : i \in {j \in 1..(k + 1) : j > k + 1 - n}}
  <2>1. ToSet(Newest(u, n)) = {u[i] : i \in {j \in 1..Len(u) : j > Len(u) - n}}
    BY <1>1, NewestSet
  <2>2. QED
    BY <1>1, <2>1
<1>3. ToSet(Newest(s, n)) = {s[i] : i \in {j \in 1..k : j > k - n}}
  BY NewestSet DEF k
<1>4. e \in ToSet(Newest(u, n))
  BY <1>1, <1>2
<1>5. ToSet(Newest(s, n)) \subseteq ToSet(Newest(u, n)) \union {s[k - n + 1]}
  <2>1. SUFFICES ASSUME NEW i \in 1..k, i > k - n, i # k - n + 1
                 PROVE  s[i] \in ToSet(Newest(u, n))
    BY <1>3
  <2>2. i \in 1..(k + 1) /\ i > k + 1 - n /\ u[i] = s[i]
    BY <1>1, <2>1
  <2>3. QED
    BY <1>2, <2>2
<1>6. QED
  BY <1>4, <1>5 DEF u

\* A context that missed nothing misses one message at most when one is added.
LEMMA ContextGrows ==
  ASSUME NEW t \in Seq(Items), NEW m \in Messages, SaidIn(t) \subseteq Told(Context(t))
  PROVE  \E x : SaidIn(Append(t, m)) \subseteq Told(Context(Append(t, m))) \union {x}
<1> DEFINE s == MessagesOf(t)
           u == Append(t, m)
<1>1. s \in Seq(Messages) /\ u \in Seq(Items) /\ Keep \in Nat /\ Keep > 0
  BY SplitType, KeepType, AppendProperties DEF Items
<1>2. MessagesOf(u) = Append(s, m) /\ SummariesOf(u) = SummariesOf(t)
  BY MessageAdded
<1>3. PICK x : ToSet(Newest(s, Keep)) \subseteq ToSet(Newest(Append(s, m), Keep)) \union {x}
  BY <1>1, NewestAppend
<1>4. m \in ToSet(Newest(Append(s, m), Keep))
  BY <1>1, NewestAppend
<1>5. SaidIn(u) \subseteq SaidIn(t) \union {m}
  BY SaidAppend
<1>6. Told(Context(t)) = ToSet(Newest(s, Keep))
        \union UNION {i.covers : i \in ToSet(Newest(SummariesOf(t), 1))}
  BY ToldContext
<1> HIDE DEF s, u
<1>7. Told(Context(u)) = ToSet(Newest(Append(s, m), Keep))
        \union UNION {i.covers : i \in ToSet(Newest(SummariesOf(t), 1))}
  BY <1>1, <1>2, ToldContext
<1>8. SaidIn(u) \subseteq Told(Context(u)) \union {x}
  BY <1>3, <1>4, <1>5, <1>6, <1>7
<1>9. QED
  BY <1>8 DEF u

\* The last of one is the newest.
LEMMA NewestLast ==
  ASSUME NEW S, NEW s \in Seq(S), NEW e \in S
  PROVE  Newest(Append(s, e), 1) = <<e>>
<1> DEFINE u == Append(s, e)
           m == Len(u)
           b == Newest(u, 1)
<1>1. u \in Seq(S) /\ m \in Nat /\ m > 0 /\ u[m] = e
  BY AppendProperties
<1> HIDE DEF u, m
<1>2. b \in Seq(S) /\ Len(b) = 1 /\ b[1] = e
  <2>1. CASE m <= 1
    <3>1. b = u
      BY <1>1, <2>1, NewestIs DEF m
    <3>2. m = 1
      BY <1>1, <2>1
    <3>3. QED
      BY <1>1, <3>1, <3>2 DEF m
  <2>2. CASE m > 1
    <3>1. b = SubSeq(u, m - 1 + 1, m)
      BY <1>1, <2>2, NewestIs DEF m
    <3>2. m - 1 + 1 = m /\ m \in 1..m /\ \A i \in m..m : u[i] \in S
      BY <1>1, <2>2 DEF m
    <3>3. b = SubSeq(u, m, m)
      BY <3>1, <3>2
    <3>4. SubSeq(u, m, m) \in Seq(S) /\ Len(SubSeq(u, m, m)) = 1 /\ SubSeq(u, m, m)[1] = u[m]
      BY <1>1, <3>2, SubSeqProperties DEF m
    <3>5. QED
      BY <1>1, <3>3, <3>4
  <2>3. QED
    BY <1>1, <2>1, <2>2
<1> HIDE DEF b
<1>3. b = <<e>>
  BY <1>2
<1>4. QED
  BY <1>3 DEF b, u

\* What a chat asks and is answered.
Own(l) == [turn |-> l.turn, role |-> "user"]
Answer(l) == [turn |-> l.turn, role |-> "assistant"]

\* Once the agent has answered.
Answered == {"count", "list", "refresh", "assign", "reply"} \union Summarising

\* Once the question is stored, and while there is no answer of it.
Asked == {"touch_user", "agent", "store", "call", "run", "error"} \union Answered

\* A chat that has begun is the first of its turn, its question is stored, and
\* what it loaded is all.
Begun(l, t) ==
  /\ l.pc \in {"history", "user"} => \A i \in ToSet(t) : i.turn < l.turn
  /\ l.pc \in Asked => Own(l) \in ToSet(t)
  /\ l.pc \in {"user", "touch_user", "agent"} /\ Few(t) => Knows(l.context, t)

\* A chat finds its agent free, and the agent hears of it.
Served(l, t, c, ag) ==
  /\ l.pc = "store" => ~ ag[l.turn].busy /\ (Few(t) => Knows(ag[l.turn].messages, t))
  /\ l.pc = "call" => c # 0
  /\ l.pc = "run" => l.agent = c
  /\ l.pc \in Answered \union {"run"} => c # 0 /\ Own(l) \in Told(ag[c].messages)
  /\ l.pc = "error" /\ c # 0 => Own(l) \in Told(ag[c].messages)
  /\ l.pc \in Answered /\ Few(t) => Answer(l) \in Told(ag[c].messages)

\* A chat that summarises has all but the recent messages in hand.
Covering(l, t) ==
  /\ l.pc \in Summarising => ~ Few(t) /\ l.covers = ToSummarize(MessagesOf(t))
  /\ l.pc = "sum_delete" => l.batch \subseteq Summaries
  /\ l.pc \in {"refresh", "assign"} => ~ Few(t) /\ Summed(t)
  /\ l.pc = "assign" => l.context = Context(t)

\* Before its answer is stored a chat that did its summarising leaves nothing
\* out, and afterwards one message at most.
Healed(l, t, c, ag) ==
  /\ l.summed => l.pc \in {"reply", "touch_reply"}
  /\ l.pc = "reply" /\ l.summed =>
       /\ SaidIn(t) \subseteq Told(Context(t))
       /\ SaidIn(t) \subseteq Told(ag[c].messages) \union (UnansweredIn(t) \ {Own(l)})
  /\ l.pc = "touch_reply" /\ l.summed =>
       /\ \E x : SaidIn(t) \subseteq Told(Context(t)) \union {x}
       /\ c # 0 => \E x : SaidIn(t) \subseteq
                            Told(ag[c].messages) \union UnansweredIn(t) \union {x}

Heals(l, t, c, ag) ==
  Begun(l, t) /\ Served(l, t, c, ag) /\ Covering(l, t) /\ Healed(l, t, c, ag)

\* As long as they are few, the agent knows all messages that reached one.
Remembers(t, c, ag, n) ==
  /\ \A i \in ToSet(t) : i.turn <= n
  /\ c # 0 /\ Few(t) => Knows(ag[c].messages, t)

HealInv == conv = "full" =>
  /\ Remembers(table, cache, agents, chats)
  /\ cache # 0 /\ agents[cache].busy => \E p \in Procs : proc[p].pc = "run"
  /\ \A p \in Procs : proc[p].pc \in ChatPC =>
       proc[p].turn <= chats /\ Heals(proc[p], table, cache, agents)

\* A chat, alone, in a conversation that was not deleted and fits in a page, and
\* whose reads are current.
Chats(p) == /\ TypeOK /\ Solo /\ HealInv /\ Short /\ lags' = lags
            /\ conv = "full" /\ conv' = "full" /\ chats' = chats
            /\ proc[p].pc \in ChatPC
            /\ \A q \in Procs \ {p} : proc'[q] = proc[q]

\* What is known of it.
LEMMA ChatHas ==
  ASSUME NEW p \in Procs, Chats(p)
  PROVE  /\ table \in Seq(Items) /\ cache \in {0} \union Turns /\ 0 \notin Turns
         /\ agents \in [Turns -> [busy : BOOLEAN, messages : Seq(Items)]]
         /\ proc \in [Procs -> Locals] /\ proc[p] \in Frames /\ proc[p].turn \in Turns
         /\ Own(proc[p]) \in Messages /\ Answer(proc[p]) \in Messages
         /\ proc[p].turn <= chats /\ Heals(proc[p], table, cache, agents)
         /\ Remembers(table, cache, agents, chats)
         /\ cache # 0 /\ agents[cache].busy => proc[p].pc = "run"
         /\ \A t : ReadTable(t) => FirstPage(t) = table
<1>1. TypeOK /\ Solo /\ HealInv /\ conv = "full" /\ proc[p].pc \in ChatPC
  BY DEF Chats
<1>2. cache \in {0} \union Turns /\ 0 \notin Turns
  BY <1>1, ChatsAssumption DEF TypeOK, Turns
<1>3. proc[p] \in Frames /\ proc[p].turn \in Turns
  BY <1>1, ProcType
<1>4. Own(proc[p]) \in Messages /\ Answer(proc[p]) \in Messages
  BY <1>3 DEF Own, Answer, Messages
<1>5. \A q \in Procs : proc[q].pc = "run" => q = p
  BY <1>1 DEF Solo, ChatPC
<1>6. \A t : ReadTable(t) => FirstPage(t) = table
  <2>1. Short /\ lags' = lags /\ lags \in Nat
    BY <1>1, ChatsAssumption DEF Chats, TypeOK
  <2>2. FirstPage(table) = table
    BY <1>1, <2>1, ReadsAll DEF Copies
  <2>3. QED
    BY <2>1, <2>2 DEF ReadTable
<1>7. QED
  BY <1>1, <1>2, <1>3, <1>4, <1>5, <1>6 DEF HealInv, TypeOK

\* What is to be shown of it.
LEMMA HealKept ==
  ASSUME NEW p \in Procs, Chats(p),
         Remembers(table', cache', agents', chats),
         cache' # 0 /\ agents'[cache'].busy => proc'[p].pc = "run",
         proc'[p].pc \in ChatPC =>
           proc'[p].turn = proc[p].turn /\ Heals(proc'[p], table', cache', agents')
  PROVE  HealInv'
<1>1. \A q \in Procs \ {p} : proc'[q].pc \notin ChatPC
  BY DEF Chats, Solo, ChatPC
<1>2. proc[p].turn <= chats
  BY ChatHas
<1>3. \A q \in Procs : proc'[q].pc \in ChatPC =>
        proc'[q].turn <= chats /\ Heals(proc'[q], table', cache', agents')
  BY <1>1, <1>2
<1>4. chats' = chats
  BY DEF Chats
<1>5. QED
  BY <1>3, <1>4 DEF HealInv

\* What a request holds when it goes on.
LEMMA GotoIs ==
  ASSUME NEW p \in Procs, proc \in [Procs -> Locals], NEW pc, Goto(p, pc)
  PROVE  /\ proc'[p].pc = pc
         /\ proc'[p].turn = proc[p].turn /\ proc'[p].agent = proc[p].agent
         /\ proc'[p].context = proc[p].context /\ proc'[p].batch = proc[p].batch
         /\ proc'[p].covers = proc[p].covers /\ proc'[p].summed = proc[p].summed
         /\ Own(proc'[p]) = Own(proc[p]) /\ Answer(proc'[p]) = Answer(proc[p])
<1>1. proc[p] \in Frames
  BY DEF Locals
<1>2. QED
  BY <1>1 DEF Goto, Frames, Own, Answer

\* What is known of the messages when one more is stored: a new question is not
\* answered yet, and an answer is known to who heard the question and gave it.
LEMMA KnowsAppend ==
  ASSUME NEW t \in Seq(Items), NEW m \in Messages
  PROVE  /\ Few(Append(t, m)) => Few(t)
         /\ \A s : /\ Knows(s, t) /\ m.role = "user"
                   /\ \A i \in ToSet(t) : i.turn < m.turn
                   => Knows(s, Append(t, m))
         /\ \A s : /\ Knows(s, t) /\ Own(m) \in Told(s)
                   /\ m.role = "error" \/ m \in Told(s)
                   => Knows(s, Append(t, m))
<1>1. Few(Append(t, m)) => Few(t)
  <2>1. MessagesOf(Append(t, m)) = Append(MessagesOf(t), m)
    BY MessageAdded
  <2>2. Len(Append(MessagesOf(t), m)) = Len(MessagesOf(t)) + 1 /\ Len(MessagesOf(t)) \in Nat
    BY SplitType, AppendProperties
  <2>3. QED
    BY <2>1, <2>2, KeepType DEF Few
<1>2. QED
  BY <1>1, SaidAppend DEF Knows, Own

\* What was said and what is few does not depend on the summaries.
LEMMA SameMessages ==
  ASSUME NEW t \in Seq(Items), NEW u \in Seq(Items), MessagesOf(t) = MessagesOf(u)
  PROVE  /\ Few(t) <=> Few(u)
         /\ SaidIn(t) = SaidIn(u) /\ UnansweredIn(t) = UnansweredIn(u)
         /\ \A s : Knows(s, t) <=> Knows(s, u)
BY SaidIs DEF Few, Knows

\* The history is loaded and the question stored.
LEMMA HealLoads ==
  ASSUME NEW p \in Procs, Chats(p), LoadHistory(p) \/ AddUser(p)
  PROVE  HealInv'
<1>1. CASE LoadHistory(p)
  <2>1. proc' = [proc EXCEPT ![p].pc = "user", ![p].context = Context(table)]
    BY <1>1, ChatHas DEF LoadHistory
  <2>2. /\ proc'[p].pc = "user" /\ proc'[p].context = Context(table)
        /\ proc'[p].turn = proc[p].turn /\ proc'[p].summed = proc[p].summed
        /\ proc[p].pc = "history" /\ UNCHANGED <<table, cache, agents>>
    BY <1>1, <2>1, ChatHas DEF LoadHistory, At, Frames
  <2>3. Few(table) => Knows(Context(table), table)
    BY ChatHas, ContextTellsAll DEF Knows
  <2>4. Heals(proc'[p], table, cache, agents)
    BY <2>2, <2>3, ChatHas
       DEF Heals, Begun, Served, Covering, Healed, Asked, Answered, Summarising
  <2>5. QED
    BY <2>2, <2>4, ChatHas, HealKept
<1>2. CASE AddUser(p)
  <2> DEFINE m == Own(proc[p])
  <2>1. /\ proc[p].pc = "user" /\ table' = Append(table, m)
        /\ Goto(p, "touch_user") /\ UNCHANGED <<cache, agents>>
    BY <1>2 DEF AddUser, AddMessage, At, Own
  <2>2. /\ proc'[p].pc = "touch_user" /\ proc'[p].context = proc[p].context
        /\ Own(proc'[p]) = m
        /\ proc'[p].turn = proc[p].turn /\ proc'[p].summed = proc[p].summed
    BY <2>1, ChatHas, GotoIs
  <2>3. /\ m \in Messages /\ m.role = "user" /\ m.turn = proc[p].turn
        /\ \A i \in ToSet(table) : i.turn < m.turn
    BY <2>1, ChatHas DEF Own, Heals, Begun
  <2> HIDE DEF m
  <2>4. /\ Few(table') => Few(table)
        /\ \A s : Knows(s, table) => Knows(s, table')
    BY <2>1, <2>3, ChatHas, KnowsAppend
  <2>5. m \in ToSet(table') /\ \A i \in ToSet(table') : i.turn <= chats
    <3>1. ToSet(table') = ToSet(table) \union {m}
      BY <2>1, <2>3, ChatHas, ToSetAppend DEF Items
    <3>2. QED
      BY <2>3, <3>1, ChatHas DEF Remembers
  <2>6. Remembers(table', cache', agents', chats)
    BY <2>1, <2>4, <2>5, ChatHas DEF Remembers
  <2>7. Heals(proc'[p], table', cache', agents')
    BY <2>1, <2>2, <2>4, <2>5, ChatHas
       DEF Heals, Begun, Served, Covering, Healed, Asked, Answered, Summarising
  <2>8. QED
    BY <2>1, <2>2, <2>6, <2>7, ChatHas, HealKept
<1>3. QED
  BY <1>1, <1>2

\* The conversation is touched, and a chat ends well or not.
LEMMA HealEnds ==
  ASSUME NEW p \in Procs, Chats(p), Touch(p) \/ TableFails(p)
  PROVE  HealInv'
<1>1. UNCHANGED <<table, cache, agents>> /\ proc[p].pc # "run"
  BY DEF Touch, TableFails
<1>2. proc'[p].pc = "idle" \/ (proc[p].pc = "touch_user" /\ Goto(p, "agent"))
  BY ChatHas DEF Touch, TableFails, Return, Idle, Enter, At
<1>3. CASE proc'[p].pc = "idle"
  BY <1>1, <1>3, ChatHas, HealKept DEF ChatPC
<1>4. CASE proc[p].pc = "touch_user" /\ Goto(p, "agent")
  <2>1. /\ proc'[p].pc = "agent" /\ proc'[p].context = proc[p].context
        /\ Own(proc'[p]) = Own(proc[p])
        /\ proc'[p].turn = proc[p].turn /\ proc'[p].summed = proc[p].summed
    BY <1>4, ChatHas, GotoIs
  <2>2. Heals(proc'[p], table, cache, agents)
    BY <1>4, <2>1, ChatHas
       DEF Heals, Begun, Served, Covering, Healed, Asked, Answered, Summarising
  <2>3. QED
    BY <1>1, <2>1, <2>2, ChatHas, HealKept
<1>5. QED
  BY <1>2, <1>3, <1>4

\* An agent is found, or made and kept.
LEMMA HealFinds ==
  ASSUME NEW p \in Procs, Chats(p), FindAgent(p) \/ StoreAgent(p)
  PROVE  HealInv'
<1> DEFINE n == proc[p].turn
<1>1. CASE FindAgent(p) /\ cache # 0
  <2>1. proc[p].pc = "agent" /\ Goto(p, "call") /\ UNCHANGED <<table, cache, agents>>
    BY <1>1 DEF FindAgent, At
  <2>2. /\ proc'[p].pc = "call" /\ proc'[p].turn = proc[p].turn
        /\ proc'[p].summed = proc[p].summed /\ Own(proc'[p]) = Own(proc[p])
    BY <2>1, ChatHas, GotoIs
  <2>3. Heals(proc'[p], table, cache, agents)
    BY <1>1, <2>1, <2>2, ChatHas
       DEF Heals, Begun, Served, Covering, Healed, Asked, Answered, Summarising
  <2>4. QED
    BY <2>1, <2>2, <2>3, ChatHas, HealKept
<1>2. CASE FindAgent(p) /\ cache = 0
  <2>1. /\ proc[p].pc = "agent" /\ Goto(p, "store") /\ UNCHANGED <<table, cache>>
        /\ agents' = [agents EXCEPT ![n] = NewAgent(proc[p].context)]
    BY <1>2 DEF FindAgent, At
  <2>2. /\ proc'[p].pc = "store" /\ proc'[p].turn = n
        /\ proc'[p].summed = proc[p].summed /\ Own(proc'[p]) = Own(proc[p])
    BY <2>1, ChatHas, GotoIs
  <2>3. ~ agents'[n].busy /\ agents'[n].messages = proc[p].context
    BY <2>1, ChatHas DEF NewAgent
  <2>4. Heals(proc'[p], table, cache, agents')
    BY <2>1, <2>2, <2>3, ChatHas
       DEF Heals, Begun, Served, Covering, Healed, Asked, Answered, Summarising
  <2>5. Remembers(table, cache, agents', chats)
    BY <1>2, ChatHas DEF Remembers
  <2>6. QED
    BY <1>2, <2>1, <2>2, <2>4, <2>5, HealKept
<1>3. CASE StoreAgent(p)
  <2>1. /\ proc[p].pc = "store" /\ Goto(p, "call") /\ UNCHANGED <<table, agents>>
        /\ cache' = n
    BY <1>3 DEF StoreAgent, At
  <2>2. /\ proc'[p].pc = "call" /\ proc'[p].turn = n
        /\ proc'[p].summed = proc[p].summed /\ Own(proc'[p]) = Own(proc[p])
    BY <2>1, ChatHas, GotoIs
  <2>3. n # 0
    BY ChatHas
  <2>4. ~ agents[n].busy /\ (Few(table) => Knows(agents[n].messages, table))
    BY <2>1, ChatHas DEF Heals, Served
  <2>5. Heals(proc'[p], table, n, agents)
    BY <2>1, <2>2, <2>3, ChatHas
       DEF Heals, Begun, Served, Covering, Healed, Asked, Answered, Summarising
  <2>6. Remembers(table, n, agents, chats)
    BY <2>4, ChatHas DEF Remembers
  <2>7. QED
    BY <2>1, <2>2, <2>4, <2>5, <2>6, HealKept
<1>4. QED
  BY <1>1, <1>2, <1>3

\* The agent is asked, and answers or fails.
LEMMA HealCalls ==
  ASSUME NEW p \in Procs, Chats(p), CallAgent(p) \/ AgentAnswers(p) \/ AgentFails(p)
  PROVE  HealInv'
<1>1. CASE CallAgent(p)
  <2> DEFINE m == Own(proc[p])
             s == Append(agents[cache].messages, m)
  <2>1. proc[p].pc = "call" /\ cache # 0 /\ ~ agents[cache].busy
    BY <1>1, ChatHas DEF CallAgent, At, Heals, Served
  <2>2. /\ proc' = [proc EXCEPT ![p].pc = "run", ![p].agent = cache]
        /\ agents' = [agents EXCEPT ![cache].busy = TRUE, ![cache].messages = s]
        /\ UNCHANGED <<table, cache>>
    BY <1>1, <2>1 DEF CallAgent, Own
  <2>3. /\ proc'[p].pc = "run" /\ proc'[p].agent = cache
        /\ Own(proc'[p]) = m /\ m = Own(proc[p])
        /\ proc'[p].turn = proc[p].turn /\ proc'[p].summed = proc[p].summed
    BY <2>2, ChatHas DEF Frames, Own
  <2>4. agents'[cache].messages = s /\ agents[cache].messages \in Seq(Items)
    BY <2>1, <2>2, ChatHas
  <2>5. m \in Told(s) /\ Told(agents[cache].messages) \subseteq Told(s)
    BY <2>4, ChatHas, ToldAppend
  <2> HIDE DEF m, s
  <2>6. Heals(proc'[p], table, cache, agents')
    BY <2>1, <2>3, <2>4, <2>5, ChatHas
       DEF Heals, Begun, Served, Covering, Healed, Asked, Answered, Summarising
  <2>7. Remembers(table, cache, agents', chats)
    BY <2>4, <2>5, ChatHas DEF Remembers, Knows
  <2>8. QED
    BY <2>2, <2>3, <2>6, <2>7, HealKept
<1>2. CASE AgentAnswers(p)
  <2> DEFINE m == Answer(proc[p])
             s == Append(agents[cache].messages, m)
  <2>1. /\ proc[p].pc = "run" /\ cache # 0 /\ proc[p].agent = cache
        /\ Own(proc[p]) \in Told(agents[cache].messages)
    BY <1>2, ChatHas DEF AgentAnswers, At, Heals, Served
  <2>2. /\ Goto(p, "count") /\ UNCHANGED <<table, cache>>
        /\ agents' = [agents EXCEPT ![cache].busy = FALSE, ![cache].messages = s]
    BY <1>2, <2>1 DEF AgentAnswers, Answer
  <2>3. /\ proc'[p].pc = "count" /\ Own(proc'[p]) = Own(proc[p]) /\ Answer(proc'[p]) = m
        /\ proc'[p].turn = proc[p].turn /\ proc'[p].summed = proc[p].summed
    BY <2>2, ChatHas, GotoIs
  <2>4. /\ agents'[cache].messages = s /\ ~ agents'[cache].busy
        /\ agents[cache].messages \in Seq(Items)
    BY <2>1, <2>2, ChatHas
  <2>5. m \in Told(s) /\ Told(agents[cache].messages) \subseteq Told(s)
    BY <2>4, ChatHas, ToldAppend
  <2> HIDE DEF m, s
  <2>6. Heals(proc'[p], table, cache, agents')
    BY <2>1, <2>3, <2>4, <2>5, ChatHas
       DEF Heals, Begun, Served, Covering, Healed, Asked, Answered, Summarising
  <2>7. Remembers(table, cache, agents', chats)
    BY <2>4, <2>5, ChatHas DEF Remembers, Knows
  <2>8. QED
    BY <2>2, <2>3, <2>4, <2>6, <2>7, HealKept
<1>3. CASE AgentFails(p) /\ At(p, "agent")
  <2>1. /\ proc[p].pc = "agent" /\ cache = 0 /\ Goto(p, "error")
        /\ UNCHANGED <<table, cache, agents>>
    BY <1>3 DEF AgentFails, At
  <2>2. /\ proc'[p].pc = "error" /\ Own(proc'[p]) = Own(proc[p])
        /\ proc'[p].turn = proc[p].turn /\ proc'[p].summed = proc[p].summed
    BY <2>1, ChatHas, GotoIs
  <2>3. Heals(proc'[p], table, cache, agents)
    BY <2>1, <2>2, ChatHas
       DEF Heals, Begun, Served, Covering, Healed, Asked, Answered, Summarising
  <2>4. QED
    BY <2>1, <2>2, <2>3, ChatHas, HealKept
<1>4. CASE AgentFails(p) /\ ~ At(p, "agent")
  <2>1. /\ proc[p].pc = "run" /\ cache # 0 /\ proc[p].agent = cache
        /\ Own(proc[p]) \in Told(agents[cache].messages)
    BY <1>4, ChatHas DEF AgentFails, At, Heals, Served
  <2>2. /\ Goto(p, "error") /\ UNCHANGED <<table, cache>>
        /\ agents' = [agents EXCEPT ![cache].busy = FALSE]
    BY <1>4, <2>1 DEF AgentFails
  <2>3. /\ proc'[p].pc = "error" /\ Own(proc'[p]) = Own(proc[p])
        /\ proc'[p].turn = proc[p].turn /\ proc'[p].summed = proc[p].summed
    BY <2>2, ChatHas, GotoIs
  <2>4. agents'[cache].messages = agents[cache].messages /\ ~ agents'[cache].busy
    BY <2>1, <2>2, ChatHas
  <2>5. Heals(proc'[p], table, cache, agents')
    BY <2>1, <2>3, <2>4, ChatHas
       DEF Heals, Begun, Served, Covering, Healed, Asked, Answered, Summarising
  <2>6. Remembers(table, cache, agents', chats)
    BY <2>4, ChatHas DEF Remembers
  <2>7. QED
    BY <2>2, <2>3, <2>4, <2>5, <2>6, HealKept
<1>5. QED
  BY <1>1, <1>2, <1>3, <1>4

\* The two limits: where no summary is asked for the recent messages are all.
ThresholdFits == Threshold <= Keep + 1

\* A chat finds that there is nothing to summarise.
LEMMA HealSpares ==
  ASSUME NEW p \in Procs, Chats(p), Few(table), proc[p].pc \in {"count", "list"},
         proc' = [proc EXCEPT ![p].pc = "reply", ![p].summed = TRUE],
         UNCHANGED <<table, cache, agents>>
  PROVE  HealInv'
<1>1. /\ proc'[p].pc = "reply" /\ proc'[p].turn = proc[p].turn
      /\ Own(proc'[p]) = Own(proc[p]) /\ Answer(proc'[p]) = Answer(proc[p])
  BY ChatHas DEF Frames, Own, Answer
<1>2. /\ cache # 0 /\ Own(proc[p]) \in Told(agents[cache].messages)
      /\ Answer(proc[p]) \in Told(agents[cache].messages) /\ Own(proc[p]) \in ToSet(table)
  BY ChatHas DEF Heals, Begun, Served, Asked, Answered
<1>3. SaidIn(table) \subseteq Told(Context(table))
  BY ChatHas, ContextTellsAll
<1>4. Knows(agents[cache].messages, table)
  BY <1>2, ChatHas DEF Remembers
<1>5. Heals(proc'[p], table, cache, agents)
  BY <1>1, <1>2, <1>3, <1>4
     DEF Heals, Begun, Served, Covering, Healed, Asked, Answered, Summarising, Knows
<1>6. QED
  BY <1>1, <1>5, ChatHas, HealKept

\* The messages are counted and listed, and a summary is made of them or not.
LEMMA HealLists ==
  ASSUME ThresholdFits, NEW p \in Procs, Chats(p),
         \/ Count(p) \/ CountFails(p) \/ List(p) \/ Generate(p) \/ SummaryFails(p)
         \/ SummaryQuery(p)
  PROVE  HealInv'
<1>1. UNCHANGED <<table, cache, agents>> /\ proc[p].pc # "run"
  BY DEF Count, CountFails, List, Generate, SummaryFails, SummaryQuery, At
<1>2. ASSUME proc'[p].pc # "run", proc'[p].turn = proc[p].turn,
             Heals(proc'[p], table, cache, agents)
      PROVE  HealInv'
  BY <1>1, <1>2, ChatHas, HealKept
<1>3. CASE Goto(p, "list") /\ Count(p)
  <2>1. /\ proc'[p].pc = "list" /\ proc'[p].turn = proc[p].turn
        /\ Own(proc'[p]) = Own(proc[p]) /\ Answer(proc'[p]) = Answer(proc[p])
        /\ proc'[p].summed = proc[p].summed
    BY <1>3, ChatHas, GotoIs
  <2>2. Heals(proc'[p], table, cache, agents)
    BY <1>3, <2>1, ChatHas
       DEF Count, At, Heals, Begun, Served, Covering, Healed, Asked, Answered, Summarising
  <2>3. QED
    BY <1>2, <2>1, <2>2
<1>4. CASE Count(p) /\ ~ Goto(p, "list")
  <2>1. /\ Len(MessagesOf(table)) \in Nat /\ Len(MessagesOf(table)) < Threshold
        /\ proc' = [proc EXCEPT ![p].pc = "reply", ![p].summed = TRUE]
    BY <1>4, ChatHas, SplitType DEF Count
  <2>2. Few(table)
    BY <2>1, KeepType, ThresholdsAssumption DEF Few, ThresholdFits
  <2>3. QED
    BY <1>4, <2>1, <2>2, HealSpares DEF Count, At
<1>5. CASE CountFails(p)
  <2>1. /\ proc'[p].pc = "error" /\ proc'[p].turn = proc[p].turn
        /\ Own(proc'[p]) = Own(proc[p]) /\ proc'[p].summed = proc[p].summed
    BY <1>5, ChatHas, GotoIs DEF CountFails
  <2>2. Heals(proc'[p], table, cache, agents)
    BY <1>5, <2>1, ChatHas
       DEF CountFails, Heals, Begun, Served, Covering, Healed, Asked, Answered, Summarising
  <2>3. QED
    BY <1>2, <2>1, <2>2
<1>6. CASE List(p)
  <2> DEFINE covers == ToSummarize(MessagesOf(table))
  <2>1. covers = {} <=> Few(table)
    BY ChatHas, MuchToSummarize
  <2> DEFINE after(c) == IF c = {} THEN [proc EXCEPT ![p].pc = "reply", ![p].summed = TRUE]
                         ELSE [proc EXCEPT ![p].pc = "generate", ![p].covers = c]
  <2>2. proc' = after(covers)
    <3>1. PICK t \in {table, lagTable} :
            ReadTable(t) /\ proc' = after(ToSummarize(MessagesOf(FirstPage(t))))
      BY <1>6 DEF List
    <3> HIDE DEF after
    <3>2. FirstPage(t) = table
      BY <3>1, ChatHas
    <3>3. QED
      BY <3>1, <3>2
  <2>3. CASE covers = {}
    <3>1. proc' = [proc EXCEPT ![p].pc = "reply", ![p].summed = TRUE]
      BY <2>3, <2>2
    <3>2. QED
      BY <1>6, <2>1, <2>3, <3>1, HealSpares DEF List, At
  <2>4. CASE covers # {}
    <3>1. proc' = [proc EXCEPT ![p].pc = "generate", ![p].covers = covers]
      BY <2>4, <2>2
    <3> HIDE DEF covers
    <3>2. /\ proc'[p].pc = "generate" /\ proc'[p].covers = covers
          /\ proc'[p].turn = proc[p].turn /\ proc'[p].summed = proc[p].summed
          /\ Own(proc'[p]) = Own(proc[p]) /\ Answer(proc'[p]) = Answer(proc[p])
      BY <3>1, ChatHas DEF Frames, Own, Answer
    <3>3. Heals(proc'[p], table, cache, agents)
      BY <1>6, <2>1, <2>4, <3>2, ChatHas
         DEF covers, List, At, Heals, Begun, Served, Covering, Healed, Asked, Answered, Summarising
    <3>4. QED
      BY <1>2, <3>2, <3>3
  <2>5. QED
    BY <2>3, <2>4
<1>7. CASE Generate(p)
  <2>1. /\ proc[p].pc = "generate" /\ proc'[p].pc = "sum_query"
        /\ proc'[p].turn = proc[p].turn /\ proc'[p].summed = proc[p].summed
        /\ proc'[p].covers = proc[p].covers
        /\ Own(proc'[p]) = Own(proc[p]) /\ Answer(proc'[p]) = Answer(proc[p])
    BY <1>7, ChatHas, GotoIs DEF Generate, At
  <2>2. Heals(proc'[p], table, cache, agents)
    BY <2>1, ChatHas
       DEF Heals, Begun, Served, Covering, Healed, Asked, Answered, Summarising
  <2>3. QED
    BY <1>2, <2>1, <2>2
<1>8. CASE SummaryQuery(p)
  <2>1. proc' = [proc EXCEPT ![p].pc = "sum_delete",
                            ![p].batch = ToSet(SummariesOf(table))]
    BY <1>8, ChatHas DEF SummaryQuery
  <2>2. /\ proc[p].pc = "sum_query" /\ proc'[p].pc = "sum_delete"
        /\ proc'[p].turn = proc[p].turn /\ proc'[p].summed = proc[p].summed
        /\ proc'[p].covers = proc[p].covers
        /\ proc'[p].batch = ToSet(SummariesOf(table))
        /\ Own(proc'[p]) = Own(proc[p]) /\ Answer(proc'[p]) = Answer(proc[p])
    BY <1>8, <2>1, ChatHas DEF SummaryQuery, At, Frames, Own, Answer
  <2>3. ToSet(SummariesOf(table)) \subseteq Summaries
    BY ChatHas, SplitType, ToSetIs
  <2>4. Heals(proc'[p], table, cache, agents)
    BY <2>2, <2>3, ChatHas
       DEF Heals, Begun, Served, Covering, Healed, Asked, Answered, Summarising
  <2>5. QED
    BY <1>2, <2>2, <2>4
<1>9. CASE SummaryFails(p)
  <2>1. /\ proc[p].pc \in Summarising \union {"refresh"} /\ proc'[p].pc = "reply"
        /\ proc'[p].turn = proc[p].turn /\ proc'[p].summed = proc[p].summed
        /\ Own(proc'[p]) = Own(proc[p]) /\ Answer(proc'[p]) = Answer(proc[p])
    BY <1>9, ChatHas DEF SummaryFails, Summarising, Frames, Own, Answer
  <2>2. Heals(proc'[p], table, cache, agents)
    BY <2>1, ChatHas
       DEF Heals, Begun, Served, Covering, Healed, Asked, Answered, Summarising
  <2>3. QED
    BY <1>2, <2>1, <2>2
<1>10. QED
  BY <1>3, <1>4, <1>5, <1>6, <1>7, <1>8, <1>9

\* The summary is replaced and the agent reminded of it.
LEMMA HealSums ==
  ASSUME NEW p \in Procs, Chats(p), SummaryDelete(p) \/ SummaryPut(p) \/ Refresh(p) \/ Assign(p)
  PROVE  HealInv'
<1>1. CASE SummaryDelete(p)
  <2>1. /\ proc[p].pc = "sum_delete" /\ table' = Without(table, proc[p].batch)
        /\ proc[p].batch \subseteq Summaries /\ UNCHANGED <<cache, agents>>
    BY <1>1, ChatHas DEF SummaryDelete, At, Heals, Covering
  <2>2. /\ proc'[p].pc = "sum_put" /\ proc'[p].covers = proc[p].covers
        /\ proc'[p].turn = proc[p].turn /\ proc'[p].summed = proc[p].summed
        /\ Own(proc'[p]) = Own(proc[p]) /\ Answer(proc'[p]) = Answer(proc[p])
    BY <1>1, ChatHas DEF SummaryDelete, Frames, Own, Answer
  <2>3. MessagesOf(table') = MessagesOf(table) /\ table' \in Seq(Items)
    BY <2>1, ChatHas, SummariesDeleted, WithoutType
  <2>4. /\ Few(table') <=> Few(table)
        /\ \A s : Knows(s, table') <=> Knows(s, table)
    BY <2>3, ChatHas, SameMessages
  <2>5. /\ ToSet(table') \subseteq ToSet(table)
        /\ Own(proc[p]) \in ToSet(table) => Own(proc[p]) \in ToSet(table')
    <3>1. ToSet(table') = ToSet(table) \ proc[p].batch
      BY <2>1, ChatHas, WithoutItems
    <3>2. Own(proc[p]) \notin Summaries
      BY ChatHas, ItemsSplit
    <3>3. QED
      BY <2>1, <3>1, <3>2
  <2>6. Remembers(table', cache', agents', chats)
    BY <2>1, <2>4, <2>5, ChatHas DEF Remembers
  <2>7. Heals(proc'[p], table', cache', agents')
    BY <2>1, <2>2, <2>3, <2>4, <2>5, ChatHas
       DEF Heals, Begun, Served, Covering, Healed, Asked, Answered, Summarising
  <2>8. QED
    BY <2>1, <2>2, <2>6, <2>7, ChatHas, HealKept
<1>2. CASE SummaryPut(p)
  <2> DEFINE u == [turn |-> proc[p].turn, role |-> "summary", covers |-> proc[p].covers]
  <2>1. /\ proc[p].pc = "sum_put" /\ table' = Append(table, u) /\ Goto(p, "refresh")
        /\ UNCHANGED <<cache, agents>>
    BY <1>2 DEF SummaryPut, At
  <2>2. u \in Summaries /\ u.covers = proc[p].covers /\ u.turn = proc[p].turn
    BY ChatHas DEF Summaries, Frames
  <2> HIDE DEF u
  <2>3. /\ proc'[p].pc = "refresh"
        /\ proc'[p].turn = proc[p].turn /\ proc'[p].summed = proc[p].summed
        /\ Own(proc'[p]) = Own(proc[p]) /\ Answer(proc'[p]) = Answer(proc[p])
    BY <2>1, ChatHas, GotoIs
  <2>4. /\ MessagesOf(table') = MessagesOf(table) /\ table' \in Seq(Items)
        /\ SummariesOf(table') = Append(SummariesOf(table), u)
        /\ ToSet(table') = ToSet(table) \union {u}
    <3>1. u \in Items /\ table \in Seq(Items)
      BY <2>2, ChatHas DEF Items
    <3>2. table' \in Seq(Items) /\ ToSet(table') = ToSet(table) \union {u}
      BY <2>1, <3>1, AppendProperties, ToSetAppend
    <3>3. QED
      BY <2>1, <2>2, <3>1, <3>2, SummaryAdded
  <2>5. Newest(SummariesOf(table'), 1) = <<u>>
    BY <2>2, <2>4, ChatHas, SplitType, NewestLast
  <2>6. /\ Few(table') <=> Few(table)
        /\ \A s : Knows(s, table') <=> Knows(s, table)
    BY <2>4, ChatHas, SameMessages
  <2>7. ~ Few(table) /\ proc[p].covers = ToSummarize(MessagesOf(table))
    BY <2>1, ChatHas DEF Heals, Covering, Summarising
  <2>8. Summed(table')
    BY <2>2, <2>4, <2>5, <2>7 DEF Summed
  <2>9. Remembers(table', cache', agents', chats)
    BY <2>1, <2>2, <2>4, <2>6, ChatHas DEF Remembers
  <2>10. Heals(proc'[p], table', cache', agents')
    BY <2>1, <2>3, <2>4, <2>6, <2>7, <2>8, ChatHas
       DEF Heals, Begun, Served, Covering, Healed, Asked, Answered, Summarising
  <2>11. QED
    BY <2>1, <2>3, <2>9, <2>10, ChatHas, HealKept
<1>3. CASE Refresh(p)
  <2>1. /\ proc[p].pc = "refresh" /\ cache # 0
        /\ UNCHANGED <<table, cache, agents>>
    BY <1>3, ChatHas DEF Refresh, At, Heals, Served, Answered
  <2>2. proc' = [proc EXCEPT ![p].pc = "assign", ![p].context = Context(table)]
    BY <1>3, <2>1, ChatHas DEF Refresh
  <2>3. /\ proc'[p].pc = "assign" /\ proc'[p].context = Context(table)
        /\ proc'[p].turn = proc[p].turn /\ proc'[p].summed = proc[p].summed
        /\ Own(proc'[p]) = Own(proc[p]) /\ Answer(proc'[p]) = Answer(proc[p])
    BY <2>2, ChatHas DEF Frames, Own, Answer
  <2>4. Heals(proc'[p], table, cache, agents)
    BY <2>1, <2>3, ChatHas
       DEF Heals, Begun, Served, Covering, Healed, Asked, Answered, Summarising
  <2>5. QED
    BY <2>1, <2>3, <2>4, ChatHas, HealKept
<1>4. CASE Assign(p)
  <2>1. proc[p].pc = "assign" /\ UNCHANGED <<table, cache>>
    BY <1>4 DEF Assign, At
  <2>2. cache # 0 /\ ~ Few(table) /\ Summed(table) /\ proc[p].context = Context(table)
    BY <2>1, ChatHas DEF Heals, Served, Covering, Answered
  <2>3. /\ agents' = [agents EXCEPT ![cache].messages = Context(table)]
        /\ proc' = [proc EXCEPT ![p].pc = "reply", ![p].summed = TRUE]
    BY <1>4, <2>2 DEF Assign
  <2>4. /\ proc'[p].pc = "reply" /\ proc'[p].turn = proc[p].turn
        /\ Own(proc'[p]) = Own(proc[p]) /\ Answer(proc'[p]) = Answer(proc[p])
    BY <2>3, ChatHas DEF Frames, Own, Answer
  <2>5. /\ agents'[cache].messages = Context(table)
        /\ agents'[cache].busy = agents[cache].busy
    BY <2>2, <2>3, ChatHas
  <2>6. SaidIn(table) \subseteq Told(Context(table))
    BY <2>2, ChatHas, ContextTellsAll
  <2>7. Own(proc[p]) \in ToSet(table) /\ Own(proc[p]) \in Told(Context(table))
    <3>1. Own(proc[p]) \in ToSet(table)
      BY <2>1, ChatHas DEF Heals, Begun, Asked, Answered
    <3>2. Own(proc[p]) \in SaidIn(table)
      BY <3>1 DEF SaidIn, Own
    <3>3. QED
      BY <2>6, <3>1, <3>2
  <2>8. Heals(proc'[p], table, cache, agents')
    BY <2>2, <2>4, <2>5, <2>6, <2>7
       DEF Heals, Begun, Served, Covering, Healed, Asked, Answered, Summarising
  <2>9. Remembers(table, cache, agents', chats)
    BY <2>2, ChatHas DEF Remembers
  <2>10. ~ agents'[cache].busy
    BY <2>1, <2>2, <2>5, ChatHas
  <2>11. QED
    BY <2>1, <2>4, <2>8, <2>9, <2>10, HealKept
<1>5. QED
  BY <1>1, <1>2, <1>3, <1>4

\* The answer, or the error, is stored.
LEMMA HealAnswers ==
  ASSUME NEW p \in Procs, Chats(p), AddReply(p) \/ AddError(p)
  PROVE  HealInv'
<1> DEFINE s == agents[cache].messages
<1>1. /\ proc[p].pc \in {"reply", "error"} /\ Goto(p, "touch_reply")
      /\ UNCHANGED <<cache, agents>>
  BY DEF AddReply, AddError, AddMessage, At
<1>2. PICK m \in Messages : /\ table' = Append(table, m)
                            /\ m = Answer(proc[p]) \/ m.role = "error"
                            /\ proc[p].pc = "reply" => m = Answer(proc[p])
                            /\ m.turn = proc[p].turn
  <2>1. CASE AddReply(p)
    BY <2>1, ChatHas DEF AddReply, AddMessage, Answer
  <2>2. CASE AddError(p)
    <3> DEFINE e == [turn |-> proc[p].turn, role |-> "error"]
    <3>1. e \in Messages /\ e.role = "error" /\ e.turn = proc[p].turn
      BY ChatHas DEF Messages
    <3>2. table' = Append(table, e) /\ proc[p].pc = "error"
      BY <2>2 DEF AddError, AddMessage, At
    <3> HIDE DEF e
    <3>3. QED
      BY <3>1, <3>2
  <2>3. QED
    BY <2>1, <2>2
<1>3. /\ proc'[p].pc = "touch_reply" /\ proc'[p].turn = proc[p].turn
      /\ proc'[p].summed = proc[p].summed
  BY <1>1, ChatHas, GotoIs
<1>4. /\ cache # 0 => Own(proc[p]) \in Told(s)
      /\ proc[p].pc = "reply" => cache # 0
      /\ Own(m) = Own(proc[p])
  BY <1>1, <1>2, ChatHas DEF Heals, Served, Answered, Own
<1>5. Remembers(table', cache', agents', chats)
  <2>1. ToSet(table') = ToSet(table) \union {m}
    BY <1>2, ChatHas, ToSetAppend DEF Items
  <2>2. \A i \in ToSet(table') : i.turn <= chats
    BY <1>2, <2>1, ChatHas DEF Remembers
  <2>3. ASSUME Few(table'), cache # 0
        PROVE  Knows(s, table')
    <3>1. Few(table) /\ Knows(s, table)
      BY <1>2, <1>4, <2>3, ChatHas, KnowsAppend DEF Remembers
    <3>2. m.role = "error" \/ m \in Told(s)
      <4>1. CASE proc[p].pc = "reply"
        BY <1>2, <3>1, <4>1, ChatHas DEF Heals, Served, Answered
      <4>2. CASE proc[p].pc = "error"
        BY <1>1, <1>2, <4>2 DEF AddReply, AddError, AddMessage, At
      <4>3. QED
        BY <1>1, <4>1, <4>2
    <3>3. QED
      BY <1>2, <1>4, <2>3, <3>1, <3>2, ChatHas, KnowsAppend
  <2>4. QED
    BY <1>1, <2>2, <2>3 DEF Remembers
<1>6. Healed(proc'[p], table', cache', agents')
  <2>1. CASE ~ proc[p].summed
    BY <1>3, <2>1, ChatHas DEF Frames, Healed
  <2>2. CASE proc[p].summed
    <3>1. /\ SaidIn(table) \subseteq Told(Context(table))
          /\ SaidIn(table) \subseteq Told(s) \union (UnansweredIn(table) \ {Own(m)})
      BY <1>1, <1>4, <2>2, ChatHas DEF Heals, Healed
    <3>2. \E x : SaidIn(table') \subseteq Told(Context(table')) \union {x}
      BY <1>2, <3>1, ChatHas, ContextGrows
    <3>3. /\ SaidIn(table') \subseteq SaidIn(table) \union {m}
          /\ UnansweredIn(table) \ {Own(m)} \subseteq UnansweredIn(table')
      BY <1>2, ChatHas, SaidAppend DEF Own
    <3>4. SaidIn(table') \subseteq Told(s) \union UnansweredIn(table') \union {m}
      BY <3>1, <3>3
    <3>5. QED
      BY <1>1, <1>3, <3>2, <3>4 DEF Healed
  <2>3. QED
    BY <2>1, <2>2
<1>7. Heals(proc'[p], table', cache', agents')
  BY <1>3, <1>6
     DEF Heals, Begun, Served, Covering, Asked, Answered, Summarising
<1>8. cache # 0 => ~ agents[cache].busy
  BY <1>1, ChatHas
<1>9. QED
  BY <1>1, <1>3, <1>5, <1>7, <1>8, HealKept

\* A chat's step keeps HealInv.
LEMMA HealMoves ==
  ASSUME ThresholdFits, NEW p \in Procs, Chats(p), Moves(p)
  PROVE  HealInv'
<1>1. proc[p] # Idle /\ proc[p].pc \notin DeletePC
  BY DEF Chats, ChatPC, DeletePC, Idle, Enter
<1>2. ~ (ChatBegins(p) \/ DeleteBegins(p) \/ DeleteQuery(p) \/ DeleteBatch(p) \/ DeletePop(p))
  BY <1>1 DEF ChatBegins, DeleteBegins, DeleteQuery, DeleteBatch, DeletePop, At, DeletePC
<1>3. QED
  BY <1>2, HealLoads, HealEnds, HealFinds, HealCalls, HealLists, HealSums, HealAnswers
     DEF Moves, Advance

\* A chat that begins keeps it.
LEMMA HealStarts ==
  ASSUME lags' = lags, TypeOK, HealInv, conv = "full", NEW p \in Procs, ChatBegins(p)
  PROVE  HealInv'
<1>1. /\ proc' = [proc EXCEPT ![p] = Enter("history", chats + 1)]
      /\ chats' = chats + 1 /\ UNCHANGED <<conv, table, cache, agents>>
      /\ proc[p] = Idle /\ proc \in [Procs -> Locals] /\ chats \in Nat
  BY ChatsAssumption DEF ChatBegins, ReadConv, TypeOK
<1>2. /\ proc'[p].pc = "history" /\ proc'[p].turn = chats + 1 /\ ~ proc'[p].summed
      /\ \A q \in Procs \ {p} : proc'[q] = proc[q]
      /\ proc[p].pc = "idle"
  BY <1>1 DEF Enter, Idle
<1>3. \A i \in ToSet(table) : i.turn \in Nat /\ i.turn <= chats
  <2>1. \A i \in ToSet(table) : i \in Items
    BY ToSetIs DEF TypeOK
  <2>2. QED
    BY <2>1 DEF HealInv, Remembers, Items, Messages, Summaries, Turns
<1>4. Heals(proc'[p], table, cache, agents)
  BY <1>1, <1>2, <1>3 DEF Heals, Begun, Served, Covering, Healed, Asked, Answered, Summarising
<1>5. Remembers(table, cache, agents, chats')
  BY <1>1, <1>3 DEF HealInv, Remembers
<1>6. \A q \in Procs : proc'[q].pc \in ChatPC =>
        proc'[q].turn <= chats' /\ Heals(proc'[q], table, cache, agents)
  <2>1. SUFFICES ASSUME NEW q \in Procs, q # p, proc[q].pc \in ChatPC
                 PROVE  proc[q].turn <= chats' /\ Heals(proc[q], table, cache, agents)
    BY <1>1, <1>2, <1>4
  <2>2. proc[q].turn \in Nat /\ proc[q].turn <= chats
    BY <2>1, ProcType DEF HealInv
  <2>3. QED
    BY <1>1, <2>1, <2>2 DEF HealInv
<1>7. cache # 0 /\ agents[cache].busy => \E q \in Procs : proc'[q].pc = "run"
  BY <1>2 DEF HealInv
<1>8. QED
  BY <1>1, <1>5, <1>6, <1>7 DEF HealInv

\* As long as no read has lagged behind.
HealNow == lags = MaxLags => HealInv

\* Every step keeps it, when no two requests overlap.
LEMMA HealStep ==
  ASSUME ThresholdFits
  PROVE  TypeOK /\ Solo /\ Short /\ DeleteNow /\ HealNow /\ [Next]_vars => HealNow'
<1> SUFFICES ASSUME TypeOK, Solo, Short, DeleteInv, HealInv, [Next]_vars, lags' = lags,
                    conv' = "full"
             PROVE  HealInv'
  BY LagsFall DEF DeleteNow, HealNow, HealInv
<1>1. CASE UNCHANGED vars
  BY <1>1 DEF vars, HealInv
<1>2. CASE Restart
  <2>1. /\ UNCHANGED <<conv, table, chats>> /\ cache' = 0
        /\ \A p \in Procs : proc'[p].pc = "idle"
    BY <1>2 DEF Restart, Idle, Enter
  <2>2. QED
    BY <2>1 DEF HealInv, Remembers, ChatPC
<1>3. ASSUME NEW p \in Procs, Moves(p), \A q \in Procs \ {p} : proc'[q] = proc[q]
      PROVE  HealInv'
  <2>1. CASE proc[p].pc \in ChatPC
    <3>1. conv = "full"
      BY <2>1 DEF DeleteInv, Deletes
    <3>2. proc[p] # Idle
      BY <2>1 DEF ChatPC, Idle, Enter
    <3>3. chats' = chats
      BY <1>3, <3>2
         DEF Moves, Advance, LoadHistory, AddUser, AddReply, AddError, AddMessage, Touch,
             FindAgent, StoreAgent, CallAgent, AgentAnswers, Count, List, Generate, SummaryQuery,
             SummaryDelete, SummaryPut, Refresh, Assign, DeleteQuery, DeleteBatch, DeletePop,
             ChatBegins, DeleteBegins, AgentFails, CountFails, SummaryFails, TableFails
    <3>4. QED
      BY <1>3, <2>1, <3>1, <3>3, HealMoves DEF Chats
  <2>2. CASE proc[p].pc \in DeletePC
    <3>1. conv = "none"
      BY <2>2 DEF DeleteInv, Deletes
    <3>2. conv' = "none"
      BY <1>3, <2>2, <3>1
         DEF Moves, Advance, LoadHistory, AddUser, AddReply, AddError, AddMessage, Touch,
             FindAgent, StoreAgent, CallAgent, AgentAnswers, Count, List, Generate, SummaryQuery,
             SummaryDelete, SummaryPut, Refresh, Assign, DeleteQuery, DeleteBatch, DeletePop,
             ChatBegins, DeleteBegins, AgentFails, CountFails, SummaryFails, TableFails, At, DeletePC
    <3>3. QED
      BY <3>2
  <2>3. CASE proc[p].pc \notin ChatPC \union DeletePC
    <3>1. ChatBegins(p) \/ DeleteBegins(p)
      BY <1>3, <2>3, IdleStarts
    <3>2. ChatBegins(p) /\ conv = "full"
      BY <3>1 DEF ChatBegins, DeleteBegins
    <3>3. QED
      BY <3>2, HealStarts
  <2>4. QED
    BY <2>1, <2>2, <2>3
<1>4. CASE CatchUp
  BY <1>4 DEF CatchUp, HealInv
<1>5. QED
  BY <1>1, <1>2, <1>3, <1>4, OneMoves

LEMMA HealInit == Init => HealNow
<1> SUFFICES ASSUME Init
             PROVE  HealInv
  BY DEF HealNow
<1>1. /\ table = <<>> /\ cache = 0 /\ \A p \in Procs : proc[p].pc = "idle"
  BY DEF Init, Idle, Enter
<1>2. ToSet(table) = {}
  BY <1>1 DEF ToSet
<1>3. QED
  BY <1>1, <1>2 DEF HealInv, Remembers, ChatPC

\* All but at most one is at most one.
LEMMA OneLeft ==
  ASSUME NEW S, NEW x, S \subseteq {x}
  PROVE  Cardinality(S) <= 1
<1>1. S = {} \/ S = {x}
  OBVIOUS
<1>2. Cardinality({}) = 0 /\ Cardinality({x}) = 1
  BY FS_EmptySet, FS_Singleton
<1>3. QED
  BY <1>1, <1>2

\* Of a conversation that fits in a page and whose requests do not overlap a chat
\* that did its summarising leaves at most one message that a restart, or the agent,
\* does not know: whatever failed or was killed before, and whenever the server
\* restarted, as long as no read has lagged behind.  It takes the two limits: a
\* summary is asked for before a message leaves the recent ones.
THEOREM ChatRemembers ==
  ASSUME ThresholdFits
  PROVE  Spec /\ []Solo /\ []Short => ChatHeals
<1>1. Solo => Apart
  BY DEF Solo, Apart, ChatPC, DeletePC
<1>2. TypeOK /\ DeleteInv /\ HealInv =>
        \A p \in Procs : At(p, "touch_reply") /\ proc[p].summed =>
          Cardinality(Gap) <= 1 /\ Cardinality(Forgotten \ Unanswered) <= 1
  <2> SUFFICES ASSUME TypeOK, DeleteInv, HealInv, NEW p \in Procs,
                      proc[p].pc = "touch_reply", proc[p].summed
               PROVE  Cardinality(Gap) <= 1 /\ Cardinality(Forgotten \ Unanswered) <= 1
    BY DEF At
  <2>1. Healed(proc[p], table, cache, agents)
    BY DEF DeleteInv, Deletes, HealInv, Heals, ChatPC
  <2>2. Said = SaidIn(table) /\ Unanswered = UnansweredIn(table)
    BY DEF Said, SaidIn, Unanswered, UnansweredIn
  <2>3. \E x : Gap \subseteq {x}
    BY <2>1, <2>2 DEF Healed, Gap
  <2>4. \E x : Forgotten \ Unanswered \subseteq {x}
    <3>1. CASE cache = 0
      BY <3>1 DEF Forgotten
    <3>2. CASE cache # 0
      BY <2>1, <2>2, <3>2 DEF Healed, Forgotten
    <3>3. QED
      BY <3>1, <3>2
  <2>5. QED
    BY <2>3, <2>4, OneLeft
<1>3. TypeOK /\ DeleteNow /\ HealNow /\ [Next]_vars =>
        [\A p \in Procs :
           /\ At(p, "touch_reply") /\ proc[p].summed /\ proc'[p] = Idle
           /\ restarts' = restarts /\ lags = MaxLags
           => Cardinality(Gap) <= 1 /\ Cardinality(Forgotten \ Unanswered) <= 1]_vars
  BY <1>2 DEF DeleteNow, HealNow
<1>4. QED
  BY <1>1, <1>3, ChatInit, ChatStep, DeleteInit, DeleteStep, HealInit, HealStep, PTL
     DEF Spec, ChatHeals
=============================================================================
