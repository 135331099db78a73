---------------------------- MODULE CodingAnswerProofs ----------------------------
(* Proofs about CodingAnswer, for every set of paths and every length of stream:  *)
(* what the two passes over the think tags and the search for files compute, for  *)
(* every text.  The induction each of them needs is over a set of numbers.        *)
EXTENDS CodingAnswer, FiniteSetTheorems, WellFoundedInduction, TLAPS

--------------------------------------------------------------------------------
(* Numbers and functions defined by recursion over them.                          *)

LEMMA LeastOf ==
    ASSUME NEW T \in SUBSET Nat, T # {}
    PROVE  \E n \in T : \A m \in T : n <= m
<1> DEFINE R == OpToRel(<, Nat)
<1>1. \A m, n \in Nat : m < n => <<m, n>> \in R
  BY DEF OpToRel
<1>2. IsWellFoundedOn(R, Nat)
  BY NatLessThanWellFounded
<1> HIDE DEF R
<1>3. PICK n \in T : \A m \in T : ~ (<<m, n>> \in R)
  BY <1>2, WFMin, Zenon
<1>4. \A m \in T : m \in Nat
  OBVIOUS
<1>5. ASSUME NEW m \in T PROVE ~ (m < n)
  <2>1. m \in Nat /\ n \in Nat
    BY <1>4
  <2> QED BY <1>1, <1>3, <2>1
<1> QED BY <1>4, <1>5

(* Min of the community modules is the least element.                             *)
LEMMA MinIsLeast ==
    ASSUME NEW T \in SUBSET Nat, T # {}
    PROVE  Min(T) \in T /\ \A m \in T : Min(T) <= m
BY LeastOf DEF Min

(* A set that holds 0 and with every number below n its successor reaches n.      *)
LEMMA Induction ==
    ASSUME NEW n \in Nat, NEW S, 0 \in S, \A k \in 0 .. n - 1 : k \in S => k + 1 \in S
    PROVE  0 .. n \subseteq S
<1> SUFFICES ASSUME NEW j \in 0 .. n, j \notin S
             PROVE  FALSE
  OBVIOUS
<1> DEFINE T == {i \in 0 .. n : i \notin S}
<1>1. PICK m \in T : \A i \in T : m <= i
  <2>1. T \in SUBSET Nat /\ j \in T
    OBVIOUS
  <2> HIDE DEF T
  <2> QED BY <2>1, LeastOf
<1>2. m \in 1 .. n
  OBVIOUS
<1>3. m - 1 \in 0 .. n - 1 /\ m - 1 \in S
  BY <1>1, <1>2
<1> QED BY <1>2, <1>3

(* A function whose value at i is determined by i and its value at i - 1 exists.  *)
Recurs(f, n, V, c, step) ==
    /\ f \in [0 .. n -> V]
    /\ \A i \in 0 .. n : f[i] = IF i = 0 THEN c ELSE step[<<i, f[i - 1]>>]

LEMMA Recursion ==
    ASSUME NEW n \in Nat, NEW V, NEW c \in V, NEW step \in [(1 .. n) \X V -> V]
    PROVE  \E f : Recurs(f, n, V, c, step)
<1> DEFINE Ok(k, f) ==
             /\ f \in [0 .. k -> V]
             /\ \A i \in 0 .. k : f[i] = IF i = 0 THEN c ELSE step[<<i, f[i - 1]>>]
           S == {k \in 0 .. n : \E f : Ok(k, f)}
<1>1. 0 \in S
  <2>1. Ok(0, [i \in 0 .. 0 |-> c])
    OBVIOUS
  <2> HIDE DEF Ok
  <2> QED BY <2>1
<1>2. ASSUME NEW k \in 0 .. n - 1, k \in S PROVE k + 1 \in S
  <2>1. PICK f : Ok(k, f)
    BY <1>2
  <2> DEFINE g == [i \in 0 .. k + 1 |-> IF i = k + 1 THEN step[<<k + 1, f[k]>>] ELSE f[i]]
  <2>2. step[<<k + 1, f[k]>>] \in V
    <3>1. f[k] \in V /\ k + 1 \in 1 .. n
      BY <2>1
    <3> QED BY <3>1
  <2>3. g \in [0 .. k + 1 -> V]
    BY <2>1, <2>2
  <2>4. ASSUME NEW i \in 0 .. k + 1
        PROVE  g[i] = IF i = 0 THEN c ELSE step[<<i, g[i - 1]>>]
    <3>1. CASE i = k + 1
      <4>1. i # 0 /\ i - 1 = k /\ k \in 0 .. k + 1 /\ k # k + 1
        BY <3>1
      <4>2. g[i] = step[<<k + 1, f[k]>>] /\ g[i - 1] = f[k]
        BY <3>1, <4>1
      <4> QED BY <3>1, <4>1, <4>2
    <3>2. CASE i # k + 1
      <4>1. i \in 0 .. k /\ (i # 0 => i - 1 \in 0 .. k)
        BY <3>2
      <4>2. g[i] = f[i] /\ (i # 0 => g[i - 1] = f[i - 1])
        BY <4>1
      <4> QED BY <2>1, <4>1, <4>2
    <3> QED BY <3>1, <3>2
  <2>5. Ok(k + 1, g)
    BY <2>3, <2>4
  <2> HIDE DEF Ok
  <2> QED BY <2>5
<1>3. n \in S
  <2> HIDE DEF S
  <2> QED BY <1>1, <1>2, Induction
<1> QED BY <1>3 DEF Recurs

(* A function whose value at i is determined by i and its value at a later place. *)
Jumps(f, n, V, stop, c, next, step) ==
    /\ f \in [1 .. n -> V]
    /\ \A i \in 1 .. n : f[i] = IF i \in stop THEN c ELSE step[<<i, f[next[i]]>>]

LEMMA JumpingRecursion ==
    ASSUME NEW n \in Nat, NEW V, NEW stop, NEW c \in V,
           NEW next, \A i \in (1 .. n) \ stop : next[i] \in i + 1 .. n,
           NEW step \in [(1 .. n) \X V -> V]
    PROVE  \E f : Jumps(f, n, V, stop, c, next, step)
<1> DEFINE Ok(k, f) ==
             /\ f \in [n - k + 1 .. n -> V]
             /\ \A i \in n - k + 1 .. n :
                  f[i] = IF i \in stop THEN c ELSE step[<<i, f[next[i]]>>]
           S == {k \in 0 .. n : \E f : Ok(k, f)}
<1>1. 0 \in S
  <2>1. Ok(0, [i \in n + 1 .. n |-> c])
    OBVIOUS
  <2> HIDE DEF Ok
  <2> QED BY <2>1
<1>2. ASSUME NEW k \in 0 .. n - 1, k \in S PROVE k + 1 \in S
  <2>1. PICK f : Ok(k, f)
    BY <1>2
  <2> DEFINE j == n - k
             v == IF j \in stop THEN c ELSE step[<<j, f[next[j]]>>]
             g == [i \in j .. n |-> IF i = j THEN v ELSE f[i]]
  <2>2. j \in 1 .. n /\ n - (k + 1) + 1 = j /\ n - k + 1 = j + 1 /\ k + 1 \in 0 .. n
    OBVIOUS
  <2>3. v \in V
    <3>1. CASE j \in stop
      BY <3>1
    <3>2. CASE j \notin stop
      <4>1. f[next[j]] \in V
        BY <2>1, <2>2, <3>2
      <4> QED BY <2>2, <3>2, <4>1
    <3> QED BY <3>1, <3>2
  <2> HIDE DEF j
  <2>4. g \in [j .. n -> V]
    <3>1. f \in [j + 1 .. n -> V]
      BY <2>1, <2>2
    <3> HIDE DEF v
    <3> QED BY <2>2, <2>3, <3>1
  <2>5. ASSUME NEW i \in j .. n
        PROVE  g[i] = IF i \in stop THEN c ELSE step[<<i, g[next[i]]>>]
    <3>1. i \in 1 .. n
      BY <2>2
    <3>2. CASE i \in stop
      <4>1. i # j => i \in n - k + 1 .. n
        BY <2>2
      <4>2. i # j => f[i] = c
        BY <2>1, <3>2, <4>1
      <4> QED BY <3>2, <4>2
    <3>3. CASE i \notin stop
      <4>1. next[i] \in j .. n /\ next[i] # j
        BY <2>2, <3>1, <3>3
      <4>2. g[next[i]] = f[next[i]]
        BY <4>1
      <4>3. i # j => f[i] = step[<<i, f[next[i]]>>]
        BY <2>1, <2>2, <3>3
      <4> QED BY <3>3, <4>2, <4>3
    <3> QED BY <3>2, <3>3
  <2>6. Ok(k + 1, g)
    BY <2>2, <2>4, <2>5
  <2> HIDE DEF Ok
  <2> QED BY <2>2, <2>6
<1>3. n \in S
  <2> HIDE DEF S
  <2> QED BY <1>1, <1>2, Induction
<1>4. PICK f : Ok(n, f)
  BY <1>3
<1>5. n - n + 1 = 1
  OBVIOUS
<1> QED BY <1>4, <1>5 DEF Jumps

--------------------------------------------------------------------------------
(* Thinking.                                                                      *)

Token == [tok : Tokens, at : Nat]
Openers(text) == Places(text, "<think>")
Closers(text) == Places(text, "</think>")

LEMMA TagsArePlaces ==
    ASSUME NEW text \in Seq(Token)
    PROVE  /\ Len(text) \in Nat
           /\ Openers(text) \subseteq 1 .. Len(text)
           /\ Closers(text) \subseteq 1 .. Len(text)
           /\ Openers(text) \cap Closers(text) = {}
<1> HIDE DEF Token
<1> QED BY DEF Openers, Closers, Places

(* The reader's state after every token of the text.                              *)
Thinking(text) ==
    CHOOSE f : f = [i \in 0 .. Len(text) |->
        i > 0 /\ CASE text[i].tok = "<think>"  -> TRUE
                   [] text[i].tok = "</think>" -> FALSE
                   [] OTHER                    -> f[i - 1]]

LEMMA ThinkingRecurs ==
    ASSUME NEW text \in Seq(Token)
    PROVE  /\ Thoughts(text) =
                {i \in 1 .. Len(text) : Thinking(text)[i] \/ Thinking(text)[i - 1]}
           /\ Thinking(text) \in [0 .. Len(text) -> BOOLEAN]
           /\ Thinking(text)[0] = FALSE
           /\ \A i \in 1 .. Len(text) :
                Thinking(text)[i] <=>
                   \/ i \in Openers(text)
                   \/ i \notin Closers(text) /\ Thinking(text)[i - 1]
<1> DEFINE n == Len(text)
           Is(f) == f = [i \in 0 .. n |->
                       i > 0 /\ CASE text[i].tok = "<think>"  -> TRUE
                                  [] text[i].tok = "</think>" -> FALSE
                                  [] OTHER                    -> f[i - 1]]
           step == [x \in (1 .. n) \X BOOLEAN |->
                       IF text[x[1]].tok = "<think>" THEN TRUE
                       ELSE IF text[x[1]].tok = "</think>" THEN FALSE ELSE x[2]]
<1>1. n \in Nat
  BY TagsArePlaces
<1>2. step \in [(1 .. n) \X BOOLEAN -> BOOLEAN]
  OBVIOUS
<1>3. PICK f \in [0 .. n -> BOOLEAN] :
        \A i \in 0 .. n : f[i] = IF i = 0 THEN FALSE ELSE step[<<i, f[i - 1]>>]
  <2> DEFINE V == BOOLEAN
             c == FALSE
  <2>1. c \in V /\ step \in [(1 .. n) \X V -> V]
    BY <1>2
  <2> HIDE DEF step, n, V, c
  <2>2. \E f : Recurs(f, n, V, c, step)
    BY <1>1, <2>1, Recursion
  <2> QED BY <2>2 DEF V, c, Recurs
<1>4. ASSUME NEW i \in 0 .. n
      PROVE  f[i] = (i > 0 /\ CASE text[i].tok = "<think>"  -> TRUE
                                [] text[i].tok = "</think>" -> FALSE
                                [] OTHER                    -> f[i - 1])
  <2>1. CASE i = 0
    BY <1>1, <1>3, <2>1
  <2>2. CASE i # 0
    <3>1. f[i - 1] \in BOOLEAN /\ i \in 1 .. n /\ i > 0
      BY <1>1, <2>2
    <3>2. f[i] = IF text[i].tok = "<think>" THEN TRUE
                 ELSE IF text[i].tok = "</think>" THEN FALSE ELSE f[i - 1]
      BY <1>3, <2>2, <3>1
    <3> HIDE DEF n
    <3> QED BY <3>1, <3>2
  <2> QED BY <2>1, <2>2
<1>5. Is(f)
  BY <1>4
<1>6. Is(Thinking(text))
  BY <1>5 DEF Thinking
<1>7. Thoughts(text) = {i \in 1 .. n : Thinking(text)[i] \/ Thinking(text)[i - 1]}
  BY DEF Thoughts, Thinking
<1> DEFINE g == Thinking(text)
<1> HIDE DEF g
<1>8. \A i \in 0 .. n :
        g[i] = (i > 0 /\ CASE text[i].tok = "<think>"  -> TRUE
                           [] text[i].tok = "</think>" -> FALSE
                           [] OTHER                    -> g[i - 1])
  BY <1>6 DEF g
<1>9. g \in [0 .. n -> BOOLEAN] /\ g[0] = FALSE
  <2>1. \A i \in 0 .. n : g[i] \in BOOLEAN
    BY <1>8
  <2>2. g = [i \in 0 .. n |-> g[i]]
    BY <1>6 DEF g
  <2>3. 0 \in 0 .. n /\ ~ (0 > 0)
    BY <1>1
  <2> HIDE DEF n
  <2>4. g[0] = FALSE
    BY <1>8, <2>3
  <2> QED BY <2>1, <2>2, <2>4
<1>10. ASSUME NEW i \in 1 .. n
       PROVE  g[i] <=> i \in Openers(text) \/ (i \notin Closers(text) /\ g[i - 1])
  <2>1. /\ i \in 0 .. n /\ i > 0 /\ g[i] \in BOOLEAN /\ g[i - 1] \in BOOLEAN
        /\ i \in Openers(text) <=> text[i].tok = "<think>"
        /\ i \in Closers(text) <=> text[i].tok = "</think>"
    BY <1>1, <1>9 DEF Openers, Closers, Places
  <2> HIDE DEF n
  <2> QED BY <1>8, <2>1
<1> QED BY <1>7, <1>9, <1>10 DEF g

(* A token is a thought exactly when the last tag before it opens a block, or it  *)
(* opens one itself.                                                              *)
InBlock(text, i) ==
    \E o \in Openers(text) : o <= i /\ \A c \in Closers(text) : ~ (o < c /\ c < i)

LEMMA ThoughtsAreInBlocks ==
    ASSUME NEW text \in Seq(Token)
    PROVE  Thoughts(text) = {i \in 1 .. Len(text) : InBlock(text, i)}
<1> DEFINE n == Len(text)
           th == Thinking(text)
           Opened(i) == \E o \in Openers(text) :
                            o <= i /\ \A c \in Closers(text) : ~ (o < c /\ c <= i)
           S == {i \in 0 .. n : th[i] <=> Opened(i)}
<1>1. /\ n \in Nat
      /\ Openers(text) \subseteq 1 .. n /\ Closers(text) \subseteq 1 .. n
      /\ Openers(text) \cap Closers(text) = {}
  BY TagsArePlaces
<1>2. /\ Thoughts(text) = {i \in 1 .. n : th[i] \/ th[i - 1]}
      /\ th[0] = FALSE
      /\ \A i \in 1 .. n :
           th[i] <=> i \in Openers(text) \/ (i \notin Closers(text) /\ th[i - 1])
  BY ThinkingRecurs
<1> HIDE DEF n, th
<1>3. 0 \in S
  BY <1>1, <1>2
<1>4. ASSUME NEW k \in 0 .. n - 1, k \in S PROVE k + 1 \in S
  <2>1. k + 1 \in 1 .. n /\ (k + 1) - 1 = k
    BY <1>1
  <2>2. th[k + 1] <=> k + 1 \in Openers(text) \/ (k + 1 \notin Closers(text) /\ Opened(k))
    BY <1>2, <1>4, <2>1
  <2>3. CASE k + 1 \in Openers(text)
    <3>1. Opened(k + 1)
      BY <1>1, <2>3
    <3> HIDE DEF Opened
    <3> QED BY <2>1, <2>2, <2>3, <3>1
  <2>4. CASE k + 1 \in Closers(text)
    <3>1. ~ Opened(k + 1)
      BY <1>1, <2>4
    <3>2. k + 1 \notin Openers(text)
      BY <1>1, <2>4
    <3> HIDE DEF Opened
    <3> QED BY <2>1, <2>2, <2>4, <3>1, <3>2
  <2>5. CASE k + 1 \notin Openers(text) /\ k + 1 \notin Closers(text)
    <3>1. \A o \in Openers(text) : o <= k + 1 <=> o <= k
      BY <1>1, <2>5
    <3>2. \A c \in Closers(text) : c <= k + 1 <=> c <= k
      BY <1>1, <2>5
    <3>3. Opened(k + 1) <=> Opened(k)
      BY <3>1, <3>2
    <3> HIDE DEF Opened
    <3> QED BY <2>1, <2>2, <2>5, <3>3
  <2> QED BY <2>3, <2>4, <2>5
<1>5. \A i \in 0 .. n : th[i] <=> Opened(i)
  <2>1. 0 .. n \subseteq S
    <3> HIDE DEF S
    <3> QED BY <1>1, <1>3, <1>4, Induction
  <2> QED BY <2>1
<1>6. ASSUME NEW i \in 1 .. n PROVE (th[i] \/ th[i - 1]) <=> InBlock(text, i)
  <2>1. i \in 0 .. n /\ i - 1 \in 0 .. n
    BY <1>1
  <2>2. (th[i] \/ th[i - 1]) <=> (Opened(i) \/ Opened(i - 1))
    BY <1>5, <2>1
  <2>3. Opened(i) => InBlock(text, i)
    BY <1>1 DEF InBlock
  <2>4. Opened(i - 1) => InBlock(text, i)
    BY <1>1 DEF InBlock
  <2>5. ASSUME InBlock(text, i) PROVE Opened(i) \/ Opened(i - 1)
    <3>1. PICK o \in Openers(text) :
            o <= i /\ \A c \in Closers(text) : ~ (o < c /\ c < i)
      BY <2>5 DEF InBlock
    <3>2. CASE o = i
      BY <1>1, <3>1, <3>2
    <3>3. CASE o # i
      <4>1. o <= i - 1
        BY <1>1, <3>1, <3>3
      <4>2. \A c \in Closers(text) : ~ (o < c /\ c <= i - 1)
        BY <1>1, <3>1
      <4> QED BY <4>1, <4>2
    <3> QED BY <3>2, <3>3
  <2> HIDE DEF Opened
  <2> QED BY <2>2, <2>3, <2>4, <2>5
<1> QED BY <1>2, <1>6 DEF n

--------------------------------------------------------------------------------
(* What THINK_RE takes away.                                                      *)

(* The pairs of tags the search from i on may take, and the one it takes.         *)
Pairs(text, i) ==
    {b \in Openers(text) \X Closers(text) : i <= b[1] /\ b[1] < b[2]}
Opening(text, i) == Min({b[1] : b \in Pairs(text, i)})
Closing(text, i) ==
    Min({b[2] : b \in {b \in Pairs(text, i) : b[1] = Opening(text, i)}})

LEMMA FirstPair ==
    ASSUME NEW text \in Seq(Token), NEW i \in Nat, Pairs(text, i) # {}
    PROVE  /\ Opening(text, i) \in Openers(text)
           /\ Closing(text, i) \in Closers(text)
           /\ i <= Opening(text, i)
           /\ Opening(text, i) < Closing(text, i)
           /\ \A b \in Pairs(text, i) : Opening(text, i) <= b[1]
           /\ \A c \in Closers(text) :
                Opening(text, i) < c => Closing(text, i) <= c
<1> DEFINE P == Pairs(text, i)
           A == {b[1] : b \in P}
           o == Opening(text, i)
           B == {b[2] : b \in {b \in P : b[1] = o}}
<1>1. Openers(text) \subseteq Nat /\ Closers(text) \subseteq Nat
  BY TagsArePlaces
<1>2. A \in SUBSET Nat /\ A # {}
  BY <1>1 DEF Pairs
<1>3. o \in A /\ \A m \in A : o <= m
  <2> HIDE DEF A
  <2>1. o = Min(A)
    BY DEF A, Opening
  <2> HIDE DEF o
  <2> QED BY <1>2, <2>1, MinIsLeast
<1> HIDE DEF o
<1>4. B \in SUBSET Nat /\ B # {}
  BY <1>1, <1>3 DEF Pairs
<1>5. Closing(text, i) \in B /\ \A m \in B : Closing(text, i) <= m
  <2>1. Closing(text, i) = Min(B)
    BY DEF Closing, o
  <2> HIDE DEF B
  <2> QED BY <1>4, <2>1, MinIsLeast
<1>6. o \in Openers(text) /\ Closing(text, i) \in Closers(text) /\ i <= o /\ o < Closing(text, i)
  BY <1>5 DEF Pairs
<1>7. ASSUME NEW c \in Closers(text), o < c PROVE Closing(text, i) <= c
  <2>1. <<o, c>> \in P
    BY <1>6, <1>7 DEF Pairs
  <2>2. c \in B
    <3>1. <<o, c>>[1] = o /\ <<o, c>>[2] = c
      OBVIOUS
    <3> HIDE DEF P
    <3> QED BY <2>1, <3>1
  <2> QED BY <1>5, <2>2
<1>8. \A b \in P : o <= b[1]
  BY <1>3
<1> QED BY <1>6, <1>7, <1>8 DEF o

(* The matches of the search from every place on.                                 *)
MatchesFrom(text) ==
    CHOOSE f : f = [i \in 1 .. Len(text) + 1 |->
        IF Pairs(text, i) = {} THEN {}
        ELSE {<<Opening(text, i), Closing(text, i)>>} \cup f[Closing(text, i) + 1]]

LEMMA MatchesRecur ==
    ASSUME NEW text \in Seq(Token)
    PROVE  /\ Matches(text) = MatchesFrom(text)[1]
           /\ \A i \in 1 .. Len(text) + 1 :
                MatchesFrom(text)[i] =
                    IF Pairs(text, i) = {} THEN {}
                    ELSE {<<Opening(text, i), Closing(text, i)>>}
                            \cup MatchesFrom(text)[Closing(text, i) + 1]
<1> DEFINE n == Len(text) + 1
           V == SUBSET (Openers(text) \X Closers(text))
           stop == {i \in 1 .. n : Pairs(text, i) = {}}
           c == {}
           next == [i \in 1 .. n |-> Closing(text, i) + 1]
           step == [x \in (1 .. n) \X V |->
                       IF x[1] \in stop THEN c
                       ELSE {<<Opening(text, x[1]), Closing(text, x[1])>>} \cup x[2]]
           Is(f) == f = [i \in 1 .. n |->
                       IF Pairs(text, i) = {} THEN {}
                       ELSE {<<Opening(text, i), Closing(text, i)>>} \cup f[Closing(text, i) + 1]]
<1>1. Len(text) \in Nat /\ n \in Nat /\ Closers(text) \subseteq 1 .. Len(text)
  BY TagsArePlaces
<1>2. ASSUME NEW i \in (1 .. n) \ stop
      PROVE  /\ Opening(text, i) \in Openers(text)
             /\ Closing(text, i) \in Closers(text)
             /\ next[i] \in i + 1 .. n
  <2>1. i \in Nat /\ Pairs(text, i) # {} /\ next[i] = Closing(text, i) + 1
    OBVIOUS
  <2>2. /\ Opening(text, i) \in Openers(text) /\ Opening(text, i) \in Nat
        /\ Closing(text, i) \in Closers(text)
        /\ i <= Opening(text, i) /\ Opening(text, i) < Closing(text, i)
    BY <2>1, FirstPair, TagsArePlaces
  <2> QED BY <1>1, <2>1, <2>2
<1>3. c \in V
  OBVIOUS
<1>4. step \in [(1 .. n) \X V -> V]
  <2>1. ASSUME NEW x \in (1 .. n) \X V PROVE step[x] \in V
    <3>1. CASE x[1] \in stop
      BY <1>3, <3>1
    <3>2. CASE x[1] \notin stop
      <4>1. x[1] \in (1 .. n) \ stop /\ x[2] \in V
        BY <3>2
      <4>2. <<Opening(text, x[1]), Closing(text, x[1])>> \in Openers(text) \X Closers(text)
        <5> HIDE DEF stop, next
        <5> QED BY <1>2, <4>1
      <4>3. step[x] = {<<Opening(text, x[1]), Closing(text, x[1])>>} \cup x[2]
        BY <4>1
      <4> HIDE DEF step
      <4> QED BY <4>1, <4>2, <4>3
    <3> QED BY <3>1, <3>2
  <2>2. step = [x \in (1 .. n) \X V |-> step[x]]
    OBVIOUS
  <2> HIDE DEF step
  <2> QED BY <2>1, <2>2
<1>5. PICK f : Jumps(f, n, V, stop, c, next, step)
  <2> HIDE DEF n, V, stop, c, next, step
  <2> QED BY <1>1, <1>2, <1>3, <1>4, JumpingRecursion
<1>6. Is(f)
  <2>1. ASSUME NEW i \in 1 .. n
        PROVE  f[i] = IF Pairs(text, i) = {} THEN {}
                      ELSE {<<Opening(text, i), Closing(text, i)>>} \cup f[Closing(text, i) + 1]
    <3>1. f[i] = IF i \in stop THEN c ELSE step[<<i, f[next[i]]>>]
      BY <1>5 DEF Jumps
    <3>2. CASE i \in stop
      BY <3>1, <3>2
    <3>3. CASE i \notin stop
      <4>1. next[i] \in 1 .. n /\ next[i] = Closing(text, i) + 1
        BY <1>1, <1>2, <3>3
      <4>2. f[next[i]] \in V
        <5> HIDE DEF next, V, n
        <5> QED BY <1>5, <4>1 DEF Jumps
      <4>3. step[<<i, f[next[i]]>>] =
              {<<Opening(text, i), Closing(text, i)>>} \cup f[next[i]]
        <5> HIDE DEF V, stop, next, c
        <5> QED BY <3>3, <4>2
      <4> HIDE DEF step, next
      <4> QED BY <3>1, <3>3, <4>1, <4>3
    <3> QED BY <3>2, <3>3
  <2>2. f = [i \in 1 .. n |-> f[i]]
    <3> HIDE DEF n, V, stop, c, next, step
    <3> QED BY <1>5 DEF Jumps
  <2> HIDE DEF n
  <2> QED BY <2>1, <2>2
<1>7. Is(MatchesFrom(text))
  <2>1. \E g : Is(g)
    BY <1>6
  <2> QED BY <2>1 DEF MatchesFrom
<1>8. Matches(text) = MatchesFrom(text)[1]
  BY DEF Matches, MatchesFrom, Pairs, Opening, Closing, Openers, Closers
<1> DEFINE g == MatchesFrom(text)
<1> HIDE DEF g
<1>9. \A i \in 1 .. n :
        g[i] = IF Pairs(text, i) = {} THEN {}
               ELSE {<<Opening(text, i), Closing(text, i)>>} \cup g[Closing(text, i) + 1]
  <2>1. g = [i \in 1 .. n |->
              IF Pairs(text, i) = {} THEN {}
              ELSE {<<Opening(text, i), Closing(text, i)>>} \cup g[Closing(text, i) + 1]]
    BY <1>7 DEF g
  <2> HIDE DEF n
  <2> QED BY <2>1
<1> QED BY <1>8, <1>9 DEF g

(* A token goes when it lies in a block that opens at i or later and is closed.   *)
Goes(text, i, k) ==
    \E o \in Openers(text) :
        /\ i <= o /\ o <= k
        /\ \A c \in Closers(text) : ~ (o < c /\ c < k)
        /\ \E c \in Closers(text) : o < c /\ k <= c

Covered(blocks, k) == \E b \in blocks : b[1] <= k /\ k <= b[2]

(* One match, and what the search from behind it goes on to take.                 *)
LEMMA BlockThenRest ==
    ASSUME NEW text \in Seq(Token), NEW i \in Nat, NEW k \in Nat, Pairs(text, i) # {}
    PROVE  Goes(text, i, k) <=>
              \/ Opening(text, i) <= k /\ k <= Closing(text, i)
              \/ Goes(text, Closing(text, i) + 1, k)
<1> DEFINE o1 == Opening(text, i)
           c1 == Closing(text, i)
<1>1. /\ Openers(text) \subseteq Nat /\ Closers(text) \subseteq Nat
      /\ Openers(text) \cap Closers(text) = {}
  BY TagsArePlaces
<1>2. /\ o1 \in Openers(text) /\ c1 \in Closers(text)
      /\ o1 \in Nat /\ c1 \in Nat
      /\ i <= o1 /\ o1 < c1
      /\ \A b \in Pairs(text, i) : o1 <= b[1]
      /\ \A c \in Closers(text) : o1 < c => c1 <= c
  BY <1>1, FirstPair
<1> HIDE DEF o1, c1
<1>3. ASSUME o1 <= k, k <= c1 PROVE Goes(text, i, k)
  BY <1>1, <1>2, <1>3 DEF Goes
<1>4. ASSUME Goes(text, c1 + 1, k) PROVE Goes(text, i, k)
  <2>1. \A o \in Openers(text) : c1 + 1 <= o => i <= o
    BY <1>1, <1>2
  <2> QED BY <1>4, <2>1 DEF Goes
<1>5. ASSUME Goes(text, i, k) PROVE (o1 <= k /\ k <= c1) \/ Goes(text, c1 + 1, k)
  <2>1. PICK o \in Openers(text) :
          /\ i <= o /\ o <= k
          /\ \A c \in Closers(text) : ~ (o < c /\ c < k)
          /\ \E c \in Closers(text) : o < c /\ k <= c
    BY <1>5 DEF Goes
  <2>2. PICK d \in Closers(text) : o < d /\ k <= d
    BY <2>1
  <2>3. o1 <= o
    <3>1. <<o, d>> \in Pairs(text, i)
      BY <2>1, <2>2 DEF Pairs
    <3>2. <<o, d>>[1] = o
      OBVIOUS
    <3> QED BY <1>2, <3>1, <3>2
  <2>4. CASE k <= c1
    BY <1>1, <1>2, <2>1, <2>3, <2>4
  <2>5. CASE ~ (k <= c1)
    <3>1. ~ (o < c1)
      BY <1>1, <1>2, <2>1, <2>5
    <3>2. o # c1
      BY <1>1, <1>2
    <3>3. c1 + 1 <= o
      BY <1>1, <1>2, <3>1, <3>2
    <3> QED BY <2>1, <3>3 DEF Goes
  <2> QED BY <2>4, <2>5
<1> QED BY <1>3, <1>4, <1>5 DEF o1, c1

(* The non-greedy search without overlap takes every closed block, and no more.   *)
LEMMA MatchesAreTheClosedBlocks ==
    ASSUME NEW text \in Seq(Token)
    PROVE  \A k \in Nat : Covered(Matches(text), k) <=> Goes(text, 1, k)
<1> DEFINE n == Len(text) + 1
           g == MatchesFrom(text)
           Right(i) == \A k \in Nat : Covered(g[i], k) <=> Goes(text, i, k)
           T == {j \in Nat : j < n /\ ~ Right(n - j)}
<1>1. /\ Len(text) \in Nat /\ n \in Nat
      /\ Openers(text) \subseteq 1 .. Len(text) /\ Closers(text) \subseteq 1 .. Len(text)
  BY TagsArePlaces
<1>2. /\ Matches(text) = g[1]
      /\ \A i \in 1 .. n :
           g[i] = IF Pairs(text, i) = {} THEN {}
                  ELSE {<<Opening(text, i), Closing(text, i)>>} \cup g[Closing(text, i) + 1]
  BY MatchesRecur
<1> HIDE DEF g
<1>3. ASSUME NEW i \in 1 .. n, Pairs(text, i) = {} PROVE Right(i)
  <2> SUFFICES ASSUME NEW k \in Nat PROVE ~ Covered(g[i], k) /\ ~ Goes(text, i, k)
    OBVIOUS
  <2>1. ~ Covered(g[i], k)
    <3>1. g[i] = {}
      BY <1>2, <1>3
    <3> QED BY <3>1 DEF Covered
  <2>2. ASSUME Goes(text, i, k) PROVE FALSE
    <3>1. PICK o \in Openers(text), c \in Closers(text) : i <= o /\ o < c
      BY <2>2 DEF Goes
    <3>2. <<o, c>> \in Pairs(text, i)
      BY <3>1 DEF Pairs
    <3> QED BY <1>3, <3>2
  <2> QED BY <2>1, <2>2
<1>4. ASSUME NEW i \in 1 .. n, Pairs(text, i) # {}, Right(Closing(text, i) + 1)
      PROVE  Right(i)
  <2> SUFFICES ASSUME NEW k \in Nat PROVE Covered(g[i], k) <=> Goes(text, i, k)
    OBVIOUS
  <2> DEFINE o1 == Opening(text, i)
             c1 == Closing(text, i)
  <2>1. g[i] = {<<o1, c1>>} \cup g[c1 + 1]
    BY <1>2, <1>4
  <2>2. Covered(g[c1 + 1], k) <=> Goes(text, c1 + 1, k)
    BY <1>4
  <2>3. Goes(text, i, k) <=> (o1 <= k /\ k <= c1) \/ Goes(text, c1 + 1, k)
    BY <1>4, BlockThenRest
  <2> HIDE DEF o1, c1
  <2>4. Covered(g[i], k) <=> (o1 <= k /\ k <= c1) \/ Covered(g[c1 + 1], k)
    <3>1. <<o1, c1>>[1] = o1 /\ <<o1, c1>>[2] = c1
      OBVIOUS
    <3> QED BY <2>1, <3>1 DEF Covered
  <2> QED BY <2>2, <2>3, <2>4
<1>5. T = {}
  <2> SUFFICES ASSUME T # {} PROVE FALSE
    OBVIOUS
  <2>1. PICK j \in T : \A m \in T : j <= m
    <3>1. T \in SUBSET Nat
      OBVIOUS
    <3> HIDE DEF T
    <3> QED BY <3>1, LeastOf
  <2>2. j \in Nat /\ n - j \in 1 .. n /\ ~ Right(n - j)
    BY <1>1
  <2> HIDE DEF Right
  <2>3. Pairs(text, n - j) # {} /\ ~ Right(Closing(text, n - j) + 1)
    BY <1>3, <1>4, <2>2
  <2> DEFINE m == n - (Closing(text, n - j) + 1)
  <2>4. /\ Closing(text, n - j) \in 1 .. Len(text)
        /\ n - j < Closing(text, n - j)
    BY <1>1, <2>2, <2>3, FirstPair
  <2>5. m \in Nat /\ m < n /\ m < j /\ n - m = Closing(text, n - j) + 1
    BY <1>1, <2>2, <2>4
  <2>6. m \in T
    BY <2>3, <2>5
  <2> HIDE DEF m, T
  <2> QED BY <2>1, <2>2, <2>5, <2>6
<1>6. Right(1)
  <2>1. Len(text) \in Nat /\ Len(text) < n /\ n - Len(text) = 1
    BY <1>1
  <2> HIDE DEF Right
  <2> QED BY <1>5, <2>1
<1> QED BY <1>2, <1>6

(* The part of a text at some places: in order, each place once.                  *)
Placed(text) == \A i \in 1 .. Len(text) : text[i].at = i

Selects(s, text, places) ==
    /\ s \in Seq(Token)
    /\ Len(s) <= Len(text)
    /\ \A i \in 1 .. Len(s) : s[i].at \in places /\ s[i] = text[s[i].at]
    /\ \A i, j \in 1 .. Len(s) : i < j => s[i].at < s[j].at
    /\ \A k \in places : \E i \in 1 .. Len(s) : s[i].at = k

LEMMA SelectsOneMore ==
    ASSUME NEW text \in Seq(Token), Placed(text), NEW s, NEW n \in 0 .. Len(text) - 1,
           NEW places \in SUBSET (1 .. n), Selects(s, text, places), Len(s) <= n
    PROVE  /\ Selects(Append(s, text[n + 1]), text, places \cup {n + 1})
           /\ Len(Append(s, text[n + 1])) <= n + 1
<1> DEFINE x == text[n + 1]
           u == Append(s, x)
<1>1. Len(text) \in Nat /\ n + 1 \in 1 .. Len(text) /\ n \in Nat
  BY TagsArePlaces
<1>2. x \in Token /\ x.at = n + 1 /\ x = text[n + 1]
  <2>1. x \in Token
    <3> HIDE DEF Token
    <3> QED BY <1>1
  <2> QED BY <1>1, <2>1 DEF Placed
<1>3. /\ s \in Seq(Token) /\ Len(s) \in Nat
      /\ u \in Seq(Token) /\ Len(u) = Len(s) + 1
      /\ \A i \in 1 .. Len(s) : u[i] = s[i]
      /\ u[Len(s) + 1] = x
  <2>1. s \in Seq(Token)
    BY DEF Selects
  <2> HIDE DEF Token, x
  <2> QED BY <1>2, <2>1
<1> HIDE DEF u, x
<1>4. \A i \in 1 .. Len(s) :
        s[i].at \in places /\ s[i].at < n + 1 /\ s[i] = text[s[i].at]
  <2>1. \A i \in 1 .. Len(s) : s[i].at \in places /\ s[i] = text[s[i].at]
    BY DEF Selects
  <2>2. \A k \in places : k < n + 1
    BY <1>1
  <2> QED BY <2>1, <2>2
<1>5. \A i \in 1 .. Len(u) : u[i].at \in places \cup {n + 1} /\ u[i] = text[u[i].at]
  BY <1>2, <1>3, <1>4
<1>6. ASSUME NEW i \in 1 .. Len(u), NEW j \in 1 .. Len(u), i < j PROVE u[i].at < u[j].at
  <2>1. i \in 1 .. Len(s)
    BY <1>3, <1>6
  <2>2. CASE j = Len(s) + 1
    BY <1>2, <1>3, <1>4, <2>1, <2>2
  <2>3. CASE j # Len(s) + 1
    <3>1. j \in 1 .. Len(s)
      BY <1>3, <2>3
    <3> QED BY <1>3, <1>6, <2>1, <3>1 DEF Selects
  <2> QED BY <2>2, <2>3
<1>7. ASSUME NEW k \in places \cup {n + 1} PROVE \E i \in 1 .. Len(u) : u[i].at = k
  <2>1. CASE k = n + 1
    BY <1>2, <1>3, <2>1
  <2>2. CASE k \in places
    <3>1. PICK i \in 1 .. Len(s) : s[i].at = k
      BY <2>2 DEF Selects
    <3> QED BY <1>3, <3>1
  <2> QED BY <2>1, <2>2
<1>8. Len(u) <= n + 1 /\ Len(u) <= Len(text)
  BY <1>1, <1>3
<1>9. Selects(u, text, places \cup {n + 1})
  BY <1>3, <1>5, <1>6, <1>7, <1>8 DEF Selects
<1> QED BY <1>8, <1>9 DEF u, x

Gone(text) == UNION {b[1] .. b[2] : b \in Matches(text)}

(* What is left after every token of the text.                                    *)
Left(text) ==
    CHOOSE f : f = [n \in 0 .. Len(text) |->
        IF n = 0 THEN <<>>
        ELSE IF n \in Gone(text) THEN f[n - 1] ELSE Append(f[n - 1], text[n])]

LEMMA LeftRecurs ==
    ASSUME NEW text \in Seq(Token)
    PROVE  /\ Substituted(text) = Left(text)[Len(text)]
           /\ \A i \in 0 .. Len(text) :
                Left(text)[i] =
                    IF i = 0 THEN <<>>
                    ELSE IF i \in Gone(text) THEN Left(text)[i - 1]
                    ELSE Append(Left(text)[i - 1], text[i])
<1> DEFINE n == Len(text)
           gone == Gone(text)
           V == Seq(Token)
           c == <<>>
           step == [x \in (1 .. n) \X V |->
                       IF x[1] \in gone THEN x[2] ELSE Append(x[2], text[x[1]])]
           Is(f) == f = [i \in 0 .. n |->
                       IF i = 0 THEN <<>>
                       ELSE IF i \in gone THEN f[i - 1] ELSE Append(f[i - 1], text[i])]
<1>1. n \in Nat /\ \A i \in 1 .. n : text[i] \in Token
  <2> HIDE DEF Token
  <2> QED OBVIOUS
<1> HIDE DEF n, gone
<1>2. c \in V
  OBVIOUS
<1>3. step \in [(1 .. n) \X V -> V]
  <2>1. ASSUME NEW x \in (1 .. n) \X V PROVE step[x] \in V
    <3>1. x[1] \in 1 .. n /\ x[2] \in V /\ text[x[1]] \in Token
      BY <1>1
    <3>2. Append(x[2], text[x[1]]) \in V
      <4> HIDE DEF Token
      <4> QED BY <3>1
    <3> HIDE DEF V
    <3> QED BY <3>1, <3>2
  <2>2. step = [x \in (1 .. n) \X V |-> step[x]]
    OBVIOUS
  <2> HIDE DEF step, V
  <2> QED BY <2>1, <2>2
<1>4. PICK f : Recurs(f, n, V, c, step)
  <2> HIDE DEF V, c, step
  <2> QED BY <1>1, <1>2, <1>3, Recursion
<1>5. Is(f)
  <2>1. ASSUME NEW i \in 0 .. n
        PROVE  f[i] = IF i = 0 THEN <<>>
                      ELSE IF i \in gone THEN f[i - 1] ELSE Append(f[i - 1], text[i])
    <3>1. f[i] = IF i = 0 THEN <<>> ELSE step[<<i, f[i - 1]>>]
      BY <1>4 DEF Recurs
    <3>2. ASSUME i # 0
          PROVE  step[<<i, f[i - 1]>>] =
                    IF i \in gone THEN f[i - 1] ELSE Append(f[i - 1], text[i])
      <4>1. i \in 1 .. n /\ i - 1 \in 0 .. n
        BY <1>1, <3>2
      <4>2. f[i - 1] \in V
        <5> HIDE DEF V
        <5> QED BY <1>4, <4>1 DEF Recurs
      <4> HIDE DEF V
      <4> QED BY <4>1, <4>2
    <3> HIDE DEF step
    <3> QED BY <3>1, <3>2
  <2>2. f = [i \in 0 .. n |-> f[i]]
    <3> HIDE DEF V, c, step
    <3> QED BY <1>4 DEF Recurs
  <2> QED BY <2>1, <2>2
<1>6. Is(Left(text))
  <2>1. \E h : Is(h)
    BY <1>5
  <2> QED BY <2>1 DEF Left, n, gone
<1>7. Substituted(text) = Left(text)[n]
  BY DEF Substituted, Left, Gone, n
<1> DEFINE g == Left(text)
<1> HIDE DEF g
<1>8. \A i \in 0 .. n :
        g[i] = IF i = 0 THEN <<>>
               ELSE IF i \in gone THEN g[i - 1] ELSE Append(g[i - 1], text[i])
  <2>1. g = [i \in 0 .. n |->
              IF i = 0 THEN <<>>
              ELSE IF i \in gone THEN g[i - 1] ELSE Append(g[i - 1], text[i])]
    BY <1>6 DEF g
  <2> QED BY <2>1
<1> QED BY <1>7, <1>8 DEF g, n, gone

(* THINK_RE.sub leaves exactly what lies in no closed block.                      *)
LEMMA SubstitutedSelects ==
    ASSUME NEW text \in Seq(Token), Placed(text)
    PROVE  Selects(Substituted(text), text,
                   {k \in 1 .. Len(text) : ~ Goes(text, 1, k)})
<1> DEFINE n == Len(text)
           g == Left(text)
           A(i) == {k \in 1 .. i : k \notin Gone(text)}
           S == {i \in 0 .. n : Selects(g[i], text, A(i)) /\ Len(g[i]) <= i}
<1>1. n \in Nat
  BY TagsArePlaces
<1>2. /\ Substituted(text) = g[n]
      /\ \A i \in 0 .. n :
           g[i] = IF i = 0 THEN <<>>
                  ELSE IF i \in Gone(text) THEN g[i - 1] ELSE Append(g[i - 1], text[i])
  BY LeftRecurs
<1> HIDE DEF g
<1>3. 0 \in S
  <2>1. g[0] = <<>>
    BY <1>1, <1>2
  <2>2. A(0) = {}
    OBVIOUS
  <2>3. Selects(<<>>, text, {}) /\ Len(<<>>) <= 0
    BY <1>1 DEF Selects
  <2> HIDE DEF A
  <2>4. Selects(g[0], text, A(0)) /\ Len(g[0]) <= 0
    BY <2>1, <2>2, <2>3
  <2> HIDE DEF n
  <2> QED BY <1>1, <2>4
<1>4. ASSUME NEW k \in 0 .. n - 1, k \in S PROVE k + 1 \in S
  <2>1. k + 1 \in 0 .. n /\ k + 1 # 0 /\ (k + 1) - 1 = k /\ k \in Nat
    BY <1>1
  <2>2. Selects(g[k], text, A(k)) /\ Len(g[k]) <= k
    BY <1>4
  <2>3. CASE k + 1 \in Gone(text)
    <3>1. g[k + 1] = g[k]
      BY <1>2, <2>1, <2>3
    <3>2. A(k + 1) = A(k)
      BY <2>1, <2>3
    <3>3. Len(g[k]) <= k + 1
      <4>1. Len(g[k]) \in Nat
        BY <2>2 DEF Selects
      <4> QED BY <2>1, <2>2, <4>1
    <3> HIDE DEF A
    <3> QED BY <2>1, <2>2, <3>1, <3>2, <3>3
  <2>4. CASE k + 1 \notin Gone(text)
    <3>1. g[k + 1] = Append(g[k], text[k + 1])
      BY <1>2, <2>1, <2>4
    <3>2. A(k + 1) = A(k) \cup {k + 1}
      BY <2>1, <2>4
    <3>3. A(k) \in SUBSET (1 .. k)
      OBVIOUS
    <3> HIDE DEF A
    <3>4. k \in 0 .. Len(text) - 1
      OBVIOUS
    <3>5. /\ Selects(Append(g[k], text[k + 1]), text, A(k) \cup {k + 1})
          /\ Len(Append(g[k], text[k + 1])) <= k + 1
      BY <2>2, <3>3, <3>4, SelectsOneMore
    <3>6. Selects(g[k + 1], text, A(k + 1)) /\ Len(g[k + 1]) <= k + 1
      BY <3>1, <3>2, <3>5
    <3> HIDE DEF n
    <3> QED BY <2>1, <3>6
  <2> QED BY <2>3, <2>4
<1>5. n \in S
  <2>1. n \in 0 .. n
    BY <1>1
  <2> HIDE DEF S, n
  <2>2. 0 .. n \subseteq S
    BY <1>1, <1>3, <1>4, Induction
  <2> QED BY <2>1, <2>2
<1>6. A(n) = {k \in 1 .. n : ~ Goes(text, 1, k)}
  <2>1. ASSUME NEW k \in 1 .. n PROVE k \in Gone(text) <=> Covered(Matches(text), k)
    BY DEF Gone, Covered
  <2> QED BY <1>1, <2>1, MatchesAreTheClosedBlocks
<1> QED BY <1>2, <1>5, <1>6

(* Where the tags of a selection come from.                                       *)
Origins(s, tok) == {s[i].at : i \in Places(s, tok)}

LEMMA PlacesOfSelection ==
    ASSUME NEW text \in Seq(Token), NEW places \in SUBSET (1 .. Len(text)), NEW s,
           Selects(s, text, places), NEW tok
    PROVE  Origins(s, tok) = Places(text, tok) \cap places
<1>1. ASSUME NEW i \in Places(s, tok) PROVE s[i].at \in Places(text, tok) \cap places
  <2>1. /\ i \in 1 .. Len(s) /\ s[i].tok = tok
        /\ s[i].at \in places /\ s[i] = text[s[i].at]
    BY DEF Selects, Places
  <2> QED BY <2>1 DEF Places
<1>2. ASSUME NEW k \in Places(text, tok) \cap places
      PROVE  \E i \in Places(s, tok) : s[i].at = k
  <2>1. PICK i \in 1 .. Len(s) : s[i].at = k
    BY DEF Selects
  <2>2. s[i] = text[k]
    BY <2>1 DEF Selects
  <2> QED BY <2>1, <2>2 DEF Places
<1> QED BY <1>1, <1>2 DEF Origins

(* The part of a selection before one of its members.                             *)
LEMMA SelectsBefore ==
    ASSUME NEW text \in Seq(Token), NEW places \in SUBSET (1 .. Len(text)), NEW s,
           Selects(s, text, places), NEW m \in 1 .. Len(s)
    PROVE  /\ Selects(SubSeq(s, 1, m - 1), text, {k \in places : k < s[m].at})
           /\ Len(SubSeq(s, 1, m - 1)) = m - 1
<1> DEFINE u == SubSeq(s, 1, m - 1)
<1>1. s \in Seq(Token) /\ Len(s) \in Nat /\ Len(s) <= Len(text) /\ Len(text) \in Nat
  BY TagsArePlaces DEF Selects
<1>2. /\ u \in Seq(Token) /\ Len(u) = m - 1
      /\ \A i \in 1 .. m - 1 : u[i] = s[i]
  <2> HIDE DEF Token
  <2> QED BY <1>1
<1> HIDE DEF u
<1>3. \A i \in 1 .. m - 1 : i \in 1 .. Len(s) /\ i < m
  BY <1>1
<1>4. Len(u) <= Len(text)
  BY <1>1, <1>2
<1>5. ASSUME NEW i \in 1 .. Len(u)
      PROVE  u[i].at \in {k \in places : k < s[m].at} /\ u[i] = text[u[i].at]
  BY <1>2, <1>3 DEF Selects
<1>6. ASSUME NEW i \in 1 .. Len(u), NEW j \in 1 .. Len(u), i < j PROVE u[i].at < u[j].at
  BY <1>2, <1>3, <1>6 DEF Selects
<1>7. ASSUME NEW k \in places, k < s[m].at PROVE \E i \in 1 .. Len(u) : u[i].at = k
  <2>1. PICK i \in 1 .. Len(s) : s[i].at = k
    BY DEF Selects
  <2>2. s[i].at \in Nat /\ s[m].at \in Nat
    <3>1. s[i].at \in places /\ s[m].at \in places
      BY DEF Selects
    <3>2. \A x \in places : x \in Nat
      OBVIOUS
    <3> QED BY <3>1, <3>2
  <2>3. i < m
    <3>1. CASE i = m
      BY <1>7, <2>1, <2>2, <3>1
    <3>2. CASE m < i
      <4>1. s[m].at < s[i].at
        BY <3>2 DEF Selects
      <4> QED BY <1>7, <2>1, <2>2, <4>1
    <3> QED BY <1>1, <3>1, <3>2
  <2>4. i \in 1 .. m - 1
    BY <1>1, <2>3
  <2> QED BY <1>2, <2>1, <2>4
<1>8. Selects(u, text, {k \in places : k < s[m].at})
  BY <1>2, <1>4, <1>5, <1>6, <1>7 DEF Selects
<1> QED BY <1>2, <1>8 DEF u

--------------------------------------------------------------------------------
(* The answer of a text: what Split leaves of it, and WouldBe looks at.           *)
Cut(text) ==
    IF Dangling(Substituted(text)) THEN Min(Places(Substituted(text), "<think>"))
    ELSE Len(Substituted(text)) + 1
AnswerOf(text) == SubSeq(Substituted(text), 1, Cut(text) - 1)

Excluded(text) ==
    IF Orphans(text) = {} THEN Thoughts(text) ELSE Thoughts(text) \ Unclosed(text)

(* In a closed block, or in one that stays open: the two ways to be a thought.    *)
LEMMA ThoughtsAreClosedOrOpen ==
    ASSUME NEW text \in Seq(Token), NEW k \in 1 .. Len(text)
    PROVE  /\ k \in Thoughts(text) <=> InBlock(text, k)
           /\ k \in Unclosed(text) <=>
                 InBlock(text, k) /\ \A c \in Closers(text) : c < k
           /\ Goes(text, 1, k) <=> k \in Thoughts(text) \ Unclosed(text)
<1>1. /\ Len(text) \in Nat
      /\ Openers(text) \subseteq 1 .. Len(text) /\ Closers(text) \subseteq 1 .. Len(text)
      /\ Openers(text) \cap Closers(text) = {}
  BY TagsArePlaces
<1>2. k \in Thoughts(text) <=> InBlock(text, k)
  BY ThoughtsAreInBlocks
<1>3. k \in Unclosed(text) <=> InBlock(text, k) /\ \A c \in Closers(text) : c < k
  BY <1>2 DEF Unclosed, Closers
<1>4. ASSUME Goes(text, 1, k)
      PROVE  InBlock(text, k) /\ \E c \in Closers(text) : ~ (c < k)
  <2>1. PICK o \in Openers(text) :
          /\ o <= k
          /\ \A c \in Closers(text) : ~ (o < c /\ c < k)
          /\ \E c \in Closers(text) : o < c /\ k <= c
    BY <1>4 DEF Goes
  <2>2. \E c \in Closers(text) : ~ (c < k)
    BY <1>1, <2>1
  <2> QED BY <2>1, <2>2 DEF InBlock
<1>5. ASSUME InBlock(text, k), NEW d \in Closers(text), ~ (d < k) PROVE Goes(text, 1, k)
  <2>1. PICK o \in Openers(text) : o <= k /\ \A c \in Closers(text) : ~ (o < c /\ c < k)
    BY <1>5 DEF InBlock
  <2>2. o < d /\ k <= d /\ 1 <= o
    BY <1>1, <1>5, <2>1
  <2> QED BY <2>1, <2>2 DEF Goes
<1> QED BY <1>2, <1>3, <1>4, <1>5

(* The tags THINK_RE leaves: closers that close nothing, openers never closed.    *)
LEMMA TagsLeft ==
    ASSUME NEW text \in Seq(Token)
    PROVE  /\ \A c \in Closers(text) : c \notin Unclosed(text)
           /\ Orphans(text) = {c \in Closers(text) : ~ Goes(text, 1, c)}
           /\ Unclosed(text) \cap Openers(text) =
                 {o \in Openers(text) : ~ Goes(text, 1, o)}
<1>1. /\ Openers(text) \subseteq 1 .. Len(text) /\ Closers(text) \subseteq 1 .. Len(text)
      /\ Len(text) \in Nat
  BY TagsArePlaces
<1>2. ASSUME NEW c \in Closers(text) PROVE c \notin Unclosed(text)
  <2>1. c \in Nat /\ ~ (c < c)
    BY <1>1
  <2> QED BY <2>1 DEF Unclosed, Closers
<1>3. \A c \in Closers(text) : c \in Orphans(text) <=> ~ Goes(text, 1, c)
  BY <1>1, <1>2, ThoughtsAreClosedOrOpen DEF Orphans, Closers
<1>4. ASSUME NEW o \in Openers(text)
      PROVE  o \in Unclosed(text) <=> ~ Goes(text, 1, o)
  <2>1. InBlock(text, o)
    BY <1>1 DEF InBlock
  <2>2. o \in 1 .. Len(text)
    BY <1>1
  <2> QED BY <2>1, <2>2, ThoughtsAreClosedOrOpen
<1>5. Orphans(text) \subseteq Closers(text)
  BY DEF Orphans, Closers
<1> QED BY <1>2, <1>3, <1>4, <1>5

(* What stays open was opened by a tag that stays open.                           *)
LEMMA UnclosedIsOpened ==
    ASSUME NEW text \in Seq(Token), NEW k \in Unclosed(text)
    PROVE  \E p \in Unclosed(text) \cap Openers(text) : p <= k
<1>1. /\ Openers(text) \subseteq 1 .. Len(text) /\ Closers(text) \subseteq 1 .. Len(text)
      /\ Openers(text) \cap Closers(text) = {} /\ Len(text) \in Nat
  BY TagsArePlaces
<1>2. k \in 1 .. Len(text)
  BY DEF Unclosed, Thoughts
<1>3. InBlock(text, k) /\ \A c \in Closers(text) : c < k
  BY <1>2, ThoughtsAreClosedOrOpen
<1>4. PICK p \in Openers(text) : p <= k /\ \A c \in Closers(text) : ~ (p < c /\ c < k)
  BY <1>3 DEF InBlock
<1>5. p \in 1 .. Len(text) /\ \A c \in Closers(text) : c < p
  BY <1>1, <1>2, <1>3, <1>4
<1>6. p <= p /\ \A c \in Closers(text) : ~ (p < c /\ c < p)
  BY <1>1, <1>5
<1>7. InBlock(text, p)
  BY <1>6 DEF InBlock
<1>8. p \in Unclosed(text)
  BY <1>5, <1>7, ThoughtsAreClosedOrOpen
<1> QED BY <1>4, <1>8

(* A block that stays open reaches from its first opening tag to the end.         *)
LEMMA UnclosedIsATail ==
    ASSUME NEW text \in Seq(Token), NEW o \in Unclosed(text) \cap Openers(text),
           \A p \in Unclosed(text) \cap Openers(text) : o <= p
    PROVE  Unclosed(text) = {k \in 1 .. Len(text) : ~ (k < o)}
<1>1. /\ Openers(text) \subseteq 1 .. Len(text) /\ Closers(text) \subseteq 1 .. Len(text)
      /\ Len(text) \in Nat
  BY TagsArePlaces
<1>2. Unclosed(text) \subseteq 1 .. Len(text)
  BY DEF Unclosed, Thoughts
<1>3. \A c \in Closers(text) : c < o
  BY <1>1, ThoughtsAreClosedOrOpen
<1>4. ASSUME NEW k \in 1 .. Len(text), ~ (k < o) PROVE k \in Unclosed(text)
  <2>1. o <= k /\ \A c \in Closers(text) : c < k /\ ~ (o < c /\ c < k)
    BY <1>1, <1>3, <1>4
  <2>2. InBlock(text, k)
    BY <2>1 DEF InBlock
  <2> QED BY <2>1, <2>2, ThoughtsAreClosedOrOpen
<1>5. ASSUME NEW k \in Unclosed(text) PROVE ~ (k < o)
  <2>1. PICK p \in Unclosed(text) \cap Openers(text) : p <= k
    BY UnclosedIsOpened
  <2>2. o <= p /\ o \in Nat /\ p \in Nat /\ k \in Nat
    BY <1>1, <1>2
  <2> QED BY <2>1, <2>2
<1> QED BY <1>2, <1>4, <1>5

(* The answer is the text without its thoughts; what an orphan leaves in it is    *)
(* the block that is never closed.                                                *)
LEMMA AnswerIsTheRest ==
    ASSUME NEW text \in Seq(Token), Placed(text)
    PROVE  /\ Selects(AnswerOf(text), text, (1 .. Len(text)) \ Excluded(text))
           /\ Substituted(text) \in Seq(Token)
           /\ Len(Substituted(text)) <= Len(text)
           /\ Cut(text) \in 1 .. Len(Substituted(text)) + 1
           /\ Len(AnswerOf(text)) = Cut(text) - 1
           /\ Dangling(Substituted(text)) =>
                 Cut(text) \in Places(Substituted(text), "<think>")
           /\ Dangling(Substituted(text)) <=>
                 Orphans(text) = {} /\ Unclosed(text) \cap Openers(text) # {}
<1> DEFINE rest == Substituted(text)
           n == Len(text)
           P == {k \in 1 .. n : ~ Goes(text, 1, k)}
           open == Unclosed(text) \cap Openers(text)
<1>1. /\ n \in Nat
      /\ Openers(text) \subseteq 1 .. n /\ Closers(text) \subseteq 1 .. n
  BY TagsArePlaces
<1>2. Selects(rest, text, P)
  BY SubstitutedSelects
<1>3. rest \in Seq(Token) /\ Len(rest) <= n /\ Len(rest) \in Nat
  BY <1>2 DEF Selects
<1> HIDE DEF rest
<1>4. /\ Origins(rest, "<think>") = open
      /\ Origins(rest, "</think>") = Orphans(text)
  <2>1. P \in SUBSET (1 .. Len(text))
    OBVIOUS
  <2>2. Openers(text) \cap P = open /\ Closers(text) \cap P = Orphans(text)
    BY <1>1, TagsLeft
  <2> HIDE DEF P, n
  <2>3. Origins(rest, "<think>") = Places(text, "<think>") \cap P
    BY <1>2, <2>1, PlacesOfSelection
  <2>4. Origins(rest, "</think>") = Places(text, "</think>") \cap P
    BY <1>2, <2>1, PlacesOfSelection
  <2> QED BY <2>2, <2>3, <2>4 DEF Openers, Closers
<1>5. Dangling(rest) <=> Orphans(text) = {} /\ open # {}
  <2>1. \A tok : Places(rest, tok) = {} <=> Origins(rest, tok) = {}
    BY DEF Origins
  <2>2. Places(rest, "<think>") = {} <=> open = {}
    BY <1>4, <2>1
  <2>3. Places(rest, "</think>") = {} <=> Orphans(text) = {}
    BY <1>4, <2>1
  <2> QED BY <2>2, <2>3 DEF Dangling
<1>6. \A k \in 1 .. n : k \in P <=> k \notin Thoughts(text) \ Unclosed(text)
  BY ThoughtsAreClosedOrOpen
<1>7. Unclosed(text) \subseteq Thoughts(text)
  BY DEF Unclosed
<1>8. CASE Dangling(rest)
  <2> DEFINE m == Min(Places(rest, "<think>"))
             o == rest[m].at
  <2>1. m \in Places(rest, "<think>") /\ \A i \in Places(rest, "<think>") : m <= i
    <3>1. Places(rest, "<think>") \in SUBSET Nat /\ Places(rest, "<think>") # {}
      BY <1>8 DEF Dangling, Places
    <3> QED BY <3>1, MinIsLeast
  <2> HIDE DEF m
  <2>2. m \in 1 .. Len(rest) /\ Places(rest, "<think>") \subseteq 1 .. Len(rest)
    BY <2>1 DEF Places
  <2>3. o \in open
    BY <1>4, <2>1 DEF Origins
  <2>4. ASSUME NEW p \in open PROVE o <= p
    <3>1. PICK i \in Places(rest, "<think>") : rest[i].at = p
      BY <1>4 DEF Origins
    <3>2. o \in Nat /\ p \in Nat
      BY <1>1, <2>3
    <3>3. m = i \/ m < i
      BY <1>3, <2>1, <2>2
    <3>4. m < i => o < p
      BY <1>2, <2>2, <3>1 DEF Selects
    <3> QED BY <3>1, <3>2, <3>3, <3>4
  <2>5. Unclosed(text) = {k \in 1 .. n : ~ (k < o)}
    <3> HIDE DEF o
    <3> QED BY <2>3, <2>4, UnclosedIsATail
  <2>6. Cut(text) = m /\ AnswerOf(text) = SubSeq(rest, 1, m - 1)
    BY <1>8 DEF Cut, AnswerOf, rest, m
  <2>7. /\ Selects(AnswerOf(text), text, {k \in P : k < o})
        /\ Len(AnswerOf(text)) = m - 1
    <3>1. P \in SUBSET (1 .. n)
      OBVIOUS
    <3> HIDE DEF P
    <3> QED BY <1>2, <2>2, <2>6, <3>1, SelectsBefore
  <2>8. {k \in P : k < o} = (1 .. n) \ Excluded(text)
    <3>1. Excluded(text) = Thoughts(text)
      BY <1>5, <1>8 DEF Excluded
    <3> HIDE DEF o
    <3> QED BY <1>6, <1>7, <2>5, <3>1
  <2> HIDE DEF P, n, open
  <2>9. Cut(text) \in 1 .. Len(rest) + 1
    BY <1>3, <2>2, <2>6
  <2> QED BY <1>3, <1>5, <1>8, <2>1, <2>6, <2>7, <2>8, <2>9 DEF rest, n, open
<1>9. CASE ~ Dangling(rest)
  <2>1. Cut(text) = Len(rest) + 1 /\ AnswerOf(text) = SubSeq(rest, 1, Cut(text) - 1)
    BY <1>9 DEF Cut, AnswerOf, rest
  <2>2. AnswerOf(text) = rest
    <3>1. Cut(text) - 1 = Len(rest)
      BY <1>3, <2>1
    <3>2. SubSeq(rest, 1, Len(rest)) = rest
      <4> HIDE DEF Token
      <4> QED BY <1>3
    <3> QED BY <2>1, <3>1, <3>2
  <2>3. P = (1 .. n) \ Excluded(text)
    <3>1. CASE Orphans(text) # {}
      BY <1>6, <3>1 DEF Excluded
    <3>2. CASE Orphans(text) = {}
      <4>1. Unclosed(text) = {}
        BY <1>5, <1>9, <3>2, UnclosedIsOpened
      <4> QED BY <1>6, <3>2, <4>1 DEF Excluded
    <3> QED BY <3>1, <3>2
  <2> HIDE DEF P, n, open
  <2>4. Cut(text) \in 1 .. Len(rest) + 1 /\ Len(rest) = Cut(text) - 1
    BY <1>3, <2>1
  <2> QED BY <1>2, <1>3, <1>5, <1>9, <2>2, <2>3, <2>4 DEF rest, n, open
<1> QED BY <1>8, <1>9

--------------------------------------------------------------------------------
(* The invariant: before the text is split nothing is made of it, and from then   *)
(* on the answer, the count of thoughts and the files are functions of it.        *)
ThoughtOf(text) ==
    (Len(text) - Len(Substituted(text)))
        + (IF Dangling(Substituted(text)) THEN Len(Substituted(text)) - Cut(text) ELSE 0)

IInv ==
    /\ stage \in {"stream", "split", "extract", "done", "raised"}
    /\ content \in Seq(Token) /\ Placed(content) /\ Len(content) <= MaxTokens
    /\ reasoned \in 0 .. MaxReasoned
    /\ stage \in {"stream", "split", "raised"} => answer = <<>> /\ thought = 0
    /\ stage \in {"extract", "done"} =>
          answer = AnswerOf(content) /\ thought = ThoughtOf(content)
    /\ IF stage = "done" THEN files = Extracted(answer) ELSE files = NoFiles

LEMMA InitIInv == Init => IInv
<1> SUFFICES ASSUME Init PROVE IInv
  OBVIOUS
<1>1. <<>> \in Seq(Token) /\ Len(<<>>) = 0
  <2> HIDE DEF Token
  <2> QED OBVIOUS
<1>2. Placed(<<>>)
  BY <1>1 DEF Placed
<1> QED BY <1>1, <1>2, BoundsAssumption DEF Init, IInv

LEMMA NextIInv == IInv /\ [Next]_vars => IInv'
<1> SUFFICES ASSUME IInv, [Next]_vars PROVE IInv'
  OBVIOUS
<1>1. CASE ContentDelta
  <2>1. PICK t \in Tokens : content' = Append(content, [tok |-> t, at |-> Len(content) + 1])
    BY <1>1 DEF ContentDelta
  <2> DEFINE x == [tok |-> t, at |-> Len(content) + 1]
  <2>2. content \in Seq(Token) /\ Len(content) \in Nat
    BY TagsArePlaces DEF IInv
  <2>3. x \in Token /\ x.at = Len(content) + 1
    BY <2>2 DEF Token
  <2>4. /\ content' \in Seq(Token) /\ Len(content') = Len(content) + 1
        /\ \A i \in 1 .. Len(content) : content'[i] = content[i]
        /\ content'[Len(content) + 1] = x
    <3> HIDE DEF x, Token
    <3>1. content' = Append(content, x)
      BY <2>1 DEF x
    <3> QED BY <2>2, <2>3, <3>1
  <2>5. Placed(content')
    <3>1. \A i \in 1 .. Len(content') : i \in 1 .. Len(content) \/ i = Len(content) + 1
      BY <2>2, <2>4
    <3> HIDE DEF x
    <3> QED BY <2>3, <2>4, <3>1 DEF IInv, Placed
  <2>6. Len(content') <= MaxTokens
    BY <1>1, <2>2, <2>4, BoundsAssumption DEF ContentDelta
  <2> QED BY <1>1, <2>4, <2>5, <2>6 DEF IInv, ContentDelta
<1>2. CASE ReasoningDelta
  BY <1>2, BoundsAssumption DEF IInv, ReasoningDelta
<1>3. CASE StreamEnds \/ StreamRaises
  BY <1>3 DEF IInv, StreamEnds, StreamRaises
<1>4. CASE Split
  <2>1. answer' = AnswerOf(content)
    BY <1>4 DEF Split, AnswerOf, Cut
  <2>2. thought' = ThoughtOf(content)
    BY <1>4 DEF Split, ThoughtOf, Cut
  <2>3. stage = "split" /\ stage' = "extract" /\ UNCHANGED <<content, reasoned, files>>
    BY <1>4 DEF Split
  <2> QED BY <2>1, <2>2, <2>3 DEF IInv
<1>5. CASE Extract
  BY <1>5 DEF IInv, Extract
<1>6. CASE UNCHANGED vars
  BY <1>6 DEF IInv, vars
<1> QED BY <1>1, <1>2, <1>3, <1>4, <1>5, <1>6 DEF Next

LEMMA SpecIInv == Spec => []IInv
BY InitIInv, NextIInv, PTL DEF Spec

(* The two lengths, and the one token neither of them counts.                     *)
LEMMA LengthsAddUp ==
    ASSUME NEW text \in Seq(Token), Placed(text)
    PROVE  /\ ThoughtOf(text) \in 0 .. Len(text)
           /\ Len(text) - (Len(AnswerOf(text)) + ThoughtOf(text)) =
                 IF Dangling(Substituted(text)) THEN 1 ELSE 0
<1> DEFINE n == Len(text)
           r == Len(Substituted(text))
           cut == Cut(text)
           a == Len(AnswerOf(text))
<1>1. /\ n \in Nat /\ r \in Nat /\ r <= n /\ cut \in 1 .. r + 1 /\ a = cut - 1
  BY AnswerIsTheRest, TagsArePlaces
<1>2. CASE Dangling(Substituted(text))
  <2>1. cut \in 1 .. r
    BY <1>2, AnswerIsTheRest DEF Places
  <2>2. ThoughtOf(text) = (n - r) + (r - cut)
    BY <1>2 DEF ThoughtOf
  <2> HIDE DEF n, r, cut, a
  <2>3. ThoughtOf(text) \in 0 .. n /\ n - (a + ThoughtOf(text)) = 1
    BY <1>1, <2>1, <2>2
  <2> QED BY <1>2, <2>3 DEF n, a
<1>3. CASE ~ Dangling(Substituted(text))
  <2>1. cut = r + 1
    BY <1>3 DEF Cut
  <2>2. ThoughtOf(text) = (n - r) + 0
    BY <1>3 DEF ThoughtOf
  <2> HIDE DEF n, r, cut, a
  <2>3. ThoughtOf(text) \in 0 .. n /\ n - (a + ThoughtOf(text)) = 0
    BY <1>1, <2>1, <2>2
  <2> QED BY <1>3, <2>3 DEF n, a
<1> QED BY <1>2, <1>3

LEMMA GreatestOf ==
    ASSUME NEW n \in Nat, NEW T \in SUBSET (0 .. n), T # {}
    PROVE  \E g \in T : \A m \in T : m <= g
<1> DEFINE U == {j \in Nat : n - j \in T}
<1>1. U \in SUBSET Nat /\ U # {}
  <2>1. PICK m \in T : TRUE
    OBVIOUS
  <2>2. n - m \in Nat /\ n - (n - m) = m
    OBVIOUS
  <2>3. n - m \in U
    BY <2>1, <2>2
  <2> QED BY <2>3
<1>2. PICK j \in U : \A i \in U : j <= i
  <2> HIDE DEF U
  <2> QED BY <1>1, LeastOf
<1>3. ASSUME NEW m \in T PROVE m <= n - j
  <2>1. n - m \in Nat /\ n - (n - m) = m /\ m \in Nat /\ j \in Nat
    OBVIOUS
  <2>2. n - m \in U
    BY <2>1
  <2> HIDE DEF U
  <2>3. j <= n - m
    BY <1>2, <2>2
  <2> QED BY <2>1, <2>3
<1> QED BY <1>2, <1>3

(* Every opening tag is closed exactly when some closing tag lies behind them all. *)
LEMMA AllClosed ==
    ASSUME NEW text \in Seq(Token)
    PROVE  Unclosed(text) \cap Openers(text) = {} <=>
              \/ Cardinality(Openers(text)) = 0
              \/ \E c \in Closers(text) : \A o \in Openers(text) : o < c
<1>1. /\ Len(text) \in Nat
      /\ Openers(text) \subseteq 1 .. Len(text) /\ Closers(text) \subseteq 1 .. Len(text)
      /\ Openers(text) \cap Closers(text) = {}
  BY TagsArePlaces
<1>2. Cardinality(Openers(text)) = 0 <=> Openers(text) = {}
  <2>1. IsFiniteSet(1 .. Len(text)) /\ Openers(text) \in SUBSET (1 .. Len(text))
    BY <1>1, FS_Interval
  <2>2. IsFiniteSet(Openers(text))
    BY <2>1, FS_Subset
  <2> QED BY <2>2, FS_EmptySet
<1>3. ASSUME NEW o \in Openers(text)
      PROVE  o \in Unclosed(text) <=> \A c \in Closers(text) : c < o
  <2>1. o \in 1 .. Len(text) /\ o <= o /\ \A c \in Closers(text) : ~ (o < c /\ c < o)
    BY <1>1
  <2>2. InBlock(text, o)
    BY <2>1 DEF InBlock
  <2> QED BY <2>1, <2>2, ThoughtsAreClosedOrOpen
<1>4. ASSUME NEW c \in Closers(text), \A o \in Openers(text) : o < c
      PROVE  Unclosed(text) \cap Openers(text) = {}
  <2>1. \A o \in Openers(text) : ~ (c < o)
    BY <1>1, <1>4
  <2> QED BY <1>3, <2>1
<1>5. ASSUME Unclosed(text) \cap Openers(text) = {}, Openers(text) # {}
      PROVE  \E c \in Closers(text) : \A o \in Openers(text) : o < c
  <2>1. PICK g \in Openers(text) : \A o \in Openers(text) : o <= g
    <3>1. Openers(text) \in SUBSET (0 .. Len(text))
      BY <1>1
    <3> QED BY <1>1, <1>5, <3>1, GreatestOf
  <2>2. PICK c \in Closers(text) : ~ (c < g)
    BY <1>3, <1>5
  <2>3. g < c
    <3>1. c # g /\ c \in Nat /\ g \in Nat
      BY <1>1
    <3> QED BY <2>2, <3>1
  <2>4. ASSUME NEW o \in Openers(text) PROVE o < c
    <3>1. o <= g /\ o \in Nat /\ g \in Nat /\ c \in Nat
      BY <1>1, <2>1
    <3> QED BY <2>3, <3>1
  <2> QED BY <2>4
<1> QED BY <1>2, <1>4, <1>5

LEMMA IInvNothingLost == IInv => NothingLost
<1> SUFFICES ASSUME IInv, stage \in {"extract", "done"}
             PROVE  /\ Len(content) - (Len(answer) + thought) \in {0, 1}
                    /\ \A i \in 1 .. Len(answer) : answer[i] = content[answer[i].at]
                    /\ \A i, j \in 1 .. Len(answer) : i < j => answer[i].at < answer[j].at
                    /\ Len(content) = Len(answer) + thought <=>
                          \/ Orphans(content) # {}
                          \/ Cardinality(Places(content, "<think>")) = 0
                          \/ \E c \in Places(content, "</think>") :
                                \A o \in Places(content, "<think>") : o < c
  BY DEF NothingLost
<1>1. /\ content \in Seq(Token) /\ Placed(content)
      /\ answer = AnswerOf(content) /\ thought = ThoughtOf(content)
  BY DEF IInv
<1>2. Selects(answer, content, (1 .. Len(content)) \ Excluded(content))
  BY <1>1, AnswerIsTheRest
<1>3. thought \in Nat /\ Len(answer) \in Nat /\ Len(content) \in Nat
  BY <1>1, <1>2, LengthsAddUp, TagsArePlaces DEF Selects
<1>4. Len(content) - (Len(answer) + thought) =
        IF Dangling(Substituted(content)) THEN 1 ELSE 0
  BY <1>1, LengthsAddUp
<1>5. Dangling(Substituted(content)) <=>
        Orphans(content) = {} /\ Unclosed(content) \cap Openers(content) # {}
  BY <1>1, AnswerIsTheRest
<1>6. Len(content) = Len(answer) + thought <=> ~ Dangling(Substituted(content))
  BY <1>3, <1>4
<1>7. Unclosed(content) \cap Openers(content) = {} <=>
        \/ Cardinality(Places(content, "<think>")) = 0
        \/ \E c \in Places(content, "</think>") :
              \A o \in Places(content, "<think>") : o < c
  BY <1>1, AllClosed DEF Openers, Closers
<1>8. Len(content) - (Len(answer) + thought) \in {0, 1}
  BY <1>4
<1> QED BY <1>2, <1>5, <1>6, <1>7, <1>8 DEF Selects

(* Every token received is measured once, as reasoning or as answer, save the tag *)
(* of a block that was never closed, and the answer keeps the order of the stream. *)
THEOREM TokensAreCountedOnce == Spec => []NothingLost
BY IInvNothingLost, SpecIInv, PTL

LEMMA IInvAnswer == IInv => AnswerIsWhatWasNotThought
<1> SUFFICES ASSUME IInv, stage \in {"extract", "done"}
             PROVE  {answer[i].at : i \in 1 .. Len(answer)} =
                       (1 .. Len(content)) \ Excluded(content)
  BY DEF AnswerIsWhatWasNotThought, Excluded
<1> DEFINE places == (1 .. Len(content)) \ Excluded(content)
<1>1. Selects(answer, content, places)
  BY AnswerIsTheRest DEF IInv
<1> HIDE DEF places
<1>2. {answer[i].at : i \in 1 .. Len(answer)} = places
  BY <1>1 DEF Selects
<1> QED BY <1>2 DEF places

(* The two passes of the regular expressions leave what a reader takes for the    *)
(* answer who only remembers whether the model is thinking, for every text all of *)
(* whose closing tags close something.  For a text with an orphan they leave more *)
(* than that: the orphan, and a block that is still open when the text ends.      *)
THEOREM AnswerOfTheReader == Spec => []AnswerIsWhatWasNotThought
BY IInvAnswer, SpecIInv, PTL

--------------------------------------------------------------------------------
(* The files of a text.                                                           *)

Whole(text, m) == m \in Marks(text) /\ Blocks(text, m) # {}
Section(text, m) == [mark |-> text[m].at, lines |-> Fenced(text, m)]

LEMMA FencesArePlaces ==
    ASSUME NEW text \in Seq(Token), NEW m
    PROVE  /\ Marks(text) \subseteq 1 .. Len(text)
           /\ Fences(text, m) \subseteq 1 .. Len(text)
           /\ Fences(text, m) \in SUBSET Nat
           /\ \A k \in Marks(text) : text[k].tok \in Paths
           /\ \A i \in Fences(text, m) : text[i].tok \in FenceTokens /\ i > m
<1>1. Len(text) \in Nat
  BY TagsArePlaces
<1>2. Fences(text, m) \in SUBSET (1 .. Len(text))
  BY DEF Fences
<1>3. \A i \in Fences(text, m) : text[i].tok \in FenceTokens /\ i > m
  BY DEF Fences
<1> QED BY <1>1, <1>2, <1>3 DEF Marks

(* A section is whole when a fence that can begin a block has one behind it.      *)
LEMMA TwoFencesSuffice ==
    ASSUME NEW text \in Seq(Token), NEW m \in Marks(text),
           NEW i \in Fences(text, m), NEW j \in Fences(text, m),
           text[i].tok = "fence", i < j
    PROVE  Whole(text, m)
<1>1. <<i, j>> \in Blocks(text, m)
  BY DEF Blocks
<1> QED BY <1>1 DEF Whole

(* The fences of the block of a whole section.                                    *)
FirstFence(text, m) == Min({b[1] : b \in Blocks(text, m)})
SecondFence(text, m) ==
    Min({b[2] : b \in {b \in Blocks(text, m) : b[1] = FirstFence(text, m)}})

LEMMA FirstTwoFences ==
    ASSUME NEW text \in Seq(Token), NEW m, Whole(text, m)
    PROVE  /\ FirstFence(text, m) \in Fences(text, m)
           /\ SecondFence(text, m) \in Fences(text, m)
           /\ FirstFence(text, m) < SecondFence(text, m)
           /\ text[FirstFence(text, m)].tok = "fence"
           /\ \A x \in Fences(text, m) :
                /\ x < FirstFence(text, m) => text[x].tok # "fence"
                /\ x <= FirstFence(text, m) \/ SecondFence(text, m) <= x
<1> DEFINE F == Fences(text, m)
           B == Blocks(text, m)
           o == FirstFence(text, m)
           c == SecondFence(text, m)
           Opens == {b[1] : b \in B}
           Closes == {b[2] : b \in {b \in B : b[1] = o}}
<1>1. F \in SUBSET Nat
  BY FencesArePlaces
<1>2. /\ \A b \in B : b[1] \in F /\ b[2] \in F /\ b[1] < b[2] /\ text[b[1]].tok = "fence"
      /\ \A x, y \in F : text[x].tok = "fence" /\ x < y => <<x, y>> \in B
      /\ B # {}
  BY DEF Blocks, Whole
<1>3. /\ o = Min(Opens)
      /\ c = Min(Closes)
  BY DEF FirstFence, SecondFence
<1> HIDE DEF F, B, o, c
<1>4. o \in Opens /\ \A x \in Opens : o <= x
  <2>1. Opens \in SUBSET Nat /\ Opens # {}
    BY <1>1, <1>2
  <2> HIDE DEF Opens
  <2> QED BY <1>3, <2>1, MinIsLeast
<1>5. c \in Closes /\ \A x \in Closes : c <= x
  <2>1. Closes \in SUBSET Nat /\ Closes # {}
    BY <1>1, <1>2, <1>4
  <2> HIDE DEF Closes
  <2> QED BY <1>3, <2>1, MinIsLeast
<1>6. o \in F /\ c \in F /\ o < c /\ text[o].tok = "fence"
  BY <1>2, <1>5
<1>7. \A x \in F : x \in Nat
  BY <1>1
<1>8. ASSUME NEW x \in F, x < o
      PROVE  text[x].tok # "fence"
  <2>1. SUFFICES ASSUME text[x].tok = "fence"
                 PROVE  FALSE
    OBVIOUS
  <2>2. <<x, o>> \in B
    BY <1>2, <1>6, <1>8, <2>1
  <2>3. x \in Opens
    <3>1. <<x, o>>[1] \in Opens
      BY <2>2
    <3> QED BY <3>1
  <2> HIDE DEF Opens
  <2> QED BY <1>4, <1>6, <1>7, <1>8, <2>3
<1>9. ASSUME NEW x \in F
      PROVE  x <= o \/ c <= x
  <2>1. CASE o < x
    <3>1. <<o, x>> \in B
      BY <1>2, <1>6, <2>1
    <3>2. x \in Closes
      <4>1. <<o, x>>[2] \in Closes
        BY <3>1
      <4> QED BY <4>1
    <3> QED BY <1>5, <3>2
  <2> QED BY <1>6, <1>7, <2>1
<1> QED BY <1>6, <1>8, <1>9 DEF F, o, c

(* The block of a section: no mark up to its end, no fence that could begin one   *)
(* before it and none in it.                                                      *)
IsBlock(text, m, lines) ==
    \E open, close \in m + 1 .. Len(text) :
        /\ open < close
        /\ text[open].tok = "fence" /\ text[close].tok \in FenceTokens
        /\ \A i \in m + 1 .. close : text[i].tok \notin Paths
        /\ \A i \in m + 1 .. open - 1 : text[i].tok # "fence"
        /\ \A i \in open + 1 .. close - 1 : text[i].tok \notin FenceTokens
        /\ lines = [i \in 1 .. close - open - 1 |-> text[open + i].at]

LEMMA BlockOfSection ==
    ASSUME NEW text \in Seq(Token), NEW m, Whole(text, m)
    PROVE  IsBlock(text, m, Fenced(text, m))
<1> DEFINE o == FirstFence(text, m)
           c == SecondFence(text, m)
           F == Fences(text, m)
<1>1. /\ o \in F /\ c \in F /\ o < c /\ text[o].tok = "fence"
      /\ \A x \in F : (x < o => text[x].tok # "fence") /\ (x <= o \/ c <= x)
  BY FirstTwoFences
<1>2. /\ Len(text) \in Nat /\ m \in 1 .. Len(text)
      /\ o \in 1 .. Len(text) /\ c \in 1 .. Len(text)
      /\ m < o /\ m < c /\ text[c].tok \in FenceTokens
  BY <1>1, FencesArePlaces, TagsArePlaces DEF Whole
<1>3. Fenced(text, m) = [j \in 1 .. c - o - 1 |-> text[o + j].at]
  BY DEF Fenced, FirstFence, SecondFence
<1>4. \A k \in Marks(text) : k <= m \/ k > c
  BY <1>1 DEF Fences
<1>5. \A i \in 1 .. Len(text) :
        /\ i \in F <=> text[i].tok \in FenceTokens /\ i > m /\ \A k \in Marks(text) : k <= m \/ k > i
        /\ i \in Marks(text) <=> text[i].tok \in Paths
  BY DEF Fences, Marks
<1>6. \A k \in Marks(text) : k \in Nat
  BY FencesArePlaces
<1> HIDE DEF o, c, F
<1>7. ASSUME NEW i \in m + 1 .. c
      PROVE  /\ i \in 1 .. Len(text) /\ i > m /\ i <= c
             /\ text[i].tok \notin Paths
             /\ text[i].tok \in FenceTokens => i \in F
  <2>1. i \in 1 .. Len(text) /\ i > m /\ i <= c
    BY <1>2
  <2>2. \A k \in Marks(text) : k <= m \/ k > i
    BY <1>2, <1>4, <1>6, <2>1
  <2>3. i \notin Marks(text)
    BY <1>2, <2>1, <2>2
  <2> QED BY <1>5, <2>1, <2>2, <2>3
<1>8. ASSUME NEW i \in m + 1 .. o - 1
      PROVE  text[i].tok # "fence"
  <2>1. i \in m + 1 .. c /\ i < o
    BY <1>1, <1>2
  <2>2. "fence" \in FenceTokens
    BY DEF FenceTokens
  <2> QED BY <1>1, <1>7, <2>1, <2>2
<1>9. ASSUME NEW i \in o + 1 .. c - 1
      PROVE  text[i].tok \notin FenceTokens
  <2>1. i \in m + 1 .. c /\ o < i /\ i < c
    BY <1>1, <1>2
  <2>2. i \notin F
    BY <1>1, <1>2, <2>1
  <2> QED BY <1>7, <2>1, <2>2
<1>10. o \in m + 1 .. Len(text) /\ c \in m + 1 .. Len(text)
  BY <1>2
<1> QED BY <1>1, <1>2, <1>3, <1>7, <1>8, <1>9, <1>10 DEF IsBlock

(* The files found after every token of the text.                                 *)
Found(text) ==
    CHOOSE f : f = [m \in 0 .. Len(text) |->
        IF m = 0 THEN NoFiles
        ELSE IF m \in Marks(text) /\ Blocks(text, m) # {}
        THEN With(f[m - 1], text[m].tok, [mark |-> text[m].at, lines |-> Fenced(text, m)])
        ELSE f[m - 1]]

LEMMA FoundRecurs ==
    ASSUME NEW text \in Seq(Token)
    PROVE  /\ Extracted(text) = Found(text)[Len(text)]
           /\ \A m \in 0 .. Len(text) :
                Found(text)[m] =
                    IF m = 0 THEN NoFiles
                    ELSE IF Whole(text, m)
                    THEN With(Found(text)[m - 1], text[m].tok, Section(text, m))
                    ELSE Found(text)[m - 1]
<1> DEFINE n == Len(text)
           Sections == {Section(text, m) : m \in 1 .. n}
           V == UNION {[D -> Sections] : D \in SUBSET Paths}
           c == NoFiles
           step == [x \in (1 .. n) \X V |->
                       IF Whole(text, x[1]) THEN With(x[2], text[x[1]].tok, Section(text, x[1]))
                       ELSE x[2]]
           Is(f) == f = [m \in 0 .. n |->
                       IF m = 0 THEN NoFiles
                       ELSE IF Whole(text, m)
                       THEN With(f[m - 1], text[m].tok, Section(text, m)) ELSE f[m - 1]]
<1>1. n \in Nat
  BY TagsArePlaces
<1>2. c \in V
  <2>1. c \in [{} -> Sections]
    BY DEF NoFiles
  <2> HIDE DEF Sections, c
  <2> QED BY <2>1
<1>3. ASSUME NEW m \in 1 .. n, Whole(text, m), NEW f \in V
      PROVE  With(f, text[m].tok, Section(text, m)) \in V
  <2> DEFINE p == text[m].tok
             s == Section(text, m)
  <2>1. p \in Paths /\ s \in Sections
    BY <1>3, FencesArePlaces DEF Whole
  <2>2. PICK D \in SUBSET Paths : f \in [D -> Sections]
    BY <1>3
  <2> HIDE DEF p, s, Sections
  <2>3. With(f, p, s) \in [D \cup {p} -> Sections]
    BY <2>1, <2>2 DEF With
  <2>4. D \cup {p} \in SUBSET Paths
    BY <2>1
  <2>5. With(f, p, s) \in V
    BY <2>3, <2>4
  <2> HIDE DEF V
  <2> QED BY <2>5 DEF p, s
<1>4. step \in [(1 .. n) \X V -> V]
  <2> HIDE DEF V, n
  <2>1. ASSUME NEW x \in (1 .. n) \X V PROVE step[x] \in V
    <3>1. x[1] \in 1 .. n /\ x[2] \in V
      OBVIOUS
    <3> QED BY <1>3, <3>1
  <2>2. step = [x \in (1 .. n) \X V |-> step[x]]
    OBVIOUS
  <2> HIDE DEF step
  <2> QED BY <2>1, <2>2
<1>5. PICK f : Recurs(f, n, V, c, step)
  <2> HIDE DEF n, V, c, step
  <2> QED BY <1>1, <1>2, <1>4, Recursion
<1> HIDE DEF V
<1>6. Is(f)
  <2>1. ASSUME NEW m \in 0 .. n
        PROVE  f[m] = IF m = 0 THEN NoFiles
                      ELSE IF Whole(text, m)
                      THEN With(f[m - 1], text[m].tok, Section(text, m)) ELSE f[m - 1]
    <3>1. f[m] = IF m = 0 THEN c ELSE step[<<m, f[m - 1]>>]
      BY <1>5 DEF Recurs
    <3>2. ASSUME m # 0
          PROVE  step[<<m, f[m - 1]>>] =
                    IF Whole(text, m) THEN With(f[m - 1], text[m].tok, Section(text, m))
                    ELSE f[m - 1]
      <4>1. m \in 1 .. n /\ m - 1 \in 0 .. n
        BY <1>1, <3>2
      <4>2. f[m - 1] \in V
        BY <1>5, <4>1 DEF Recurs
      <4> HIDE DEF n
      <4> QED BY <4>1, <4>2
    <3> HIDE DEF step
    <3> QED BY <3>1, <3>2
  <2>2. f = [m \in 0 .. n |-> f[m]]
    <3> HIDE DEF n, c, step
    <3> QED BY <1>5 DEF Recurs
  <2> HIDE DEF n
  <2> QED BY <2>1, <2>2
<1>7. Is(Found(text))
  <2>1. \E h : Is(h)
    BY <1>6
  <2> QED BY <2>1 DEF Found, Whole, Section
<1>8. Extracted(text) = Found(text)[n]
  BY DEF Extracted, Found
<1> DEFINE g == Found(text)
<1> HIDE DEF g
<1>9. \A m \in 0 .. n :
        g[m] = IF m = 0 THEN NoFiles
               ELSE IF Whole(text, m)
               THEN With(g[m - 1], text[m].tok, Section(text, m)) ELSE g[m - 1]
  <2>1. g = [m \in 0 .. n |->
              IF m = 0 THEN NoFiles
              ELSE IF Whole(text, m)
              THEN With(g[m - 1], text[m].tok, Section(text, m)) ELSE g[m - 1]]
    BY <1>7 DEF g
  <2> HIDE DEF n
  <2> QED BY <2>1
<1> QED BY <1>8, <1>9 DEF g

(* Up to a place, under every path the last whole section, and nothing else.      *)
LastOfEach(text, found, n) ==
    /\ \A p : p \in DOMAIN found <=> \E k \in 1 .. n : Whole(text, k) /\ text[k].tok = p
    /\ \A p \in DOMAIN found : \E k \in 1 .. n :
          /\ Whole(text, k) /\ text[k].tok = p
          /\ found[p] = Section(text, k)
          /\ \A j \in 1 .. n : Whole(text, j) /\ text[j].tok = p => j <= k

LEMMA ExtractedIsLastOfEach ==
    ASSUME NEW text \in Seq(Token)
    PROVE  LastOfEach(text, Extracted(text), Len(text))
<1> DEFINE n == Len(text)
           g == Found(text)
           S == {m \in 0 .. n : LastOfEach(text, g[m], m)}
<1>1. n \in Nat
  BY TagsArePlaces
<1>2. /\ Extracted(text) = g[n]
      /\ \A m \in 0 .. n :
           g[m] = IF m = 0 THEN NoFiles
                  ELSE IF Whole(text, m)
                  THEN With(g[m - 1], text[m].tok, Section(text, m)) ELSE g[m - 1]
  BY FoundRecurs
<1> HIDE DEF g, n
<1>3. 0 \in S
  <2>1. g[0] = NoFiles /\ DOMAIN NoFiles = {}
    BY <1>1, <1>2 DEF NoFiles
  <2>2. LastOfEach(text, g[0], 0)
    BY <2>1 DEF LastOfEach
  <2> QED BY <1>1, <2>2
<1>4. ASSUME NEW m \in 0 .. n - 1, m \in S PROVE m + 1 \in S
  <2>1. m + 1 \in 0 .. n /\ m + 1 # 0 /\ (m + 1) - 1 = m /\ m \in Nat
    BY <1>1
  <2>2. LastOfEach(text, g[m], m)
    BY <1>4
  <2>3. \A k : k \in 1 .. m + 1 <=> k \in 1 .. m \/ k = m + 1
    BY <2>1
  <2>4. CASE ~ Whole(text, m + 1)
    <3>1. g[m + 1] = g[m]
      BY <1>2, <2>1, <2>4
    <3>2. LastOfEach(text, g[m + 1], m + 1)
      BY <2>2, <2>3, <2>4, <3>1 DEF LastOfEach
    <3> QED BY <2>1, <3>2
  <2>5. CASE Whole(text, m + 1)
    <3> DEFINE q == text[m + 1].tok
               f == g[m]
               h == g[m + 1]
    <3>1. h = With(f, q, Section(text, m + 1))
      BY <1>2, <2>1, <2>5
    <3> HIDE DEF q, f, h
    <3>2. DOMAIN h = DOMAIN f \cup {q}
      BY <3>1 DEF With
    <3>3. h[q] = Section(text, m + 1) /\ \A p \in DOMAIN f : p # q => h[p] = f[p]
      BY <3>1 DEF With
    <3>4. ASSUME NEW p
          PROVE  p \in DOMAIN h <=> \E k \in 1 .. m + 1 : Whole(text, k) /\ text[k].tok = p
      <4>1. p \in DOMAIN f <=> \E k \in 1 .. m : Whole(text, k) /\ text[k].tok = p
        BY <2>2 DEF LastOfEach, f
      <4> QED BY <2>3, <2>5, <3>2, <4>1 DEF q
    <3>5. ASSUME NEW p \in DOMAIN h
          PROVE  \E k \in 1 .. m + 1 :
                    /\ Whole(text, k) /\ text[k].tok = p
                    /\ h[p] = Section(text, k)
                    /\ \A j \in 1 .. m + 1 : Whole(text, j) /\ text[j].tok = p => j <= k
      <4>1. CASE p = q
        <5>1. \A j \in 1 .. m + 1 : j <= m + 1
          BY <2>1
        <5> QED BY <2>3, <2>5, <3>3, <4>1, <5>1 DEF q
      <4>2. CASE p # q
        <5>1. p \in DOMAIN f
          BY <3>2, <4>2
        <5>2. PICK k \in 1 .. m :
                /\ Whole(text, k) /\ text[k].tok = p
                /\ f[p] = Section(text, k)
                /\ \A j \in 1 .. m : Whole(text, j) /\ text[j].tok = p => j <= k
          BY <2>2, <5>1 DEF LastOfEach, f
        <5>3. \A j \in 1 .. m + 1 : Whole(text, j) /\ text[j].tok = p => j <= k
          BY <2>3, <4>2, <5>2 DEF q
        <5> QED BY <2>3, <3>3, <4>2, <5>1, <5>2, <5>3
      <4> QED BY <4>1, <4>2
    <3>6. LastOfEach(text, g[m + 1], m + 1)
      BY <3>4, <3>5 DEF LastOfEach, h
    <3> QED BY <2>1, <3>6
  <2> QED BY <2>4, <2>5
<1>5. n \in S
  <2> HIDE DEF S
  <2>1. 0 .. n \subseteq S /\ n \in 0 .. n
    BY <1>1, <1>3, <1>4, Induction
  <2> QED BY <2>1
<1> QED BY <1>2, <1>5 DEF n

--------------------------------------------------------------------------------
(* The types, and the files of the answer.                                        *)

(* What a mark, a fence and a line of a text are, in the terms of the stream it   *)
(* was selected from.                                                             *)
LEMMA SelectionHasTypes ==
    ASSUME NEW text \in Seq(Token), NEW places \in SUBSET (1 .. Len(text)), NEW s,
           Selects(s, text, places), NEW i \in 1 .. Len(s)
    PROVE  /\ s[i] \in Token /\ s[i].tok \in Tokens
           /\ s[i].at \in 1 .. Len(text) /\ s[i].at \in Nat
           /\ text[s[i].at] = s[i]
<1>1. s[i].at \in places /\ s[i] = text[s[i].at]
  BY DEF Selects
<1>2. Len(text) \in Nat
  BY TagsArePlaces
<1>3. s[i].at \in 1 .. Len(text) /\ s[i].at \in Nat
  <2>1. \A k \in places : k \in 1 .. Len(text) /\ k \in Nat
    BY <1>2
  <2> QED BY <1>1, <2>1
<1>4. s[i] \in Token
  <2>1. \A k \in 1 .. Len(text) : text[k] \in Token
    <3> HIDE DEF Token
    <3> QED OBVIOUS
  <2> HIDE DEF Token
  <2> QED BY <1>1, <1>3, <2>1, Zenon
<1> QED BY <1>1, <1>3, <1>4 DEF Token

(* The answer of a stage that has one.                                            *)
LEMMA IInvAnswerSelects ==
    ASSUME IInv, stage \in {"extract", "done"}
    PROVE  /\ (1 .. Len(content)) \ Excluded(content) \in SUBSET (1 .. Len(content))
           /\ Selects(answer, content, (1 .. Len(content)) \ Excluded(content))
           /\ answer \in Seq(Token)
BY AnswerIsTheRest DEF IInv, Selects

LEMMA IInvTypeOK == IInv => TypeOK
<1> SUFFICES ASSUME IInv PROVE TypeOK
  OBVIOUS
<1> DEFINE places == (1 .. Len(content)) \ Excluded(content)
<1>1. /\ content \in Seq(Token) /\ Placed(content) /\ Len(content) <= MaxTokens
      /\ Len(content) \in Nat
  BY TagsArePlaces DEF IInv
<1>2. TextType(content)
  <2> SUFFICES ASSUME NEW i \in 1 .. Len(content)
               PROVE  content[i].tok \in Tokens /\ content[i].at \in 1 .. Len(content)
    BY DEF TextType
  <2>1. content[i] \in Token
    <3> HIDE DEF Token
    <3> QED BY <1>1
  <2> QED BY <1>1, <2>1 DEF Placed, Token
<1>3. CASE stage \in {"extract", "done"}
  <2>1. Selects(answer, content, places) /\ answer \in Seq(Token)
    BY <1>3, IInvAnswerSelects
  <2>2. TextType(answer)
    <3> SUFFICES ASSUME NEW i \in 1 .. Len(answer)
                 PROVE  answer[i].tok \in Tokens /\ answer[i].at \in 1 .. Len(content)
      BY DEF TextType
    <3>1. places \in SUBSET (1 .. Len(content))
      OBVIOUS
    <3> HIDE DEF places
    <3> QED BY <1>1, <2>1, <3>1, SelectionHasTypes
  <2>3. thought \in 0 .. Len(content)
    BY <1>1, <1>3, LengthsAddUp DEF IInv
  <2>4. DOMAIN files \subseteq Paths
    <3>1. CASE stage = "extract"
      BY <3>1 DEF IInv, NoFiles
    <3>2. CASE stage = "done"
      <4>1. LastOfEach(answer, files, Len(answer))
        BY <2>1, <3>2, ExtractedIsLastOfEach DEF IInv
      <4>2. ASSUME NEW p \in DOMAIN files PROVE p \in Paths
        <5>1. PICK k \in 1 .. Len(answer) : Whole(answer, k) /\ answer[k].tok = p
          BY <4>1 DEF LastOfEach
        <5> QED BY <5>1 DEF Whole, Marks
      <4> QED BY <4>2
    <3> QED BY <1>3, <3>1, <3>2
  <2> QED BY <1>1, <1>2, <2>2, <2>3, <2>4 DEF IInv, TypeOK
<1>4. CASE stage \notin {"extract", "done"}
  <2>1. answer = <<>> /\ thought = 0 /\ files = NoFiles
    BY <1>4 DEF IInv
  <2>2. TextType(answer) /\ DOMAIN files \subseteq Paths /\ thought \in 0 .. Len(content)
    BY <1>1, <2>1 DEF TextType, NoFiles
  <2> QED BY <1>1, <1>2, <2>2 DEF IInv, TypeOK
<1> QED BY <1>3, <1>4

(* The state of an answer on its way through the two passes is always of its      *)
(* type: what is kept of the stream are tokens of the stream.                     *)
THEOREM TypeCorrect == Spec => []TypeOK
BY IInvTypeOK, SpecIInv, PTL

(* A selection keeps the order of the stream, both ways.                          *)
LEMMA SelectionKeepsOrder ==
    ASSUME NEW text \in Seq(Token), NEW places \in SUBSET (1 .. Len(text)), NEW s,
           Selects(s, text, places), NEW i \in 1 .. Len(s), NEW j \in 1 .. Len(s)
    PROVE  /\ s[i].at < s[j].at <=> i < j
           /\ s[i].at <= s[j].at <=> i <= j
<1>1. s[i].at \in Nat /\ s[j].at \in Nat
  BY SelectionHasTypes
<1>2. i < j => s[i].at < s[j].at
  BY DEF Selects
<1>3. j < i => s[j].at < s[i].at
  BY DEF Selects
<1>4. i \in Int /\ j \in Int
  BY DEF Selects
<1> QED BY <1>1, <1>2, <1>3, <1>4

LEMMA IInvFiles == IInv => FilesAreLastBlocks
<1> SUFFICES ASSUME IInv, stage = "done" PROVE FilesAreLastBlocks
  BY DEF FilesAreLastBlocks
<1>1. answer \in Seq(Token)
  BY IInvAnswerSelects
<1>2. LastOfEach(answer, files, Len(answer))
  BY <1>1, ExtractedIsLastOfEach DEF IInv
<1>3. /\ Marks(answer) \subseteq 1 .. Len(answer)
      /\ \A m \in Marks(answer) : Complete(m) <=> Whole(answer, m)
  BY <1>1, FencesArePlaces DEF Complete, Whole
<1>4. DOMAIN files = {answer[m].tok : m \in {m \in Marks(answer) : Complete(m)}}
  <2>1. \A p : p \in DOMAIN files <=>
                 \E k \in 1 .. Len(answer) : Whole(answer, k) /\ answer[k].tok = p
    BY <1>2 DEF LastOfEach
  <2>2. \A k : Whole(answer, k) => k \in Marks(answer)
    BY DEF Whole
  <2> QED BY <1>3, <2>1, <2>2
<1>5. ASSUME NEW p \in DOMAIN files
      PROVE  \E m \in Places(answer, p) :
                /\ answer[m].at = files[p].mark
                /\ \A k \in Places(answer, p) : Complete(k) => k <= m
                /\ IsBlock(answer, m, files[p].lines)
  <2>1. PICK k \in 1 .. Len(answer) :
          /\ Whole(answer, k) /\ answer[k].tok = p
          /\ files[p] = Section(answer, k)
          /\ \A j \in 1 .. Len(answer) : Whole(answer, j) /\ answer[j].tok = p => j <= k
    BY <1>2, <1>5 DEF LastOfEach
  <2>2. files[p].mark = answer[k].at /\ files[p].lines = Fenced(answer, k)
    BY <2>1 DEF Section
  <2>3. ASSUME NEW m \in Places(answer, p), Complete(m) PROVE m <= k
    <3>1. m \in 1 .. Len(answer) /\ answer[m].tok = p
      BY DEF Places
    <3>2. p \in Paths
      BY <1>3, <2>1 DEF Whole, Marks
    <3>3. Whole(answer, m)
      BY <1>3, <2>3, <3>1, <3>2 DEF Marks
    <3> QED BY <2>1, <3>1, <3>3
  <2>4. k \in Places(answer, p)
    BY <2>1 DEF Places
  <2>5. IsBlock(answer, k, files[p].lines)
    BY <1>1, <2>1, <2>2, BlockOfSection
  <2> QED BY <2>2, <2>3, <2>4, <2>5, Zenon
<1> QED BY <1>4, <1>5, Zenon DEF FilesAreLastBlocks, IsBlock

(* The file under a path is that of its last section with a fenced block: every   *)
(* line between the fence that begins the block and the next one, and no other,   *)
(* for every answer: no section in between and no other path's lines get into it. *)
THEOREM LastBlocksWin == Spec => []FilesAreLastBlocks
BY IInvFiles, SpecIInv, PTL

--------------------------------------------------------------------------------
(* A stream that goes on.                                                         *)

(* One text continues another; so do the parts selected from them.                *)
Continues(longer, text) ==
    /\ longer \in Seq(Token) /\ text \in Seq(Token)
    /\ Len(text) <= Len(longer)
    /\ \A k \in 1 .. Len(text) : longer[k] = text[k]

(* What comes later does not change whether a token was a thought.                *)
LEMMA ThoughtsStay ==
    ASSUME NEW longer, NEW text, Continues(longer, text),
           NEW k \in 1 .. Len(text)
    PROVE  k \in 1 .. Len(longer) /\ (k \in Thoughts(longer) <=> k \in Thoughts(text))
<1>1. /\ Len(text) \in Nat /\ Len(longer) \in Nat /\ Len(text) <= Len(longer)
      /\ longer \in Seq(Token) /\ text \in Seq(Token)
  BY TagsArePlaces DEF Continues
<1>2. k \in 1 .. Len(longer)
  BY <1>1
<1>3. \A j \in 1 .. k : /\ j \in Openers(longer) <=> j \in Openers(text)
                        /\ j \in Closers(longer) <=> j \in Closers(text)
  <2>1. \A j \in 1 .. k : /\ j \in 1 .. Len(text) /\ j \in 1 .. Len(longer)
                          /\ longer[j].tok = text[j].tok
    BY <1>1 DEF Continues
  <2> QED BY <2>1 DEF Openers, Closers, Places
<1>4. /\ \A o \in Openers(longer) \cup Openers(text) : o <= k => o \in 1 .. k
      /\ \A c \in Closers(longer) \cup Closers(text) : c < k => c \in 1 .. k
  BY <1>1, TagsArePlaces
<1>5. InBlock(longer, k) <=> InBlock(text, k)
  BY <1>3, <1>4 DEF InBlock
<1> QED BY <1>1, <1>2, <1>5, ThoughtsAreInBlocks

(* A closing tag that closes nothing still closes nothing when more has come.     *)
LEMMA NoOrphanBefore ==
    ASSUME NEW longer, NEW text, Continues(longer, text), Orphans(longer) = {}
    PROVE  Orphans(text) = {}
<1> SUFFICES ASSUME NEW c \in Orphans(text) PROVE FALSE
  OBVIOUS
<1>1. c \in 1 .. Len(text) /\ text[c].tok = "</think>" /\ c \notin Thoughts(text)
  BY DEF Orphans, Places
<1>2. /\ c \in 1 .. Len(longer) /\ longer[c].tok = "</think>"
      /\ c \notin Thoughts(longer)
  BY <1>1, ThoughtsStay DEF Continues
<1> QED BY <1>2 DEF Orphans, Places

(* A section that is whole stays whole in whatever the text grows into: a later   *)
(* mark cannot come between the mark and its fences.                              *)
LEMMA WholeSectionsStay ==
    ASSUME NEW longer, NEW text, Continues(longer, text),
           NEW later \in SUBSET (1 .. Len(longer)), NEW u, Selects(u, longer, later),
           NEW places \in SUBSET (1 .. Len(text)), NEW s, Selects(s, text, places),
           \A k \in 1 .. Len(text) : k \in later <=> k \in places,
           NEW m \in 1 .. Len(s), Whole(s, m)
    PROVE  \E n \in 1 .. Len(u) : u[n] = s[m] /\ Whole(u, n)
<1>1. /\ longer \in Seq(Token) /\ text \in Seq(Token)
      /\ u \in Seq(Token) /\ s \in Seq(Token)
      /\ Len(text) \in Nat
  BY TagsArePlaces DEF Continues, Selects
<1>2. ASSUME NEW i \in 1 .. Len(s) PROVE \E j \in 1 .. Len(u) : u[j] = s[i]
  <2>1. s[i].at \in 1 .. Len(text) /\ text[s[i].at] = s[i] /\ s[i].at \in places
    BY <1>1, SelectionHasTypes DEF Selects
  <2>2. PICK j \in 1 .. Len(u) : u[j].at = s[i].at
    BY <2>1 DEF Selects
  <2>3. u[j] = longer[u[j].at]
    BY DEF Selects
  <2> QED BY <2>1, <2>2, <2>3 DEF Continues
<1>3. ASSUME NEW j \in 1 .. Len(u), u[j].at <= Len(text)
      PROVE  \E i \in 1 .. Len(s) : s[i] = u[j]
  <2>1. u[j].at \in 1 .. Len(longer) /\ longer[u[j].at] = u[j] /\ u[j].at \in later
    BY <1>1, SelectionHasTypes DEF Selects
  <2>2. u[j].at \in 1 .. Len(text) /\ u[j].at \in places
    BY <1>1, <1>3, <2>1
  <2>3. PICK i \in 1 .. Len(s) : s[i].at = u[j].at
    BY <2>2 DEF Selects
  <2>4. s[i] = text[s[i].at]
    BY DEF Selects
  <2> QED BY <2>1, <2>2, <2>3, <2>4 DEF Continues
<1>4. PICK n \in 1 .. Len(u) : u[n] = s[m]
  BY <1>2
<1>5. n \in Marks(u)
  BY <1>4 DEF Whole, Marks
<1>6. ASSUME NEW i \in Fences(s, m), NEW j \in 1 .. Len(u), u[j] = s[i]
      PROVE  j \in Fences(u, n)
  <2>1. /\ i \in 1 .. Len(s) /\ s[i].tok \in FenceTokens /\ m < i
        /\ \A k \in Marks(s) : k <= m \/ i < k
    BY <1>1, FencesArePlaces DEF Fences
  <2>2. u[j].tok \in FenceTokens
    BY <1>6, <2>1
  <2>3. n < j
    <3>1. s[m].at < s[i].at
      BY <1>1, <2>1, SelectionKeepsOrder
    <3>2. u[n].at < u[j].at
      BY <1>4, <1>6, <3>1
    <3> QED BY <1>1, <3>2, SelectionKeepsOrder
  <2>4. ASSUME NEW k \in Marks(u) PROVE k <= n \/ j < k
    <3>1. k \in 1 .. Len(u) /\ u[k].tok \in Paths
      BY DEF Marks
    <3>2. u[k].at \in Nat /\ u[j].at \in Nat /\ u[j].at \in 1 .. Len(text)
      BY <1>1, <1>6, <2>1, <3>1, SelectionHasTypes
    <3>3. CASE u[k].at <= Len(text)
      <4>1. PICK h \in 1 .. Len(s) : s[h] = u[k]
        BY <1>3, <3>1, <3>3
      <4>2. h \in Marks(s)
        BY <3>1, <4>1 DEF Marks
      <4>3. CASE h <= m
        <5>1. s[h].at <= s[m].at
          BY <1>1, <4>3, SelectionKeepsOrder
        <5>2. u[k].at <= u[n].at
          BY <1>4, <4>1, <5>1
        <5> QED BY <1>1, <3>1, <5>2, SelectionKeepsOrder
      <4>4. CASE i < h
        <5>1. s[i].at < s[h].at
          BY <1>1, <2>1, <4>4, SelectionKeepsOrder
        <5>2. u[j].at < u[k].at
          BY <1>6, <4>1, <5>1
        <5> QED BY <1>1, <3>1, <5>2, SelectionKeepsOrder
      <4> QED BY <2>1, <4>2, <4>3, <4>4
    <3>4. CASE ~ (u[k].at <= Len(text))
      <4>1. u[j].at < u[k].at
        BY <1>1, <3>2, <3>4
      <4> QED BY <1>1, <3>1, <4>1, SelectionKeepsOrder
    <3> QED BY <3>3, <3>4
  <2> QED BY <2>2, <2>3, <2>4 DEF Fences
<1>7. PICK a \in Fences(s, m), b \in Fences(s, m) : a < b /\ s[a].tok = "fence"
  BY <1>1, FirstTwoFences
<1>8. /\ a \in 1 .. Len(s) /\ b \in 1 .. Len(s)
      /\ s[a].at < s[b].at
  <2>1. a \in 1 .. Len(s) /\ b \in 1 .. Len(s)
    BY <1>1, FencesArePlaces
  <2> QED BY <1>1, <1>7, <2>1, SelectionKeepsOrder
<1>9. PICK c \in 1 .. Len(u), d \in 1 .. Len(u) : u[c] = s[a] /\ u[d] = s[b]
  BY <1>2, <1>8
<1>10. c < d
  <2>1. u[c].at < u[d].at
    BY <1>8, <1>9
  <2> QED BY <1>1, <1>9, <2>1, SelectionKeepsOrder
<1>11. Whole(u, n)
  <2>1. c \in Fences(u, n) /\ d \in Fences(u, n)
    BY <1>6, <1>7, <1>9
  <2>2. u[c].tok = "fence"
    BY <1>7, <1>9
  <2> QED BY <1>1, <1>5, <1>10, <2>1, <2>2, TwoFencesSuffice
<1> QED BY <1>4, <1>11

(* WouldBe extracts from what Split would leave.                                  *)
LEMMA WouldBeOfAnswer ==
    ASSUME NEW text \in Seq(Token), Placed(text)
    PROVE  WouldBe(text) = Extracted(AnswerOf(text))
<1> DEFINE rest == Substituted(text)
<1>1. CASE Dangling(rest)
  BY <1>1 DEF WouldBe, AnswerOf, Cut
<1>2. CASE ~ Dangling(rest)
  <2>1. rest \in Seq(Token) /\ Len(rest) \in Nat
    BY AnswerIsTheRest, TagsArePlaces
  <2>2. AnswerOf(text) = SubSeq(rest, 1, (Len(rest) + 1) - 1)
    BY <1>2 DEF AnswerOf, Cut
  <2>3. AnswerOf(text) = rest
    <3> HIDE DEF Token, rest
    <3> QED BY <2>1, <2>2
  <2>4. WouldBe(text) = Extracted(rest)
    BY <1>2 DEF WouldBe
  <2> QED BY <2>3, <2>4
<1> QED BY <1>1, <1>2

(* What would be extracted is never taken back.                                   *)
LEMMA FilesStay ==
    ASSUME NEW longer, NEW text, Continues(longer, text),
           Placed(longer), Placed(text), Orphans(longer) = {},
           NEW p \in DOMAIN WouldBe(text)
    PROVE  /\ p \in DOMAIN WouldBe(longer)
           /\ WouldBe(longer)[p].mark >= WouldBe(text)[p].mark
<1> DEFINE u == AnswerOf(longer)
           s == AnswerOf(text)
           later == (1 .. Len(longer)) \ Excluded(longer)
           places == (1 .. Len(text)) \ Excluded(text)
           f == WouldBe(longer)
           g == WouldBe(text)
<1>1. longer \in Seq(Token) /\ text \in Seq(Token)
  BY DEF Continues
<1>2. /\ later \in SUBSET (1 .. Len(longer)) /\ Selects(u, longer, later)
      /\ places \in SUBSET (1 .. Len(text)) /\ Selects(s, text, places)
  BY <1>1, AnswerIsTheRest
<1>3. /\ u \in Seq(Token) /\ s \in Seq(Token)
      /\ Len(u) \in Nat
  BY <1>2, TagsArePlaces DEF Selects
<1>4. ASSUME NEW k \in 1 .. Len(text) PROVE k \in later <=> k \in places
  <2>1. Excluded(longer) = Thoughts(longer) /\ Excluded(text) = Thoughts(text)
    BY NoOrphanBefore DEF Excluded
  <2>2. k \in 1 .. Len(longer) /\ (k \in Thoughts(longer) <=> k \in Thoughts(text))
    BY ThoughtsStay
  <2> QED BY <2>1, <2>2
<1>5. LastOfEach(u, f, Len(u)) /\ LastOfEach(s, g, Len(s))
  BY <1>1, <1>3, WouldBeOfAnswer, ExtractedIsLastOfEach
<1> HIDE DEF u, s, later, places, f, g
<1>6. p \in DOMAIN g
  BY DEF g
<1>7. PICK m \in 1 .. Len(s) :
        Whole(s, m) /\ s[m].tok = p /\ g[p] = Section(s, m)
  BY <1>5, <1>6 DEF LastOfEach
<1>8. PICK n \in 1 .. Len(u) : u[n] = s[m] /\ Whole(u, n)
  BY <1>2, <1>4, <1>7, WholeSectionsStay
<1>9. p \in DOMAIN f
  BY <1>5, <1>7, <1>8 DEF LastOfEach
<1>10. PICK k \in 1 .. Len(u) :
         /\ f[p] = Section(u, k)
         /\ \A j \in 1 .. Len(u) : Whole(u, j) /\ u[j].tok = p => j <= k
  BY <1>5, <1>9 DEF LastOfEach
<1>11. n <= k
  BY <1>7, <1>8, <1>10
<1>12. /\ u[n].at <= u[k].at /\ u[n].at \in Nat /\ u[k].at \in Nat
  BY <1>1, <1>2, <1>11, SelectionKeepsOrder, SelectionHasTypes
<1>13. f[p].mark = u[k].at /\ g[p].mark = u[n].at
  BY <1>7, <1>8, <1>10 DEF Section
<1> QED BY <1>9, <1>12, <1>13 DEF f, g

LEMMA NextFiles ==
    IInv /\ [Next]_vars =>
        [ Orphans(content') = {} =>
            \A p \in DOMAIN WouldBe(content) :
                /\ p \in DOMAIN WouldBe(content')
                /\ WouldBe(content')[p].mark >= WouldBe(content)[p].mark ]_content
<1> SUFFICES ASSUME IInv, [Next]_vars, content' # content, Orphans(content') = {},
                    NEW p \in DOMAIN WouldBe(content)
             PROVE  /\ p \in DOMAIN WouldBe(content')
                    /\ WouldBe(content')[p].mark >= WouldBe(content)[p].mark
  OBVIOUS
<1>1. ContentDelta
  BY DEF Next, vars, ReasoningDelta, StreamEnds, StreamRaises, Split, Extract
<1>2. /\ content \in Seq(Token) /\ Placed(content) /\ Len(content) \in Nat
      /\ content' \in Seq(Token) /\ Placed(content')
  BY NextIInv, TagsArePlaces DEF IInv
<1>3. Continues(content', content)
  <2>1. PICK x : content' = Append(content, x) /\ x \in Token
    <3>1. PICK t \in Tokens : content' = Append(content, [tok |-> t, at |-> Len(content) + 1])
      BY <1>1 DEF ContentDelta
    <3>2. [tok |-> t, at |-> Len(content) + 1] \in Token
      BY <1>2 DEF Token
    <3> QED BY <3>1, <3>2
  <2>2. /\ Len(content') = Len(content) + 1
        /\ \A k \in 1 .. Len(content) : content'[k] = content[k]
    <3> HIDE DEF Token
    <3> QED BY <1>2, <2>1
  <2> QED BY <1>2, <2>2 DEF Continues
<1> QED BY <1>2, <1>3, FilesStay

(* Whatever more of the stream arrives, a file that could be extracted before can *)
(* be extracted after it, from the same section or a later one.                   *)
THEOREM NoFileIsTakenBack == Spec => FilesAccumulate
BY SpecIInv, NextFiles, PTL DEF Spec, FilesAccumulate

================================================================================
