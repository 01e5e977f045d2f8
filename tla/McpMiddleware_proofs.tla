------------------------- MODULE McpMiddleware_proofs -------------------------
(***************************************************************************)
(* The two MCP middlewares, proved for any servers, tools and names, any   *)
(* scripts of the agent, any number of runs, rounds and invocations and    *)
(* any capacity of the channel.                                            *)
(*                                                                         *)
(* First the operators: what Picked, CallsIn, GetOpenToolCalls, Ours,      *)
(* ReconstructMessages and Conversation make of a conversation.            *)
(* ReconstructMessages goes over the events one by one; Built, Whole and   *)
(* ArgsBuilt say what it has built of the first i of them.                 *)
(*                                                                         *)
(* Then the invariants, each resting on those before: the types; the ids   *)
(* of calls, wherever a call is (IdsOk); their arguments (ArgsInOrder);    *)
(* the run the client sees (RunIsOne); the results (ResultsOnce); that no  *)
(* call is lost on its way from the agent into the conversation            *)
(* (TextsWait, NothingLost) nor left unanswered there (OpenOk,             *)
(* AllAnswered).                                                           *)
(***************************************************************************)
EXTENDS McpMiddleware, FiniteSetTheorems, SequenceTheorems, WellFoundedInduction, TLAPS

\* A sequence, of whatever it has.
IsSeq(s) == s \in Seq({s[i] : i \in DOMAIN s})

-----------------------------------------------------------------------------
(* Sequences of anything.                                                  *)

\* A set of numbers that has 0, and with each number the next, has all of them up to n.
LEMMA UpTo ==
  ASSUME NEW n \in Nat, NEW S, 0 \in S, \A i \in 1..n : i - 1 \in S => i \in S
  PROVE  \A i \in 0..n : i \in S
<1> DEFINE not == {i \in 0..n : i \notin S}
<1> SUFFICES ASSUME not # {} PROVE FALSE
  OBVIOUS
<1>1. not \subseteq Nat
  OBVIOUS
<1>2. PICK m \in not : \A y \in not : ~(<<y, m>> \in OpToRel(<, Nat))
  BY <1>1, NatLessThanWellFounded, WFMin
<1>3. m \in 1..n /\ m - 1 \in 0..n /\ m - 1 < m /\ m \in Nat /\ m - 1 \in Nat
  OBVIOUS
<1>4. <<m - 1, m>> \in OpToRel(<, Nat) <=> m - 1 < m
  BY <1>3, Zenon DEF OpToRel
<1>5. m - 1 \in S
  BY <1>2, <1>3, <1>4
<1> QED
  BY <1>3, <1>5

\* The places of a sequence are the numbers up to its length.
LEMMA SeqFacts ==
  ASSUME NEW s, IsSeq(s)
  PROVE  Len(s) \in Nat /\ DOMAIN s = 1..Len(s) /\ IsFiniteSet(DOMAIN s)
<1>1. Len(s) \in Nat /\ DOMAIN s = 1..Len(s)
  BY DEF IsSeq
<1> QED
  BY <1>1, FS_Interval

\* A function on the first numbers is a sequence.
LEMMA FunctionIsSeq ==
  ASSUME NEW n \in Nat, NEW s, s = [i \in 1..n |-> s[i]]
  PROVE  IsSeq(s) /\ Len(s) = n
<1>1. s \in [1..n -> {s[i] : i \in DOMAIN s}]
  OBVIOUS
<1>2. s \in Seq({s[i] : i \in DOMAIN s})
  BY <1>1, SeqDef
<1> QED
  BY <1>1, <1>2, LenProperties DEF IsSeq

\* A sequence in Seq of some set is one.
LEMMA InSeqIsSeq ==
  ASSUME NEW S, NEW s \in Seq(S)
  PROVE  IsSeq(s)
<1>1. s = [i \in 1..Len(s) |-> s[i]] /\ Len(s) \in Nat
  OBVIOUS
<1> QED
  BY <1>1, FunctionIsSeq

\* The empty one.
LEMMA EmptyIsSeq == IsSeq(<<>>) /\ DOMAIN <<>> = {} /\ Len(<<>>) = 0
<1>1. IsSeq(<<>>) /\ Len(<<>>) = 0
  BY DEF IsSeq
<1> QED
  BY <1>1, SeqFacts

\* A sequence without places is empty.
LEMMA NoPlaces ==
  ASSUME NEW s, IsSeq(s)
  PROVE  /\ (s = <<>>) <=> (DOMAIN s = {})
         /\ (s = <<>>) <=> (Len(s) = 0)
<1>1. s \in Seq({s[i] : i \in DOMAIN s})
  BY DEF IsSeq
<1>2. (s = <<>>) <=> (Len(s) = 0)
  BY <1>1, EmptySeq
<1>3. (DOMAIN s = {}) <=> (Len(s) = 0)
  BY SeqFacts
<1> QED
  BY <1>2, <1>3

\* One more element.
LEMMA AppendIsSeq ==
  ASSUME NEW s, IsSeq(s), NEW x
  PROVE  /\ IsSeq(Append(s, x)) /\ Len(Append(s, x)) = Len(s) + 1
         /\ DOMAIN Append(s, x) = DOMAIN s \cup {Len(s) + 1} /\ Len(s) + 1 \notin DOMAIN s
         /\ Append(s, x)[Len(s) + 1] = x
         /\ \A i \in DOMAIN s : Append(s, x)[i] = s[i]
<1> DEFINE W == {s[i] : i \in DOMAIN s} \cup {x}
           a == Append(s, x)
<1>1. s \in Seq(W) /\ x \in W
  <2>1. {s[i] : i \in DOMAIN s} \subseteq W
    OBVIOUS
  <2> QED
    BY <2>1 DEF IsSeq
<1> HIDE DEF W
<1>2. /\ a \in Seq(W) /\ Len(a) = Len(s) + 1 /\ Len(s) \in Nat /\ DOMAIN s = 1..Len(s)
      /\ DOMAIN a = 1..(Len(s) + 1) /\ a[Len(s) + 1] = x /\ \A i \in DOMAIN s : a[i] = s[i]
  BY <1>1
<1>3. IsSeq(a)
  BY <1>2, InSeqIsSeq
<1> HIDE DEF a
<1> QED
  BY <1>2, <1>3 DEF a

\* Two in a row.
LEMMA ConcatIsSeq ==
  ASSUME NEW s, IsSeq(s), NEW r, IsSeq(r)
  PROVE  /\ IsSeq(s \o r) /\ Len(s \o r) = Len(s) + Len(r)
         /\ \A i \in 1..Len(s) : (s \o r)[i] = s[i]
         /\ \A i \in 1..Len(r) : (s \o r)[Len(s) + i] = r[i]
         /\ \A i \in DOMAIN (s \o r) : i \in 1..Len(s) \/ (i - Len(s) \in 1..Len(r) /\ i = Len(s) + (i - Len(s)))
<1> DEFINE W == {s[i] : i \in DOMAIN s} \cup {r[i] : i \in DOMAIN r}
           a == s \o r
<1>1. s \in Seq(W) /\ r \in Seq(W)
  <2>1. {s[i] : i \in DOMAIN s} \subseteq W /\ {r[i] : i \in DOMAIN r} \subseteq W
    OBVIOUS
  <2> QED
    BY <2>1 DEF IsSeq
<1> HIDE DEF W
<1>2. /\ a \in Seq(W) /\ Len(a) = Len(s) + Len(r) /\ Len(s) \in Nat /\ Len(r) \in Nat
      /\ \A i \in 1..(Len(s) + Len(r)) : a[i] = IF i <= Len(s) THEN s[i] ELSE r[i - Len(s)]
  BY <1>1, ConcatProperties
<1> HIDE DEF a
<1>3. IsSeq(a) /\ DOMAIN a = 1..(Len(s) + Len(r))
  BY <1>1, <1>2, InSeqIsSeq, SeqFacts
<1>4. \A i \in 1..Len(s) : a[i] = s[i]
  BY <1>2
<1>5. ASSUME NEW i \in 1..Len(r) PROVE a[Len(s) + i] = r[i]
  <2>1. Len(s) + i \in 1..(Len(s) + Len(r)) /\ ~(Len(s) + i <= Len(s)) /\ (Len(s) + i) - Len(s) = i
    BY <1>2
  <2> QED
    BY <1>2, <2>1
<1>6. \A i \in DOMAIN a : i \in 1..Len(s) \/ (i - Len(s) \in 1..Len(r) /\ i = Len(s) + (i - Len(s)))
  BY <1>2, <1>3
<1> QED
  BY <1>2, <1>3, <1>4, <1>5, <1>6 DEF a

\* All but the first.
LEMMA TailIsSeq ==
  ASSUME NEW s, IsSeq(s), s # <<>>
  PROVE  /\ IsSeq(Tail(s)) /\ Len(Tail(s)) = Len(s) - 1 /\ 1 \in DOMAIN s
         /\ \A i \in DOMAIN Tail(s) : i + 1 \in DOMAIN s /\ Tail(s)[i] = s[i + 1]
         /\ \A i \in DOMAIN s : i # 1 => i - 1 \in DOMAIN Tail(s) /\ Tail(s)[i - 1] = s[i]
<1> DEFINE W == {s[i] : i \in DOMAIN s}
           a == Tail(s)
<1>1. s \in Seq(W) /\ Len(s) \in Nat /\ DOMAIN s = 1..Len(s) /\ Len(s) # 0
  BY SeqFacts, NoPlaces DEF IsSeq
<1> HIDE DEF W
<1>2. a \in Seq(W) /\ Len(a) = Len(s) - 1 /\ \A i \in 1..Len(a) : a[i] = s[i + 1]
  BY <1>1
<1> HIDE DEF a
<1>3. IsSeq(a) /\ DOMAIN a = 1..(Len(s) - 1)
  BY <1>1, <1>2, InSeqIsSeq, SeqFacts
<1>4. \A i \in DOMAIN a : i + 1 \in DOMAIN s /\ a[i] = s[i + 1]
  BY <1>1, <1>2, <1>3
<1>5. ASSUME NEW i \in DOMAIN s, i # 1 PROVE i - 1 \in DOMAIN a /\ a[i - 1] = s[i]
  <2>1. i - 1 \in DOMAIN a /\ (i - 1) + 1 = i
    BY <1>1, <1>3, <1>5
  <2> QED
    BY <1>4, <2>1
<1> QED
  BY <1>1, <1>2, <1>3, <1>4, <1>5 DEF a

\* The first n of it.
LEMMA PrefixIsSeq ==
  ASSUME NEW s, IsSeq(s), NEW n \in 0..Len(s)
  PROVE  IsSeq(SubSeq(s, 1, n)) /\ DOMAIN SubSeq(s, 1, n) = 1..n /\ \A i \in 1..n : SubSeq(s, 1, n)[i] = s[i]
<1> DEFINE W == {s[i] : i \in DOMAIN s}
           a == SubSeq(s, 1, n)
<1>1. s \in Seq(W) /\ Len(s) \in Nat
  BY SeqFacts DEF IsSeq
<1> HIDE DEF W
<1>2. a \in Seq(W) /\ Len(a) = n /\ \A i \in 1..n : a[i] = s[i]
  BY <1>1
<1> HIDE DEF a
<1>3. IsSeq(a) /\ DOMAIN a = 1..n
  BY <1>1, <1>2, InSeqIsSeq, SeqFacts
<1> QED
  BY <1>2, <1>3 DEF a
-----------------------------------------------------------------------------
(* Picked: the elements at some places.                                    *)

\* The recursive function in Picked, as far as n.
IsPicking(g, n, s, places) ==
  g = [i \in 0..n |-> IF i = 0 THEN <<>> ELSE IF i \in places THEN Append(g[i - 1], s[i]) ELSE g[i - 1]]

\* There is one.
LEMMA PickingExists ==
  ASSUME NEW s, NEW places, NEW n \in Nat
  PROVE  \E g : IsPicking(g, n, s, places)
<1> DEFINE S == {m \in 0..n : \E g : IsPicking(g, m, s, places)}
<1>1. 0 \in S
  <2> DEFINE g == [i \in 0..0 |-> <<>>]
  <2>1. IsPicking(g, 0, s, places)
    BY DEF IsPicking
  <2> QED
    BY <2>1
<1>2. ASSUME NEW m \in 1..n, m - 1 \in S PROVE m \in S
  <2>1. m - 1 \in Nat /\ m \in Nat
    OBVIOUS
  <2>2. PICK f : IsPicking(f, m - 1, s, places)
    BY <1>2
  <2> DEFINE next == IF m \in places THEN Append(f[m - 1], s[m]) ELSE f[m - 1]
             g == [i \in 0..m |-> IF i = m THEN next ELSE f[i]]
  <2>3. f[0] = <<>> /\ \A i \in 1..(m - 1) : f[i] = IF i \in places THEN Append(f[i - 1], s[i]) ELSE f[i - 1]
    <3>1. \A i \in 0..(m - 1) : f[i] = IF i = 0 THEN <<>> ELSE IF i \in places THEN Append(f[i - 1], s[i]) ELSE f[i - 1]
      BY <2>2 DEF IsPicking
    <3> QED
      BY <2>1, <3>1
  <2>4. ASSUME NEW i \in 0..m
        PROVE  g[i] = IF i = 0 THEN <<>> ELSE IF i \in places THEN Append(g[i - 1], s[i]) ELSE g[i - 1]
    <3>1. CASE i = 0
      BY <2>1, <2>3, <3>1
    <3>2. CASE i # 0 /\ i # m
      <4>1. i \in 1..(m - 1) /\ i - 1 \in 0..m /\ i - 1 # m
        BY <2>1, <3>2
      <4> QED
        BY <2>3, <3>2, <4>1
    <3>3. CASE i = m
      <4>1. m - 1 \in 0..m /\ m - 1 # m /\ m # 0
        BY <2>1
      <4> QED
        BY <3>3, <4>1
    <3> QED
      BY <3>1, <3>2, <3>3
  <2>5. g = [i \in 0..m |-> g[i]]
    OBVIOUS
  <2> HIDE DEF g
  <2>6. IsPicking(g, m, s, places)
    BY <2>4, <2>5 DEF IsPicking
  <2> QED
    BY <2>6
<1> HIDE DEF S
<1>3. n \in S
  BY <1>1, <1>2, UpTo
<1> QED
  BY <1>3 DEF S

\* f says for each place of r which place of s it was taken from.
Picks(r, f, n, s, places) ==
  /\ IsSeq(r)
  /\ \A k \in DOMAIN r : f[k] \in 1..n /\ f[k] \in places /\ r[k] = s[f[k]]
  /\ \A k, l \in DOMAIN r : f[k] = f[l] => k = l
  /\ \A i \in 1..n : i \in places => \E k \in DOMAIN r : f[k] = i

\* One more element, which is picked or not.
LEMMA PickOneMore ==
  ASSUME NEW r, NEW f, NEW s, NEW places, NEW n \in Nat, Picks(r, f, n, s, places)
  PROVE  IF n + 1 \in places THEN \E h : Picks(Append(r, s[n + 1]), h, n + 1, s, places)
         ELSE Picks(r, f, n + 1, s, places)
<1>1. CASE n + 1 \notin places
  <2>1. \A i \in 1..(n + 1) : i \in places => i \in 1..n
    BY <1>1
  <2>2. \A i \in 1..n : i \in 1..(n + 1)
    OBVIOUS
  <2> QED
    BY <1>1, <2>1, <2>2 DEF Picks
<1>2. CASE n + 1 \in places
  <2> DEFINE m == Len(r) + 1
             h == [k \in 1..m |-> IF k = m THEN n + 1 ELSE f[k]]
             a == Append(r, s[n + 1])
  <2>1. IsSeq(r) /\ Len(r) \in Nat /\ DOMAIN r = 1..Len(r)
    BY SeqFacts DEF Picks
  <2>2. /\ IsSeq(a) /\ DOMAIN a = DOMAIN r \cup {m} /\ m \notin DOMAIN r
        /\ a[m] = s[n + 1] /\ \A i \in DOMAIN r : a[i] = r[i]
    BY <2>1, AppendIsSeq
  <2> HIDE DEF a
  <2>3. h[m] = n + 1 /\ \A k \in DOMAIN r : h[k] = f[k]
    BY <2>1
  <2> HIDE DEF h, m
  <2>4. \A k \in DOMAIN r : f[k] \in 1..n /\ f[k] \in places /\ r[k] = s[f[k]] /\ f[k] # n + 1 /\ f[k] \in 1..(n + 1)
    BY DEF Picks
  <2>5. \A k \in DOMAIN a : h[k] \in 1..(n + 1) /\ h[k] \in places /\ a[k] = s[h[k]]
    BY <1>2, <2>2, <2>3, <2>4
  <2>6. \A k, l \in DOMAIN a : h[k] = h[l] => k = l
    BY <2>2, <2>3, <2>4 DEF Picks
  <2>7. ASSUME NEW i \in 1..(n + 1), i \in places PROVE \E k \in DOMAIN a : h[k] = i
    <3>1. CASE i = n + 1
      BY <2>2, <2>3, <3>1
    <3>2. CASE i # n + 1
      <4>1. i \in 1..n
        BY <3>2
      <4>2. PICK k \in DOMAIN r : f[k] = i
        BY <2>7, <4>1 DEF Picks
      <4> QED
        BY <2>2, <2>3, <4>2
    <3> QED
      BY <3>1, <3>2
  <2>8. Picks(a, h, n + 1, s, places)
    BY <2>2, <2>5, <2>6, <2>7 DEF Picks
  <2> QED
    BY <1>2, <2>8 DEF a
<1> QED
  BY <1>1, <1>2

\* What Picked picks: each element at one of the places, once.
LEMMA PickedPicks ==
  ASSUME NEW s, IsSeq(s), NEW places
  PROVE  \E f : Picks(Picked(s, places), f, Len(s), s, places)
<1> DEFINE n == Len(s)
           g == CHOOSE g : g = [i \in 0..n |-> IF i = 0 THEN <<>>
                                               ELSE IF i \in places THEN Append(g[i - 1], s[i]) ELSE g[i - 1]]
<1>1. n \in Nat
  BY SeqFacts
<1> HIDE DEF n
<1>2. \E h : IsPicking(h, n, s, places)
  BY <1>1, PickingExists
<1>3. IsPicking(g, n, s, places)
  BY <1>2 DEF IsPicking
<1>4. Picked(s, places) = g[n]
  BY DEF Picked, n
<1> HIDE DEF g
<1>5. g[0] = <<>> /\ \A i \in 1..n : g[i] = IF i \in places THEN Append(g[i - 1], s[i]) ELSE g[i - 1]
  <2>1. \A i \in 0..n : g[i] = IF i = 0 THEN <<>> ELSE IF i \in places THEN Append(g[i - 1], s[i]) ELSE g[i - 1]
    BY <1>3 DEF IsPicking
  <2> QED
    BY <1>1, <2>1
<1> DEFINE S == {i \in 0..n : \E f : Picks(g[i], f, i, s, places)}
<1>6. 0 \in S
  <2>1. 1..0 = {}
    OBVIOUS
  <2>2. Picks(<<>>, <<>>, 0, s, places)
    BY <2>1, EmptyIsSeq, Zenon DEF Picks
  <2> QED
    BY <1>1, <1>5, <2>2
<1>7. ASSUME NEW i \in 1..n, i - 1 \in S PROVE i \in S
  <2>1. i - 1 \in Nat /\ (i - 1) + 1 = i /\ i \in 0..n
    BY <1>1
  <2>2. PICK f : Picks(g[i - 1], f, i - 1, s, places)
    BY <1>7
  <2>3. IF i \in places THEN \E h : Picks(Append(g[i - 1], s[i]), h, i, s, places)
        ELSE Picks(g[i - 1], f, i, s, places)
    <3> DEFINE j == i - 1
    <3>1. j \in Nat /\ Picks(g[j], f, j, s, places)
      BY <2>1, <2>2
    <3> HIDE DEF j
    <3>2. IF j + 1 \in places THEN \E h : Picks(Append(g[j], s[j + 1]), h, j + 1, s, places)
          ELSE Picks(g[j], f, j + 1, s, places)
      BY <3>1, PickOneMore
    <3>3. j + 1 = i
      BY <2>1 DEF j
    <3> QED
      BY <3>2, <3>3, Zenon DEF j
  <2>4. \E h : Picks(g[i], h, i, s, places)
    BY <1>5, <2>3
  <2> QED
    BY <2>1, <2>4
<1>8. n \in S
  <2> HIDE DEF S
  <2> QED
    BY <1>1, <1>6, <1>7, UpTo
<1> QED
  BY <1>4, <1>8 DEF n

-----------------------------------------------------------------------------
(* CallsIn: the calls of all messages.                                     *)

\* A conversation as the middlewares keep it: no two calls in it have one id.
MessagesOk(msgs) ==
  /\ IsSeq(msgs)
  /\ \A i \in DOMAIN msgs : IsSeq(msgs[i].calls) /\ \A k \in DOMAIN msgs[i].calls : IsSeq(msgs[i].calls[k].args)
  /\ \A i, j \in DOMAIN msgs : \A k \in DOMAIN msgs[i].calls, l \in DOMAIN msgs[j].calls :
       msgs[i].calls[k].id = msgs[j].calls[l].id => i = j /\ k = l

\* row and col say for each place of all which message and which of its calls is there.
Lists(all, row, col, n, msgs) ==
  /\ IsSeq(all)
  /\ \A x \in DOMAIN all : /\ row[x] \in 1..n /\ col[x] \in DOMAIN msgs[row[x]].calls
                           /\ all[x] = msgs[row[x]].calls[col[x]]
  /\ \A x, y \in DOMAIN all : row[x] = row[y] /\ col[x] = col[y] => x = y
  /\ \A i \in 1..n : \A k \in DOMAIN msgs[i].calls : \E x \in DOMAIN all : row[x] = i /\ col[x] = k

\* The recursive function of FlattenSeq, as far as n.
IsFlattening(g, n, seqs) == g = [i \in 1..n |-> IF i = 1 THEN seqs[i] ELSE g[i - 1] \o seqs[i]]

\* There is one.
LEMMA FlatteningExists ==
  ASSUME NEW seqs, NEW n \in Nat
  PROVE  \E g : IsFlattening(g, n, seqs)
<1> DEFINE S == {m \in 0..n : \E g : IsFlattening(g, m, seqs)}
<1>1. 0 \in S
  <2> DEFINE g == [i \in 1..0 |-> seqs]
  <2>1. IsFlattening(g, 0, seqs)
    BY DEF IsFlattening
  <2> QED
    BY <2>1
<1>2. ASSUME NEW m \in 1..n, m - 1 \in S PROVE m \in S
  <2>1. m - 1 \in Nat /\ m \in Nat
    OBVIOUS
  <2>2. PICK f : IsFlattening(f, m - 1, seqs)
    BY <1>2
  <2> DEFINE next == IF m = 1 THEN seqs[m] ELSE f[m - 1] \o seqs[m]
             g == [i \in 1..m |-> IF i = m THEN next ELSE f[i]]
  <2>3. \A i \in 1..(m - 1) : f[i] = IF i = 1 THEN seqs[i] ELSE f[i - 1] \o seqs[i]
    BY <2>2 DEF IsFlattening
  <2>4. ASSUME NEW i \in 1..m
        PROVE  g[i] = IF i = 1 THEN seqs[i] ELSE g[i - 1] \o seqs[i]
    <3>1. CASE i = 1 /\ i # m
      <4>1. i \in 1..(m - 1)
        BY <2>1, <3>1
      <4> QED
        BY <2>3, <3>1, <4>1
    <3>2. CASE i # 1 /\ i # m
      <4>1. i \in 1..(m - 1) /\ i - 1 \in 1..m /\ i - 1 # m
        BY <2>1, <3>2
      <4> QED
        BY <2>3, <3>2, <4>1
    <3>3. CASE i = m
      <4>1. i # 1 => i - 1 \in 1..m /\ i - 1 # m
        BY <2>1, <3>3
      <4> QED
        BY <3>3, <4>1
    <3> QED
      BY <3>1, <3>2, <3>3
  <2>5. g = [i \in 1..m |-> g[i]]
    OBVIOUS
  <2> HIDE DEF g
  <2>6. IsFlattening(g, m, seqs)
    BY <2>4, <2>5 DEF IsFlattening
  <2> QED
    BY <2>6
<1> HIDE DEF S
<1>3. n \in S
  BY <1>1, <1>2, UpTo
<1> QED
  BY <1>3 DEF S

\* FlattenSeq is what it comes to.
LEMMA FlattenSeqIs ==
  ASSUME NEW seqs, Len(seqs) \in Nat
  PROVE  \E g : /\ IsFlattening(g, Len(seqs), seqs)
                /\ FlattenSeq(seqs) = IF Len(seqs) = 0 THEN seqs ELSE g[Len(seqs)]
<1> DEFINE g == CHOOSE g : g = [i \in 1..Len(seqs) |-> IF i = 1 THEN seqs[i] ELSE g[i - 1] \o seqs[i]]
<1>1. \E h : IsFlattening(h, Len(seqs), seqs)
  BY FlatteningExists
<1>2. IsFlattening(g, Len(seqs), seqs)
  BY <1>1 DEF IsFlattening
<1>3. FlattenSeq(seqs) = IF Len(seqs) = 0 THEN seqs ELSE g[Len(seqs)]
  BY DEF FlattenSeq
<1> HIDE DEF g
<1> QED
  BY <1>2, <1>3

\* The calls of one more message.
LEMMA ListOneMore ==
  ASSUME NEW all, NEW row, NEW col, NEW msgs, NEW n \in Nat, Lists(all, row, col, n, msgs),
         IsSeq(msgs[n + 1].calls)
  PROVE  \E r, c : Lists(all \o msgs[n + 1].calls, r, c, n + 1, msgs)
<1> DEFINE more == msgs[n + 1].calls
           a == all \o more
           m == Len(all)
<1>1. IsSeq(all) /\ m \in Nat /\ DOMAIN all = 1..m /\ IsSeq(more) /\ Len(more) \in Nat /\ DOMAIN more = 1..Len(more)
  BY SeqFacts DEF Lists
<1>2. /\ IsSeq(a) /\ Len(a) = m + Len(more) /\ DOMAIN a = 1..(m + Len(more))
      /\ \A i \in 1..m : a[i] = all[i]
      /\ \A i \in 1..Len(more) : a[m + i] = more[i]
  <2> HIDE DEF more
  <2>1. /\ IsSeq(a) /\ Len(a) = m + Len(more)
        /\ \A i \in 1..m : a[i] = all[i]
        /\ \A i \in 1..Len(more) : a[m + i] = more[i]
    BY <1>1, ConcatIsSeq
  <2>2. DOMAIN a = 1..Len(a)
    <3> HIDE DEF a
    <3> QED
      BY <2>1, SeqFacts
  <2> QED
    BY <2>1, <2>2
<1> DEFINE r == [x \in 1..(m + Len(more)) |-> IF x <= m THEN row[x] ELSE n + 1]
           c == [x \in 1..(m + Len(more)) |-> IF x <= m THEN col[x] ELSE x - m]
<1>3. \A x \in DOMAIN a : IF x <= m THEN x \in DOMAIN all /\ r[x] = row[x] /\ c[x] = col[x] /\ a[x] = all[x]
                          ELSE x - m \in DOMAIN more /\ r[x] = n + 1 /\ c[x] = x - m /\ a[x] = more[x - m]
  <2> SUFFICES ASSUME NEW x \in DOMAIN a
               PROVE  IF x <= m THEN x \in DOMAIN all /\ r[x] = row[x] /\ c[x] = col[x] /\ a[x] = all[x]
                      ELSE x - m \in DOMAIN more /\ r[x] = n + 1 /\ c[x] = x - m /\ a[x] = more[x - m]
    OBVIOUS
  <2>1. x \in 1..(m + Len(more))
    BY <1>2
  <2> HIDE DEF a, m
  <2>2. CASE x <= m
    BY <1>1, <1>2, <2>1, <2>2
  <2>3. CASE ~(x <= m)
    <3>1. x - m \in 1..Len(more) /\ m + (x - m) = x
      BY <1>1, <2>1, <2>3
    <3>2. a[m + (x - m)] = more[x - m]
      BY <1>2, <3>1
    <3> QED
      BY <1>1, <2>1, <2>3, <3>1, <3>2
  <2> QED
    BY <2>2, <2>3
<1>4. \A k \in DOMAIN more : m + k \in DOMAIN a /\ ~(m + k <= m) /\ (m + k) - m = k
  BY <1>1, <1>2
<1>5. \A k \in DOMAIN all : k \in DOMAIN a /\ k <= m
  BY <1>1, <1>2
<1>6. \A x \in DOMAIN all : row[x] \in 1..n /\ row[x] \in 1..(n + 1) /\ row[x] # n + 1 /\ col[x] \in DOMAIN msgs[row[x]].calls
                            /\ all[x] = msgs[row[x]].calls[col[x]]
  BY DEF Lists
<1>7. DOMAIN a \subseteq Nat /\ m \in Nat
  BY <1>1, <1>2
<1> HIDE DEF a, r, c, m
<1>8. \A x \in DOMAIN a : r[x] \in 1..(n + 1) /\ c[x] \in DOMAIN msgs[r[x]].calls /\ a[x] = msgs[r[x]].calls[c[x]]
  BY <1>3, <1>6
<1>9. ASSUME NEW x \in DOMAIN a, NEW y \in DOMAIN a, r[x] = r[y], c[x] = c[y] PROVE x = y
  <2>1. CASE x <= m /\ y <= m
    BY <1>3, <1>9, <2>1 DEF Lists
  <2>2. CASE ~(x <= m) /\ ~(y <= m)
    BY <1>3, <1>7, <1>9, <2>2
  <2>3. CASE (x <= m) /\ ~(y <= m)
    BY <1>3, <1>6, <1>9, <2>3
  <2>4. CASE ~(x <= m) /\ y <= m
    BY <1>3, <1>6, <1>9, <2>4
  <2> QED
    BY <2>1, <2>2, <2>3, <2>4
<1>10. ASSUME NEW i \in 1..(n + 1), NEW k \in DOMAIN msgs[i].calls
       PROVE  \E x \in DOMAIN a : r[x] = i /\ c[x] = k
  <2>1. CASE i = n + 1
    BY <1>3, <1>4, <2>1
  <2>2. CASE i # n + 1
    <3>1. i \in 1..n
      BY <2>2
    <3>2. PICK x \in DOMAIN all : row[x] = i /\ col[x] = k
      BY <3>1 DEF Lists
    <3> QED
      BY <1>3, <1>5, <3>2
  <2> QED
    BY <2>1, <2>2
<1>11. Lists(a, r, c, n + 1, msgs)
  BY <1>2, <1>8, <1>9, <1>10 DEF Lists
<1> QED
  BY <1>11 DEF a

\* CallsIn lists the calls of a conversation.
LEMMA CallsInLists ==
  ASSUME NEW msgs, IsSeq(msgs), \A i \in DOMAIN msgs : IsSeq(msgs[i].calls)
  PROVE  \E row, col : Lists(CallsIn(msgs), row, col, Len(msgs), msgs)
<1> DEFINE n == Len(msgs)
           seqs == [i \in DOMAIN msgs |-> msgs[i].calls]
<1>1. n \in Nat /\ DOMAIN msgs = 1..n
  BY SeqFacts
<1>2. Len(seqs) = n
  <2>1. seqs = [i \in 1..n |-> seqs[i]]
    BY <1>1
  <2> HIDE DEF seqs
  <2> QED
    BY <1>1, <2>1, FunctionIsSeq
<1>3. \A i \in 1..n : seqs[i] = msgs[i].calls /\ IsSeq(seqs[i])
  BY <1>1
<1>4. PICK g : IsFlattening(g, n, seqs) /\ CallsIn(msgs) = IF n = 0 THEN seqs ELSE g[n]
  <2>1. CallsIn(msgs) = FlattenSeq(seqs)
    BY DEF CallsIn
  <2> HIDE DEF seqs, n
  <2> QED
    BY <1>1, <1>2, <2>1, FlattenSeqIs
<1> HIDE DEF n
<1>5. CASE n = 0
  <2>1. IsSeq(seqs) /\ DOMAIN seqs = {}
    <3>1. DOMAIN seqs = 1..0 /\ 1..0 = {}
      BY <1>1, <1>5
    <3>2. seqs = [i \in DOMAIN seqs |-> seqs[i]]
      OBVIOUS
    <3> HIDE DEF seqs
    <3>3. seqs = [i \in 1..0 |-> seqs[i]] /\ 0 \in Nat
      BY <3>1, <3>2
    <3> QED
      BY <3>1, <3>3, FunctionIsSeq
  <2>2. 1..n = {}
    BY <1>5
  <2>3. Lists(seqs, <<>>, <<>>, n, msgs)
    <3> HIDE DEF seqs
    <3> QED
      BY <2>1, <2>2, Zenon DEF Lists
  <2> QED
    BY <1>4, <1>5, <2>3 DEF n
<1>6. CASE n # 0
  <2> HIDE DEF seqs
  <2>3. \A i \in 1..n : g[i] = IF i = 1 THEN seqs[i] ELSE g[i - 1] \o seqs[i]
    BY <1>4 DEF IsFlattening
  <2> DEFINE S == {i \in 0..n : i # 0 => \E r, c : Lists(g[i], r, c, i, msgs)}
  <2>4. 0 \in S
    BY <1>1
  <2>5. ASSUME NEW i \in 1..n, i - 1 \in S PROVE i \in S
    <3>1. i - 1 \in Nat /\ (i - 1) + 1 = i /\ i \in 0..n /\ IsSeq(msgs[i].calls) /\ seqs[i] = msgs[i].calls
      BY <1>1, <1>3
    <3>2. CASE i = 1
      <4> DEFINE r == [k \in DOMAIN msgs[1].calls |-> 1]
                 c == [k \in DOMAIN msgs[1].calls |-> k]
      <4>1. g[1] = msgs[1].calls
        BY <2>3, <3>1, <3>2
      <4>2. /\ IsSeq(msgs[1].calls) /\ 1..1 = {1}
            /\ \A k \in DOMAIN msgs[1].calls : r[k] = 1 /\ c[k] = k
        BY <3>1, <3>2
      <4> HIDE DEF r, c
      <4>3. Lists(msgs[1].calls, r, c, 1, msgs)
        BY <4>2 DEF Lists
      <4> QED
        BY <3>1, <3>2, <4>1, <4>3
    <3>3. CASE i # 1
      <4>1. g[i] = g[i - 1] \o msgs[i].calls
        BY <2>3, <3>1, <3>3
      <4> DEFINE j == i - 1
      <4>2. PICK r, c : Lists(g[j], r, c, j, msgs)
        BY <2>5, <3>3
      <4>3. j \in Nat /\ j + 1 = i
        BY <3>1
      <4>4. IsSeq(msgs[j + 1].calls)
        BY <3>1, <4>3
      <4> HIDE DEF j
      <4>5. \E r2, c2 : Lists(g[j] \o msgs[j + 1].calls, r2, c2, j + 1, msgs)
        BY <4>2, <4>3, <4>4, ListOneMore
      <4>6. \E r2, c2 : Lists(g[i], r2, c2, i, msgs)
        BY <4>1, <4>3, <4>5 DEF j
      <4> QED
        BY <3>1, <4>6
    <3> QED
      BY <3>2, <3>3
  <2>6. n \in S
    <3>1. \A i \in 1..n : i - 1 \in S => i \in S
      BY <2>5
    <3> HIDE DEF S
    <3> QED
      BY <1>1, <2>4, <3>1, UpTo
  <2>7. \E r, c : Lists(g[n], r, c, n, msgs)
    BY <1>6, <2>6
  <2> QED
    BY <1>4, <1>6, <2>7 DEF n
<1> QED
  BY <1>5, <1>6

\* A call that stands in a message.
Stands(c, msgs) == \E i \in DOMAIN msgs : \E k \in DOMAIN msgs[i].calls : msgs[i].calls[k] = c

\* The open calls are the calls without an answer, each once.
LEMMA OpenCalls ==
  ASSUME NEW msgs, MessagesOk(msgs)
  PROVE  LET open == GetOpenToolCalls(msgs)
         IN /\ IsSeq(open)
            /\ \A k \in DOMAIN open : Stands(open[k], msgs) /\ open[k].id \notin AnsweredIn(msgs)
            /\ \A k, l \in DOMAIN open : open[k].id = open[l].id => k = l
            /\ \A c : Stands(c, msgs) /\ c.id \notin AnsweredIn(msgs) => \E k \in DOMAIN open : open[k] = c
<1> DEFINE all == CallsIn(msgs)
           places == {i \in DOMAIN all : all[i].id \notin AnsweredIn(msgs)}
           open == Picked(all, places)
<1>1. PICK row, col : Lists(all, row, col, Len(msgs), msgs)
  BY CallsInLists DEF MessagesOk
<1>2. IsSeq(all) /\ DOMAIN all = 1..Len(all) /\ DOMAIN msgs = 1..Len(msgs)
  BY <1>1, SeqFacts DEF Lists, MessagesOk
<1>3. GetOpenToolCalls(msgs) = open
  BY DEF GetOpenToolCalls
<1>4. \A i \in places : i \in DOMAIN all /\ all[i].id \notin AnsweredIn(msgs)
  OBVIOUS
<1>5. \A i \in DOMAIN all : all[i].id \notin AnsweredIn(msgs) => i \in places
  OBVIOUS
<1> HIDE DEF places, all
<1>6. PICK f : Picks(open, f, Len(all), all, places)
  BY <1>2, PickedPicks
<1> HIDE DEF open
<1>7. \A x \in DOMAIN all : row[x] \in DOMAIN msgs /\ col[x] \in DOMAIN msgs[row[x]].calls /\ all[x] = msgs[row[x]].calls[col[x]]
  BY <1>1, <1>2 DEF Lists
<1>8. ASSUME NEW x \in DOMAIN all, NEW y \in DOMAIN all, all[x].id = all[y].id PROVE x = y
  <2>1. row[x] = row[y] /\ col[x] = col[y]
    BY <1>7, <1>8 DEF MessagesOk
  <2> QED
    BY <1>1, <2>1 DEF Lists
<1>9. \A k \in DOMAIN open : f[k] \in DOMAIN all /\ f[k] \in places /\ open[k] = all[f[k]]
  BY <1>2, <1>6 DEF Picks
<1>10. IsSeq(open)
  BY <1>6 DEF Picks
<1>11. \A k \in DOMAIN open : Stands(open[k], msgs) /\ open[k].id \notin AnsweredIn(msgs)
  BY <1>4, <1>7, <1>9 DEF Stands
<1>12. ASSUME NEW k \in DOMAIN open, NEW l \in DOMAIN open, open[k].id = open[l].id PROVE k = l
  <2>1. f[k] = f[l]
    BY <1>8, <1>9, <1>12
  <2> QED
    BY <1>6, <2>1 DEF Picks
<1>13. ASSUME NEW c, Stands(c, msgs), c.id \notin AnsweredIn(msgs) PROVE \E k \in DOMAIN open : open[k] = c
  <2>1. PICK i \in DOMAIN msgs : \E k \in DOMAIN msgs[i].calls : msgs[i].calls[k] = c
    BY <1>13 DEF Stands
  <2>2. PICK k \in DOMAIN msgs[i].calls : msgs[i].calls[k] = c
    BY <2>1
  <2>3. PICK x \in DOMAIN all : row[x] = i /\ col[x] = k
    BY <1>1, <1>2 DEF Lists
  <2>4. all[x] = c /\ x \in places /\ x \in 1..Len(all)
    BY <1>2, <1>5, <1>7, <1>13, <2>2, <2>3
  <2>5. PICK y \in DOMAIN open : f[y] = x
    BY <1>6, <2>4 DEF Picks
  <2> QED
    BY <1>9, <2>4, <2>5
<1> QED
  BY <1>3, <1>10, <1>11, <1>12, <1>13

\* Of these, the middleware's own.
LEMMA OurCalls ==
  ASSUME NEW calls, IsSeq(calls)
  PROVE  LET ours == Ours(calls)
         IN /\ IsSeq(ours)
            /\ \A k \in DOMAIN ours : ours[k].name \in DOMAIN tools /\ \E x \in DOMAIN calls : ours[k] = calls[x]
            /\ (\A x, y \in DOMAIN calls : calls[x].id = calls[y].id => x = y)
                 => \A k, l \in DOMAIN ours : ours[k].id = ours[l].id => k = l
            /\ \A x \in DOMAIN calls : calls[x].name \in DOMAIN tools => \E k \in DOMAIN ours : ours[k] = calls[x]
<1> DEFINE places == {i \in DOMAIN calls : calls[i].name \in DOMAIN tools}
           ours == Picked(calls, places)
<1>1. DOMAIN calls = 1..Len(calls)
  BY SeqFacts
<1>2. Ours(calls) = ours
  BY DEF Ours
<1>3. \A i : i \in places <=> i \in DOMAIN calls /\ calls[i].name \in DOMAIN tools
  OBVIOUS
<1> HIDE DEF places
<1>4. PICK f : Picks(ours, f, Len(calls), calls, places)
  BY PickedPicks
<1> HIDE DEF ours
<1>5. \A k \in DOMAIN ours : f[k] \in DOMAIN calls /\ f[k] \in places /\ ours[k] = calls[f[k]]
  BY <1>1, <1>4 DEF Picks
<1>6. IsSeq(ours)
  BY <1>4 DEF Picks
<1>7. \A k \in DOMAIN ours : ours[k].name \in DOMAIN tools /\ \E x \in DOMAIN calls : ours[k] = calls[x]
  BY <1>3, <1>5
<1>8. ASSUME \A x, y \in DOMAIN calls : calls[x].id = calls[y].id => x = y,
             NEW k \in DOMAIN ours, NEW l \in DOMAIN ours, ours[k].id = ours[l].id
      PROVE  k = l
  <2>1. f[k] = f[l]
    BY <1>5, <1>8
  <2> QED
    BY <1>4, <2>1 DEF Picks
<1>9. ASSUME NEW x \in DOMAIN calls, calls[x].name \in DOMAIN tools PROVE \E k \in DOMAIN ours : ours[k] = calls[x]
  <2>1. x \in 1..Len(calls) /\ x \in places
    BY <1>1, <1>3, <1>9
  <2>2. PICK k \in DOMAIN ours : f[k] = x
    BY <1>4, <2>1 DEF Picks
  <2> QED
    BY <1>5, <2>2
<1> QED
  BY <1>2, <1>6, <1>7, <1>8, <1>9

-----------------------------------------------------------------------------
(* ReconstructMessages, one event after the other.                         *)

Ends(e) == e.type \in {"callEnd", "textEnd"}
Dropped(e) == e.type \in {"runStarted", "runFinished"}

TextStarts == {"textStart", "otherTextStart"}
Collected == {"textStart", "otherTextStart", "callStart", "args", "callEnd", "textEnd", "result"}

\* The calls of the assistant's message being built; and whether it is one of another role.
Cur(m) == IF m.cur = <<>> \/ m.role # "assistant" THEN <<>> ELSE m.cur[1]
Foreign(m) == m.cur # <<>> /\ m.role # "assistant"

IsReconstruction(g, n, original, events) ==
  g = [i \in 0..n |-> IF i = 0 THEN [msgs |-> original, cur |-> <<>>, role |-> "assistant"] ELSE Collect(g[i - 1], events[i])]

\* The recursive function of ReconstructMessages, as far as n.
LEMMA ReconstructionExists ==
  ASSUME NEW original, NEW events, NEW n \in Nat
  PROVE  \E g : IsReconstruction(g, n, original, events)
<1> DEFINE S == {m \in 0..n : \E g : IsReconstruction(g, m, original, events)}
           none == [msgs |-> original, cur |-> <<>>, role |-> "assistant"]
<1>1. 0 \in S
  <2> DEFINE g == [i \in 0..0 |-> none]
  <2>1. IsReconstruction(g, 0, original, events)
    BY DEF IsReconstruction
  <2> QED
    BY <2>1
<1>2. ASSUME NEW m \in 1..n, m - 1 \in S PROVE m \in S
  <2>1. m - 1 \in Nat /\ m \in Nat
    OBVIOUS
  <2>2. PICK f : IsReconstruction(f, m - 1, original, events)
    BY <1>2
  <2> DEFINE next == Collect(f[m - 1], events[m])
             g == [i \in 0..m |-> IF i = m THEN next ELSE f[i]]
  <2> HIDE DEF none
  <2>3. f[0] = none /\ \A i \in 1..(m - 1) : f[i] = Collect(f[i - 1], events[i])
    <3>1. \A i \in 0..(m - 1) : f[i] = IF i = 0 THEN none ELSE Collect(f[i - 1], events[i])
      BY <2>2 DEF IsReconstruction, none
    <3> QED
      BY <2>1, <3>1
  <2>4. ASSUME NEW i \in 0..m
        PROVE  g[i] = IF i = 0 THEN none ELSE Collect(g[i - 1], events[i])
    <3>1. CASE i = 0
      BY <2>1, <2>3, <3>1
    <3>2. CASE i # 0 /\ i # m
      <4>1. i \in 1..(m - 1) /\ i - 1 \in 0..m /\ i - 1 # m
        BY <2>1, <3>2
      <4> QED
        BY <2>3, <3>2, <4>1
    <3>3. CASE i = m
      <4>1. m - 1 \in 0..m /\ m - 1 # m /\ m # 0
        BY <2>1
      <4> QED
        BY <3>3, <4>1
    <3> QED
      BY <3>1, <3>2, <3>3
  <2>5. g = [i \in 0..m |-> g[i]]
    OBVIOUS
  <2> HIDE DEF g
  <2>6. IsReconstruction(g, m, original, events)
    BY <2>4, <2>5 DEF IsReconstruction, none
  <2> QED
    BY <2>6
<1> HIDE DEF S
<1>3. n \in S
  BY <1>1, <1>2, UpTo
<1> QED
  BY <1>3 DEF S

\* The form of what is built.
Made(m) == m = [msgs |-> m.msgs, cur |-> m.cur, role |-> m.role] /\ (m.cur = <<>> \/ m.cur = <<m.cur[1]>>)

\* What an event does to the messages and to the one being built.
LEMMA CollectCases ==
  ASSUME NEW m, NEW e, Made(m)
  PROVE  LET r == Collect(m, e)
         IN /\ Made(r)
            /\ e.type \in TextStarts => r.msgs = m.msgs /\ Cur(r) = <<>>
            /\ e.type = "callStart" => r.msgs = m.msgs
                 /\ Cur(r) = IF Foreign(m) THEN <<>> ELSE Append(Cur(m), [id |-> e.id, name |-> e.name, args |-> <<>>])
            /\ e.type = "args" => r.msgs = m.msgs
                 /\ Cur(r) = IF Cur(m) = <<>> THEN <<>> ELSE [Cur(m) EXCEPT ![Len(Cur(m))].args = Append(@, e.id)]
            /\ Ends(e) => /\ Cur(r) = <<>>
                          /\ r.msgs = Append(m.msgs, Assistant(Cur(m))) \/ (r.msgs = m.msgs /\ Cur(m) = <<>>)
            /\ e.type = "result" => Cur(r) = Cur(m) /\ r.msgs = Append(m.msgs, Result(e.id))
            /\ e.type \notin Collected => r = m
            /\ Foreign(r) => e.type = "otherTextStart" \/ (Foreign(m) /\ ~Ends(e))
<1> DEFINE r == Collect(m, e)
           calls == m.cur[1]
           more == Append(IF m.cur = <<>> THEN <<>> ELSE m.cur[1], [id |-> e.id, name |-> e.name, args |-> <<>>])
           changed == [m.cur[1] EXCEPT ![Len(m.cur[1])].args = Append(@, e.id)]
           grown == Append(m.msgs, Message(m.role, m.cur[1]))
           told == Append(m.msgs, Result(e.id))
           whose == IF m.cur = <<>> THEN "assistant" ELSE m.role
           none == << <<>> >>
           Is(x, y, z) == [msgs |-> x, cur |-> y, role |-> z]
<1>1. \A x, y : /\ [m EXCEPT !.cur = x, !.role = y] = Is(m.msgs, x, y)
                /\ [m EXCEPT !.cur = x] = Is(m.msgs, x, m.role)
                /\ [m EXCEPT !.msgs = x] = Is(x, m.cur, m.role)
                /\ [m EXCEPT !.cur = x, !.msgs = y] = Is(y, x, m.role)
  <2> DEFINE a == m.msgs
             b == m.cur
             c == m.role
  <2> HIDE DEF a, b, c
  <2>1. m = [msgs |-> a, cur |-> b, role |-> c]
    BY DEF a, b, c, Made
  <2>2. ASSUME NEW x, NEW y
        PROVE  /\ [m EXCEPT !.cur = x, !.role = y] = Is(a, x, y)
               /\ [m EXCEPT !.cur = x] = Is(a, x, c)
               /\ [m EXCEPT !.msgs = x] = Is(x, b, c)
               /\ [m EXCEPT !.cur = x, !.msgs = y] = Is(y, x, c)
    <3> DEFINE n == [m EXCEPT !.cur = x]
    <3>2. n = [msgs |-> a, cur |-> x, role |-> c]
      BY <2>1
    <3>5. /\ [m EXCEPT !.cur = x, !.role = y] = [n EXCEPT !.role = y]
          /\ [m EXCEPT !.cur = x, !.msgs = y] = [n EXCEPT !.msgs = y]
      OBVIOUS
    <3> HIDE DEF n
    <3>1. [n EXCEPT !.role = y] = [msgs |-> a, cur |-> x, role |-> y]
      BY <3>2
    <3>4. [n EXCEPT !.msgs = y] = [msgs |-> y, cur |-> x, role |-> c]
      BY <3>2
    <3>3. [m EXCEPT !.msgs = x] = [msgs |-> x, cur |-> b, role |-> c]
      BY <2>1
    <3> QED
      BY <3>1, <3>2, <3>3, <3>4, <3>5 DEF n
  <2> QED
    BY <2>2 DEF a, b, c
<1> HIDE DEF Is
<1>2. r = CASE e.type = "textStart" -> Is(m.msgs, none, "assistant")
           [] e.type = "otherTextStart" -> Is(m.msgs, none, "other")
           [] e.type = "callStart" -> Is(m.msgs, <<more>>, whose)
           [] e.type = "args" /\ m.cur # <<>> /\ m.cur # none -> Is(m.msgs, <<changed>>, m.role)
           [] e.type \in {"textEnd", "callEnd"} /\ m.cur # <<>> -> Is(grown, <<>>, m.role)
           [] e.type = "result" -> Is(told, m.cur, m.role)
           [] OTHER -> m
  BY <1>1 DEF Collect
<1> HIDE DEF r
<1>3. /\ e.type = "textStart" => r = Is(m.msgs, none, "assistant")
      /\ e.type = "otherTextStart" => r = Is(m.msgs, none, "other")
  BY <1>2
<1>4. e.type = "callStart" => r = Is(m.msgs, <<more>>, whose)
  BY <1>2
<1>5. e.type = "args" => r = IF m.cur # <<>> /\ m.cur # none THEN Is(m.msgs, <<changed>>, m.role) ELSE m
  BY <1>2
<1>6. Ends(e) => r = IF m.cur # <<>> THEN Is(grown, <<>>, m.role) ELSE m
  BY <1>2 DEF Ends
<1>7. e.type = "result" => r = Is(told, m.cur, m.role)
  BY <1>2
<1>8. e.type \notin Collected => r = m
  BY <1>2 DEF Collected
<1> HIDE DEF changed, grown, told, none
<1>9. none # <<>> /\ <<more>> # <<>> /\ <<changed>> # <<>> /\ none = << <<>> >>
  <2>1. Len(<< <<>> >>) = 1 /\ Len(<<more>>) = 1 /\ Len(<<changed>>) = 1 /\ Len(<<>>) = 0
    OBVIOUS
  <2> QED
    BY <2>1, Zenon DEF none
<1> HIDE DEF more, whose
<1>10. \A x, y, z : Is(x, y, z).msgs = x /\ Is(x, y, z).cur = y /\ Is(x, y, z).role = z
  BY DEF Is
<1>11. \E x \in {m.msgs, grown, told}, y \in {<<>>, none, <<more>>, <<changed>>, m.cur}, z \in {"assistant", "other", m.role, whose} : r = Is(x, y, z)
  <2>1. m = Is(m.msgs, m.cur, m.role)
    BY DEF Made, Is
  <2> QED
    BY <1>2, <2>1, Zenon
<1>12. Made(r)
  <2>1. PICK x \in {m.msgs, grown, told}, y \in {<<>>, none, <<more>>, <<changed>>, m.cur},
               z \in {"assistant", "other", m.role, whose} : r = Is(x, y, z)
    BY <1>11
  <2>2. r = [msgs |-> r.msgs, cur |-> r.cur, role |-> r.role] /\ r.cur = y
    BY <1>10, <2>1 DEF Is
  <2>3. y = <<>> \/ y = <<y[1]>>
    BY <1>9, <2>1 DEF Made
  <2> QED
    BY <2>2, <2>3 DEF Made
<1>13. ASSUME e.type \in TextStarts PROVE r.msgs = m.msgs /\ Cur(r) = <<>>
  <2>1. r.msgs = m.msgs /\ r.cur = none
    BY <1>3, <1>10, <1>13 DEF TextStarts
  <2> QED
    BY <1>9, <2>1 DEF Cur
<1>14. ASSUME e.type = "callStart"
       PROVE  /\ r.msgs = m.msgs
              /\ Cur(r) = IF Foreign(m) THEN <<>> ELSE Append(Cur(m), [id |-> e.id, name |-> e.name, args |-> <<>>])
              /\ Foreign(r) => Foreign(m)
  <2>1. r.msgs = m.msgs /\ r.cur = <<more>> /\ r.role = whose
    BY <1>4, <1>10, <1>14
  <2>2. r.cur # <<>> /\ r.cur[1] = more
    BY <1>9, <2>1
  <2>3. Foreign(r) <=> Foreign(m)
    BY <2>1, <2>2 DEF Foreign, whose
  <2>4. ~Foreign(m) => Cur(r) = more
    BY <2>2, <2>3 DEF Cur, Foreign
  <2>5. ~Foreign(m) => more = Append(Cur(m), [id |-> e.id, name |-> e.name, args |-> <<>>])
    BY DEF Cur, Foreign, more
  <2>6. Foreign(r) => Cur(r) = <<>>
    BY DEF Foreign, Cur
  <2> QED
    BY <2>1, <2>3, <2>4, <2>5, <2>6
<1>15. ASSUME e.type = "args"
       PROVE  /\ r.msgs = m.msgs /\ (Foreign(r) => Foreign(m))
              /\ Cur(r) = IF Cur(m) = <<>> THEN <<>> ELSE [Cur(m) EXCEPT ![Len(Cur(m))].args = Append(@, e.id)]
  <2>1. CASE m.cur = <<>> \/ m.cur = none
    <3>1. r = m
      BY <1>5, <1>15, <2>1
    <3>2. Cur(m) = <<>>
      BY <1>9, <2>1 DEF Cur
    <3> QED
      BY <3>1, <3>2
  <2>2. CASE m.cur # <<>> /\ m.cur # none
    <3>1. r = Is(m.msgs, <<changed>>, m.role)
      BY <1>5, <1>15, <2>2
    <3>2. r.msgs = m.msgs /\ r.cur = <<changed>> /\ r.role = m.role
      BY <1>10, <3>1
    <3>3. r.cur # <<>> /\ r.cur[1] = changed
      BY <1>9, <3>2
    <3>4. CASE m.role # "assistant"
      BY <2>2, <3>2, <3>3, <3>4 DEF Cur, Foreign
    <3>5. CASE m.role = "assistant"
      <4>1. Cur(r) = changed /\ Cur(m) = m.cur[1] /\ ~Foreign(r)
        BY <2>2, <3>2, <3>3, <3>5 DEF Cur, Foreign
      <4>2. m.cur[1] # <<>>
        BY <2>2, <1>9, Zenon DEF Made
      <4> QED
        BY <3>2, <4>1, <4>2 DEF changed
    <3> QED
      BY <3>4, <3>5
  <2> QED
    BY <2>1, <2>2
<1>16. ASSUME Ends(e)
       PROVE  /\ Cur(r) = <<>> /\ ~Foreign(r)
              /\ r.msgs = Append(m.msgs, Assistant(Cur(m))) \/ (r.msgs = m.msgs /\ Cur(m) = <<>>)
  <2>1. CASE m.cur = <<>>
    <3>1. r = m
      BY <1>6, <1>16, <2>1
    <3> QED
      BY <2>1, <3>1 DEF Cur, Foreign
  <2>2. CASE m.cur # <<>>
    <3>1. r.cur = <<>> /\ r.msgs = grown
      BY <1>6, <1>10, <1>16, <2>2
    <3>2. Message(m.role, m.cur[1]) = Assistant(Cur(m))
      BY <2>2 DEF Message, Cur
    <3> QED
      BY <3>1, <3>2 DEF Cur, Foreign, grown
  <2> QED
    BY <2>1, <2>2
<1>17. ASSUME e.type = "result" PROVE Cur(r) = Cur(m) /\ r.msgs = Append(m.msgs, Result(e.id)) /\ (Foreign(r) => Foreign(m))
  <2>1. r.cur = m.cur /\ r.msgs = told /\ r.role = m.role
    BY <1>7, <1>10, <1>17
  <2> QED
    BY <2>1 DEF Cur, Foreign, told
<1>18. Foreign(r) => e.type = "otherTextStart" \/ (Foreign(m) /\ ~Ends(e))
  <2>1. e.type = "textStart" => ~Foreign(r)
    BY <1>3, <1>10 DEF Foreign
  <2>2. e.type \notin Collected => (Foreign(r) => Foreign(m)) /\ ~Ends(e)
    BY <1>8 DEF Ends, Collected
  <2>3. /\ e.type = "callStart" \/ e.type = "args" \/ e.type = "result" => ~Ends(e)
        /\ e.type \in Collected => Ends(e) \/ e.type \in {"textStart", "otherTextStart", "callStart", "args", "result"}
    BY DEF Ends, Collected
  <2> QED
    BY <1>14, <1>15, <1>16, <1>17, <2>1, <2>2, <2>3
<1> QED
  BY <1>8, <1>12, <1>13, <1>14, <1>15, <1>16, <1>17, <1>18, Zenon DEF r

\* ReconstructMessages in terms of what is built after each event.
LEMMA ReconstructIs ==
  ASSUME NEW original, NEW events, IsSeq(events)
  PROVE  \E g : /\ g[0] = [msgs |-> original, cur |-> <<>>, role |-> "assistant"]
                /\ \A i \in 1..Len(events) : g[i] = Collect(g[i - 1], events[i])
                /\ ReconstructMessages(original, events) =
                     IF g[Len(events)].cur = <<>> THEN g[Len(events)].msgs
                     ELSE Append(g[Len(events)].msgs, Message(g[Len(events)].role, g[Len(events)].cur[1]))
<1> DEFINE n == Len(events)
           none == [msgs |-> original, cur |-> <<>>, role |-> "assistant"]
           g == CHOOSE g : g = [i \in 0..n |-> IF i = 0 THEN none ELSE Collect(g[i - 1], events[i])]
<1>1. n \in Nat
  BY SeqFacts
<1>2. \E h : IsReconstruction(h, n, original, events)
  <2> HIDE DEF n
  <2> QED
    BY <1>1, ReconstructionExists
<1>3. ReconstructMessages(original, events) =
        IF g[n].cur = <<>> THEN g[n].msgs ELSE Append(g[n].msgs, Message(g[n].role, g[n].cur[1]))
  BY DEF ReconstructMessages
<1> HIDE DEF none, n
<1>4. g = [i \in 0..n |-> IF i = 0 THEN none ELSE Collect(g[i - 1], events[i])]
  BY <1>2 DEF IsReconstruction, none
<1> HIDE DEF g
<1>5. \A i \in 0..n : g[i] = IF i = 0 THEN none ELSE Collect(g[i - 1], events[i])
  BY <1>4
<1>6. g[0] = none /\ \A i \in 1..n : g[i] = Collect(g[i - 1], events[i])
  BY <1>1, <1>5
<1> QED
  BY <1>3, <1>6 DEF n, none

\* One more message in a conversation.
LEMMA OneMoreMessage ==
  ASSUME NEW msgs, MessagesOk(msgs), NEW x, IsSeq(x.calls), \A k \in DOMAIN x.calls : IsSeq(x.calls[k].args),
         \A k, l \in DOMAIN x.calls : x.calls[k].id = x.calls[l].id => k = l,
         \A c : Stands(c, msgs) => \A k \in DOMAIN x.calls : c.id # x.calls[k].id
  PROVE  LET more == Append(msgs, x)
         IN /\ MessagesOk(more)
            /\ \A c : Stands(c, more) <=> (Stands(c, msgs) \/ \E k \in DOMAIN x.calls : x.calls[k] = c)
            /\ AnsweredIn(more) = AnsweredIn(msgs) \cup {x.answers}
<1> DEFINE more == Append(msgs, x)
           n == Len(msgs) + 1
<1>1. /\ IsSeq(more) /\ DOMAIN more = DOMAIN msgs \cup {n} /\ n \notin DOMAIN msgs
      /\ more[n] = x /\ \A i \in DOMAIN msgs : more[i] = msgs[i]
  BY AppendIsSeq DEF MessagesOk
<1> HIDE DEF more, n
<1>2. \A i \in DOMAIN msgs : \A k \in DOMAIN msgs[i].calls : \A l \in DOMAIN x.calls : msgs[i].calls[k].id # x.calls[l].id
  BY DEF Stands
<1>3. \A i \in DOMAIN more : IsSeq(more[i].calls) /\ \A k \in DOMAIN more[i].calls : IsSeq(more[i].calls[k].args)
  BY <1>1 DEF MessagesOk
<1>4. ASSUME NEW i \in DOMAIN more, NEW j \in DOMAIN more, NEW k \in DOMAIN more[i].calls, NEW l \in DOMAIN more[j].calls,
             more[i].calls[k].id = more[j].calls[l].id
      PROVE  i = j /\ k = l
  <2>1. CASE i # n /\ j # n
    <3>1. i \in DOMAIN msgs /\ j \in DOMAIN msgs /\ more[i] = msgs[i] /\ more[j] = msgs[j]
      BY <1>1, <2>1
    <3> QED
      BY <1>4, <3>1 DEF MessagesOk
  <2>2. CASE i = n /\ j = n
    BY <1>1, <1>4, <2>2
  <2>3. CASE i # n /\ j = n
    BY <1>1, <1>2, <1>4, <2>3
  <2>4. CASE i = n /\ j # n
    BY <1>1, <1>2, <1>4, <2>4
  <2> QED
    BY <2>1, <2>2, <2>3, <2>4
<1>5. MessagesOk(more)
  BY <1>1, <1>3, <1>4 DEF MessagesOk
<1>6. \A c : Stands(c, more) <=> (Stands(c, msgs) \/ \E k \in DOMAIN x.calls : x.calls[k] = c)
  BY <1>1 DEF Stands
<1>7. AnsweredIn(more) = AnsweredIn(msgs) \cup {x.answers}
  BY <1>1 DEF AnsweredIn
<1> QED
  BY <1>5, <1>6, <1>7 DEF more

\* A call as the events spell it, and an event that begins it.
IsCall(c) == c = [id |-> c.id, name |-> c.name, args |-> c.args] /\ IsSeq(c.args)
Starts(e, c) == e.type = "callStart" /\ e.id = c.id /\ e.name = c.name

\* An assistant's message with its calls, the result of a call.
LEMMA MessageFields ==
  /\ \A calls : Assistant(calls).calls = calls /\ Assistant(calls).answers = NoId
  /\ \A id : Result(id).calls = <<>> /\ Result(id).answers = id
BY DEF Assistant, Result

\* The arguments of the last call grow.
LEMMA LastGrows ==
  ASSUME NEW calls, IsSeq(calls), calls # <<>>, \A k \in DOMAIN calls : IsCall(calls[k]), NEW id
  PROVE  LET r == [calls EXCEPT ![Len(calls)].args = Append(@, id)]
             n == Len(calls)
         IN /\ IsSeq(r) /\ DOMAIN r = DOMAIN calls /\ n \in DOMAIN calls
            /\ \A k \in DOMAIN calls : k # n => r[k] = calls[k]
            /\ r[n] = [id |-> calls[n].id, name |-> calls[n].name, args |-> Append(calls[n].args, id)]
            /\ \A k \in DOMAIN calls : IsCall(r[k]) /\ r[k].id = calls[k].id /\ r[k].name = calls[k].name
<1> DEFINE r == [calls EXCEPT ![Len(calls)].args = Append(@, id)]
           n == Len(calls)
           last == [calls[n] EXCEPT !.args = Append(calls[n].args, id)]
<1>1. n \in Nat /\ DOMAIN calls = 1..n /\ n # 0
  BY SeqFacts, NoPlaces
<1>2. n \in DOMAIN calls
  BY <1>1
<1>3. r = [k \in 1..n |-> IF k = n THEN last ELSE calls[k]]
  BY <1>1, <1>2
<1>4. last = [id |-> calls[n].id, name |-> calls[n].name, args |-> Append(calls[n].args, id)]
  <2> DEFINE c == calls[n]
  <2>1. c = [id |-> c.id, name |-> c.name, args |-> c.args]
    BY <1>2 DEF IsCall
  <2> HIDE DEF c
  <2>2. [c EXCEPT !.args = Append(c.args, id)] = [id |-> c.id, name |-> c.name, args |-> Append(c.args, id)]
    BY <2>1
  <2> QED
    BY <2>2 DEF c
<1> HIDE DEF r, last
<1>5. DOMAIN r = 1..n /\ r = [k \in 1..n |-> r[k]] /\ \A k \in 1..n : r[k] = IF k = n THEN last ELSE calls[k]
  BY <1>3
<1> HIDE DEF n
<1>6. IsSeq(r)
  BY <1>1, <1>5, FunctionIsSeq
<1>7. IsSeq(Append(calls[n].args, id))
  BY <1>2, AppendIsSeq DEF IsCall
<1>8. IsCall(last) /\ last.id = calls[n].id /\ last.name = calls[n].name
  <2>1. last.id = calls[n].id /\ last.name = calls[n].name /\ last.args = Append(calls[n].args, id)
    BY <1>4
  <2> QED
    BY <1>4, <1>7, <2>1 DEF IsCall
<1> QED
  BY <1>1, <1>2, <1>4, <1>5, <1>6, <1>8 DEF r, n

\* What the events of an invocation may be, given the conversation before it.
EventsOk(original, events) ==
  /\ MessagesOk(original) /\ IsSeq(events)
  /\ \A i, j \in DOMAIN events : events[i].type = "callStart" /\ events[j].type = "callStart" /\ events[i].id = events[j].id => i = j
  /\ \A i \in DOMAIN events : events[i].type = "callStart" => \A c : Stands(c, original) => c.id # events[i].id

\* What has been built of the first i events: calls begun by them or of the conversation.
CurOk(m) == /\ IsSeq(Cur(m)) /\ \A k \in DOMAIN Cur(m) : IsCall(Cur(m)[k])
            /\ \A k, l \in DOMAIN Cur(m) : Cur(m)[k].id = Cur(m)[l].id => k = l
ForeignFrom(m, i, events) ==
  Foreign(m) => \E j \in 1..i : events[j].type = "otherTextStart" /\ \A q \in j..i : ~Ends(events[q])
CurFrom(m, i, events) ==
  \A k \in DOMAIN Cur(m) : \E j \in 1..i : Starts(events[j], Cur(m)[k]) /\ \A q \in j..i : ~Ends(events[q])
MsgsFrom(m, i, original, events) ==
  \A c : Stands(c, m.msgs) => Stands(c, original) \/ \E j \in 1..i : Starts(events[j], c)
Apart(m) == \A c : Stands(c, m.msgs) => \A k \in DOMAIN Cur(m) : c.id # Cur(m)[k].id
Kept(m, original) == \A c : Stands(c, original) => Stands(c, m.msgs)
AnswersAre(m, i, original, events) ==
  /\ \A x \in AnsweredIn(m.msgs) : x = NoId \/ x \in AnsweredIn(original) \/ \E j \in 1..i : events[j].type = "result" /\ events[j].id = x
  /\ AnsweredIn(original) \subseteq AnsweredIn(m.msgs)
  /\ \A j \in 1..i : events[j].type = "result" => events[j].id \in AnsweredIn(m.msgs)
Built(m, i, original, events) ==
  /\ Made(m) /\ MessagesOk(m.msgs) /\ CurOk(m) /\ CurFrom(m, i, events) /\ MsgsFrom(m, i, original, events)
  /\ ForeignFrom(m, i, events) /\ Apart(m) /\ Kept(m, original) /\ AnswersAre(m, i, original, events)

\* One more event.
LEMMA BuildOneMore ==
  ASSUME NEW original, NEW events, EventsOk(original, events), NEW i \in 1..Len(events),
         NEW m, Built(m, i - 1, original, events)
  PROVE  Built(Collect(m, events[i]), i, original, events)
<1> DEFINE e == events[i]
           r == Collect(m, e)
           new == [id |-> e.id, name |-> e.name, args |-> <<>>]
<1>1. /\ Made(m) /\ MessagesOk(m.msgs) /\ CurOk(m) /\ CurFrom(m, i - 1, events) /\ MsgsFrom(m, i - 1, original, events)
      /\ ForeignFrom(m, i - 1, events)
      /\ Apart(m) /\ Kept(m, original) /\ AnswersAre(m, i - 1, original, events)
  BY DEF Built
<1>2. /\ Made(r)
      /\ e.type \in TextStarts => r.msgs = m.msgs /\ Cur(r) = <<>>
      /\ e.type = "callStart" => r.msgs = m.msgs /\ Cur(r) = IF Foreign(m) THEN <<>> ELSE Append(Cur(m), new)
      /\ e.type = "args" => r.msgs = m.msgs
           /\ Cur(r) = IF Cur(m) = <<>> THEN <<>> ELSE [Cur(m) EXCEPT ![Len(Cur(m))].args = Append(@, e.id)]
      /\ Ends(e) => /\ Cur(r) = <<>>
                    /\ r.msgs = Append(m.msgs, Assistant(Cur(m))) \/ (r.msgs = m.msgs /\ Cur(m) = <<>>)
      /\ e.type = "result" => Cur(r) = Cur(m) /\ r.msgs = Append(m.msgs, Result(e.id))
      /\ e.type \notin Collected => r = m
      /\ Foreign(r) => e.type = "otherTextStart" \/ (Foreign(m) /\ ~Ends(e))
  <2> HIDE DEF e
  <2> QED
    BY <1>1, CollectCases
<1> HIDE DEF r
<1>3. /\ DOMAIN events = 1..Len(events) /\ i \in DOMAIN events /\ Len(events) \in Nat /\ i \in Nat
      /\ 1..i = 1..(i - 1) \cup {i} /\ \A j \in 1..(i - 1) : j..i = j..(i - 1) \cup {i} /\ j # i /\ j \in DOMAIN events
      /\ i..i = {i} /\ i \in 1..i
  <2>1. DOMAIN events = 1..Len(events) /\ Len(events) \in Nat
    BY SeqFacts DEF EventsOk
  <2> QED
    BY <2>1
<1> DEFINE was == 1..(i - 1)
           now == 1..i
<1>4. now = was \cup {i} /\ i \notin was
  BY <1>3
<1>5. /\ \A k \in DOMAIN Cur(m) : \E j \in was : Starts(events[j], Cur(m)[k]) /\ \A q \in j..(i - 1) : ~Ends(events[q])
      /\ \A c : Stands(c, m.msgs) => Stands(c, original) \/ \E j \in was : Starts(events[j], c)
      /\ \A x \in AnsweredIn(m.msgs) : x = NoId \/ x \in AnsweredIn(original) \/ \E j \in was : events[j].type = "result" /\ events[j].id = x
      /\ \A j \in was : events[j].type = "result" => events[j].id \in AnsweredIn(m.msgs)
  BY <1>1 DEF CurFrom, MsgsFrom, AnswersAre
<1>6. \A j \in was : j..i = j..(i - 1) \cup {i} /\ j # i /\ j \in DOMAIN events
  BY <1>3
<1>7. /\ e.type \in TextStarts => ~Ends(e) /\ e.type # "result"
      /\ e.type = "callStart" => ~Ends(e) /\ e.type # "result"
      /\ e.type = "args" => ~Ends(e) /\ e.type # "result"
      /\ e.type = "result" => ~Ends(e)
      /\ Ends(e) => e.type # "result"
      /\ e.type \notin Collected => ~Ends(e) /\ e.type # "result"
      /\ Ends(e) \/ e.type \in TextStarts \/ e.type \in {"callStart", "args", "result"} \/ e.type \notin Collected
  BY DEF Ends, TextStarts, Collected
\* a message of another role was begun by an event, and not ended since
<1>19. ForeignFrom(r, i, events)
  <2> SUFFICES ASSUME Foreign(r)
               PROVE  \E q \in now : events[q].type = "otherTextStart" /\ \A x \in q..i : ~Ends(events[x])
    BY DEF ForeignFrom
  <2>1. CASE e.type = "otherTextStart"
    BY <1>3, <1>7, <2>1 DEF TextStarts
  <2>2. CASE Foreign(m) /\ ~Ends(e)
    <3>1. PICK q \in was : events[q].type = "otherTextStart" /\ \A x \in q..(i - 1) : ~Ends(events[x])
      BY <1>1, <2>2 DEF ForeignFrom
    <3> QED
      BY <1>4, <1>6, <2>2, <3>1
  <2> QED
    BY <1>2, <2>1, <2>2
<1> HIDE DEF was, now
\* the messages are the same and so is what is known of them
<1>8. ASSUME r.msgs = m.msgs, e.type # "result"
      PROVE  MessagesOk(r.msgs) /\ MsgsFrom(r, i, original, events) /\ Kept(r, original) /\ AnswersAre(r, i, original, events)
  <2>1. MessagesOk(r.msgs) /\ Kept(r, original)
    BY <1>1, <1>8 DEF Kept
  <2>2. MsgsFrom(r, i, original, events)
    BY <1>4, <1>5, <1>8 DEF MsgsFrom, now
  <2>3. AnswersAre(r, i, original, events)
    <3>1. AnsweredIn(original) \subseteq AnsweredIn(r.msgs)
      BY <1>1, <1>8 DEF AnswersAre
    <3>2. \A j \in now : events[j].type = "result" => events[j].id \in AnsweredIn(r.msgs)
      BY <1>4, <1>5, <1>8
    <3>3. \A x \in AnsweredIn(r.msgs) : x = NoId \/ x \in AnsweredIn(original) \/ \E j \in now : events[j].type = "result" /\ events[j].id = x
      BY <1>4, <1>5, <1>8
    <3> QED
      BY <3>1, <3>2, <3>3 DEF AnswersAre, now
  <2> QED
    BY <2>1, <2>2, <2>3
\* nothing is being built
<1>9. ASSUME Cur(r) = <<>> PROVE CurOk(r) /\ CurFrom(r, i, events) /\ Apart(r)
  BY <1>9, EmptyIsSeq DEF CurOk, CurFrom, Apart
<1>10. CASE e.type \in TextStarts
  BY <1>2, <1>7, <1>8, <1>9, <1>10, <1>19 DEF Built, r
<1>18. CASE e.type = "callStart" /\ Foreign(m)
  BY <1>2, <1>7, <1>8, <1>9, <1>18, <1>19 DEF Built, r
<1>11. CASE e.type = "callStart" /\ ~Foreign(m)
  <2>1. r.msgs = m.msgs /\ Cur(r) = Append(Cur(m), new)
    BY <1>2, <1>11
  <2> DEFINE n == Len(Cur(m)) + 1
  <2>2. /\ IsSeq(Cur(r)) /\ DOMAIN Cur(r) = DOMAIN Cur(m) \cup {n} /\ n \notin DOMAIN Cur(m)
        /\ Cur(r)[n] = new /\ \A k \in DOMAIN Cur(m) : Cur(r)[k] = Cur(m)[k]
    <3> HIDE DEF new
    <3> QED
      BY <1>1, <2>1, AppendIsSeq DEF CurOk
  <2> HIDE DEF n
  <2>3. new.id = e.id /\ new.name = e.name /\ new.args = <<>> /\ IsCall(new) /\ Starts(e, new)
    BY <1>11, EmptyIsSeq DEF IsCall, Starts
  <2>4. \A k \in DOMAIN Cur(m) : Cur(m)[k].id # e.id
    <3> SUFFICES ASSUME NEW k \in DOMAIN Cur(m), Cur(m)[k].id = e.id PROVE FALSE
      OBVIOUS
    <3>1. PICK j \in was : Starts(events[j], Cur(m)[k])
      BY <1>5
    <3> QED
      BY <1>3, <1>6, <1>11, <3>1 DEF Starts, EventsOk
  <2>5. \A c : Stands(c, m.msgs) => c.id # e.id
    <3> SUFFICES ASSUME NEW c, Stands(c, m.msgs), c.id = e.id PROVE FALSE
      OBVIOUS
    <3>1. CASE Stands(c, original)
      BY <1>3, <1>11, <3>1 DEF EventsOk
    <3>2. CASE \E j \in was : Starts(events[j], c)
      BY <1>3, <1>6, <1>11, <3>2 DEF Starts, EventsOk
    <3> QED
      BY <1>5, <3>1, <3>2
  <2> HIDE DEF new, e
  <2>6. CurOk(r)
    <3>1. \A k \in DOMAIN Cur(r) : IsCall(Cur(r)[k])
      BY <1>1, <2>2, <2>3 DEF CurOk
    <3>2. \A k, l \in DOMAIN Cur(r) : Cur(r)[k].id = Cur(r)[l].id => k = l
      BY <1>1, <2>2, <2>3, <2>4 DEF CurOk
    <3> QED
      BY <2>2, <3>1, <3>2 DEF CurOk
  <2>7. CurFrom(r, i, events)
    <3> SUFFICES ASSUME NEW k \in DOMAIN Cur(r)
                 PROVE  \E j \in now : Starts(events[j], Cur(r)[k]) /\ \A q \in j..i : ~Ends(events[q])
      BY DEF CurFrom, now
    <3>1. CASE k = n
      BY <1>3, <1>4, <1>7, <1>11, <2>2, <2>3, <3>1 DEF e
    <3>2. CASE k # n
      <4>1. k \in DOMAIN Cur(m) /\ Cur(r)[k] = Cur(m)[k]
        BY <2>2, <3>2
      <4>2. PICK j \in was : Starts(events[j], Cur(m)[k]) /\ \A q \in j..(i - 1) : ~Ends(events[q])
        BY <1>5, <4>1
      <4> QED
        BY <1>4, <1>6, <1>7, <1>11, <4>1, <4>2 DEF e
    <3> QED
      BY <3>1, <3>2
  <2>8. Apart(r)
    BY <1>1, <2>1, <2>2, <2>3, <2>5 DEF Apart
  <2> QED
    BY <1>2, <1>7, <1>8, <1>11, <2>1, <2>6, <2>7, <2>8, <1>19 DEF Built, r, e
<1>12. CASE e.type = "args" /\ Cur(m) = <<>>
  BY <1>2, <1>7, <1>8, <1>9, <1>12, <1>19 DEF Built, r
<1>13. CASE e.type = "args" /\ Cur(m) # <<>>
  <2>1. r.msgs = m.msgs /\ Cur(r) = [Cur(m) EXCEPT ![Len(Cur(m))].args = Append(@, e.id)]
    BY <1>2, <1>13
  <2>2. /\ IsSeq(Cur(r)) /\ DOMAIN Cur(r) = DOMAIN Cur(m)
        /\ \A k \in DOMAIN Cur(m) : IsCall(Cur(r)[k]) /\ Cur(r)[k].id = Cur(m)[k].id /\ Cur(r)[k].name = Cur(m)[k].name
    <3> DEFINE calls == Cur(m)
               id == e.id
    <3>1. IsSeq(calls) /\ calls # <<>> /\ \A k \in DOMAIN calls : IsCall(calls[k])
      BY <1>1, <1>13 DEF CurOk
    <3>2. Cur(r) = [calls EXCEPT ![Len(calls)].args = Append(@, id)]
      BY <2>1
    <3> HIDE DEF calls, id
    <3> DEFINE z == [calls EXCEPT ![Len(calls)].args = Append(@, id)]
    <3>3. /\ IsSeq(z) /\ DOMAIN z = DOMAIN calls
          /\ \A k \in DOMAIN calls : IsCall(z[k]) /\ z[k].id = calls[k].id /\ z[k].name = calls[k].name
      BY <3>1, LastGrows
    <3> HIDE DEF z
    <3> QED
      BY <3>2, <3>3 DEF calls, z
  <2>3. CurOk(r)
    BY <1>1, <2>2 DEF CurOk
  <2>4. CurFrom(r, i, events)
    <3> SUFFICES ASSUME NEW k \in DOMAIN Cur(r)
                 PROVE  \E j \in now : Starts(events[j], Cur(r)[k]) /\ \A q \in j..i : ~Ends(events[q])
      BY DEF CurFrom, now
    <3>1. PICK j \in was : Starts(events[j], Cur(m)[k]) /\ \A q \in j..(i - 1) : ~Ends(events[q])
      BY <1>5, <2>2
    <3>2. Starts(events[j], Cur(r)[k])
      BY <2>2, <3>1 DEF Starts
    <3> QED
      BY <1>4, <1>6, <1>7, <1>13, <3>1, <3>2
  <2>5. Apart(r)
    BY <1>1, <2>1, <2>2 DEF Apart
  <2> QED
    BY <1>2, <1>7, <1>8, <1>13, <2>1, <2>3, <2>4, <2>5, <1>19 DEF Built, r
<1>14. CASE Ends(e) /\ r.msgs = m.msgs
  BY <1>2, <1>7, <1>8, <1>9, <1>14, <1>19 DEF Built, r
<1>15. CASE Ends(e) /\ r.msgs # m.msgs
  <2> DEFINE x == Assistant(Cur(m))
  <2>1. r.msgs = Append(m.msgs, x) /\ Cur(r) = <<>>
    BY <1>2, <1>15
  <2>2. x.calls = Cur(m) /\ x.answers = NoId
    BY MessageFields
  <2> HIDE DEF x
  <2>3. /\ IsSeq(x.calls) /\ \A k \in DOMAIN x.calls : IsSeq(x.calls[k].args)
        /\ \A k, l \in DOMAIN x.calls : x.calls[k].id = x.calls[l].id => k = l
        /\ \A c : Stands(c, m.msgs) => \A k \in DOMAIN x.calls : c.id # x.calls[k].id
    BY <1>1, <2>2 DEF CurOk, IsCall, Apart
  <2>4. /\ MessagesOk(r.msgs)
        /\ \A c : Stands(c, r.msgs) <=> (Stands(c, m.msgs) \/ \E k \in DOMAIN x.calls : x.calls[k] = c)
        /\ AnsweredIn(r.msgs) = AnsweredIn(m.msgs) \cup {NoId}
    BY <1>1, <2>1, <2>2, <2>3, OneMoreMessage
  <2>5. MsgsFrom(r, i, original, events)
    BY <1>4, <1>5, <2>2, <2>4 DEF MsgsFrom, now
  <2>6. Kept(r, original)
    BY <1>1, <2>4 DEF Kept
  <2>7. AnswersAre(r, i, original, events)
    <3>1. AnsweredIn(original) \subseteq AnsweredIn(r.msgs)
      BY <1>1, <2>4 DEF AnswersAre
    <3>2. \A j \in now : events[j].type = "result" => events[j].id \in AnsweredIn(r.msgs)
      BY <1>4, <1>5, <1>7, <1>15, <2>4
    <3>3. \A y \in AnsweredIn(r.msgs) : y = NoId \/ y \in AnsweredIn(original) \/ \E j \in now : events[j].type = "result" /\ events[j].id = y
      BY <1>4, <1>5, <2>4
    <3> QED
      BY <3>1, <3>2, <3>3 DEF AnswersAre, now
  <2> QED
    BY <1>2, <1>9, <2>1, <2>4, <2>5, <2>6, <2>7, <1>19 DEF Built, r
<1>16. CASE e.type = "result"
  <2> DEFINE x == Result(e.id)
  <2>1. r.msgs = Append(m.msgs, x) /\ Cur(r) = Cur(m)
    BY <1>2, <1>16
  <2>2. x.calls = <<>> /\ x.answers = e.id /\ DOMAIN x.calls = {} /\ IsSeq(x.calls)
    BY MessageFields, EmptyIsSeq
  <2> HIDE DEF x
  <2>4. /\ MessagesOk(r.msgs)
        /\ \A c : Stands(c, r.msgs) <=> (Stands(c, m.msgs) \/ \E k \in DOMAIN x.calls : x.calls[k] = c)
        /\ AnsweredIn(r.msgs) = AnsweredIn(m.msgs) \cup {e.id}
    BY <1>1, <2>1, <2>2, OneMoreMessage
  <2>5. MsgsFrom(r, i, original, events) /\ Kept(r, original)
    BY <1>1, <1>4, <1>5, <2>2, <2>4 DEF MsgsFrom, Kept, now
  <2>6. CurOk(r) /\ Apart(r)
    BY <1>1, <2>1, <2>2, <2>4 DEF CurOk, Apart
  <2>7. AnswersAre(r, i, original, events)
    <3>1. AnsweredIn(original) \subseteq AnsweredIn(r.msgs)
      BY <1>1, <2>4 DEF AnswersAre
    <3>2. \A j \in now : events[j].type = "result" => events[j].id \in AnsweredIn(r.msgs)
      BY <1>4, <1>5, <2>4
    <3>3. \A y \in AnsweredIn(r.msgs) : y = NoId \/ y \in AnsweredIn(original) \/ \E j \in now : events[j].type = "result" /\ events[j].id = y
      BY <1>4, <1>5, <1>16, <2>4
    <3> QED
      BY <3>1, <3>2, <3>3 DEF AnswersAre, now
  <2>8. CurFrom(r, i, events)
    BY <1>4, <1>5, <1>6, <1>7, <1>16, <2>1 DEF CurFrom, now
  <2> QED
    BY <1>2, <2>4, <2>5, <2>6, <2>7, <2>8, <1>19 DEF Built, r
<1>17. CASE e.type \notin Collected
  <2>1. r = m
    BY <1>2, <1>17
  <2>2. CurFrom(r, i, events)
    BY <1>4, <1>5, <1>6, <1>7, <1>17, <2>1 DEF CurFrom, now
  <2> QED
    BY <1>1, <1>2, <1>7, <1>8, <1>17, <2>1, <2>2, <1>19 DEF Built, r, CurOk, Apart
<1> QED
  BY <1>7, <1>10, <1>11, <1>12, <1>13, <1>14, <1>15, <1>16, <1>17, <1>18

\* Every call that was begun is there, in a message or in the one being built.
Has(m, e) == (\E c : Stands(c, m.msgs) /\ Starts(e, c)) \/ \E k \in DOMAIN Cur(m) : Starts(e, Cur(m)[k])
Whole(m, i, events) == \A j \in 1..i : events[j].type = "callStart" => Has(m, events[j])
Uninterrupted(events) ==
  \A i, j \in DOMAIN events :
    /\ i < j
    /\ \/ events[i].type = "callStart" /\ events[j].type \in TextStarts
       \/ events[i].type = "otherTextStart" /\ events[j].type = "callStart"
    => \E k \in i..j : Ends(events[k])

\* It stays there if no text is begun within a call, and no call within another role's text.
LEMMA WholeOneMore ==
  ASSUME NEW original, NEW events, EventsOk(original, events), Uninterrupted(events), NEW i \in 1..Len(events),
         NEW m, Built(m, i - 1, original, events), Whole(m, i - 1, events)
  PROVE  Whole(Collect(m, events[i]), i, events)
<1> DEFINE e == events[i]
           r == Collect(m, e)
           new == [id |-> e.id, name |-> e.name, args |-> <<>>]
<1>1. Made(m) /\ MessagesOk(m.msgs) /\ CurOk(m) /\ CurFrom(m, i - 1, events) /\ ForeignFrom(m, i - 1, events)
  BY DEF Built
<1>2. /\ e.type \in TextStarts => r.msgs = m.msgs /\ Cur(r) = <<>>
      /\ e.type = "callStart" => r.msgs = m.msgs /\ Cur(r) = IF Foreign(m) THEN <<>> ELSE Append(Cur(m), new)
      /\ e.type = "args" => r.msgs = m.msgs
           /\ Cur(r) = IF Cur(m) = <<>> THEN <<>> ELSE [Cur(m) EXCEPT ![Len(Cur(m))].args = Append(@, e.id)]
      /\ Ends(e) => /\ Cur(r) = <<>>
                    /\ r.msgs = Append(m.msgs, Assistant(Cur(m))) \/ (r.msgs = m.msgs /\ Cur(m) = <<>>)
      /\ e.type = "result" => Cur(r) = Cur(m) /\ r.msgs = Append(m.msgs, Result(e.id))
      /\ e.type \notin Collected => r = m
  <2> HIDE DEF e
  <2> QED
    BY <1>1, CollectCases
<1> HIDE DEF r
<1>3. /\ DOMAIN events = 1..Len(events) /\ i \in DOMAIN events /\ i \in Nat
      /\ \A j \in 1..i : j = i \/ j \in 1..(i - 1)
      /\ \A j \in 1..(i - 1) : j \in DOMAIN events /\ j < i /\ j..i = j..(i - 1) \cup {i}
  <2>1. DOMAIN events = 1..Len(events) /\ Len(events) \in Nat
    BY SeqFacts DEF EventsOk
  <2> QED
    BY <2>1
\* a call is not begun within another role's text
<1>7. e.type = "callStart" => ~Foreign(m)
  <2> SUFFICES ASSUME e.type = "callStart", Foreign(m) PROVE FALSE
    OBVIOUS
  <2>1. PICK j \in 1..(i - 1) : events[j].type = "otherTextStart" /\ \A q \in j..(i - 1) : ~Ends(events[q])
    BY <1>1 DEF ForeignFrom
  <2>2. \A q \in j..i : ~Ends(events[q])
    BY <1>3, <2>1 DEF Ends
  <2> QED
    BY <1>3, <2>1, <2>2 DEF Uninterrupted
<1>4. ASSUME NEW x PROVE Has(m, x) => Has(r, x)
  <2> SUFFICES ASSUME Has(m, x) PROVE Has(r, x)
    OBVIOUS
  <2>1. CASE e.type \in TextStarts
    <3>1. DOMAIN Cur(m) = {}
      <4> SUFFICES ASSUME NEW k \in DOMAIN Cur(m) PROVE FALSE
        OBVIOUS
      <4>1. PICK j \in 1..(i - 1) : Starts(events[j], Cur(m)[k]) /\ \A q \in j..(i - 1) : ~Ends(events[q])
        BY <1>1 DEF CurFrom
      <4>2. \A q \in j..i : ~Ends(events[q])
        BY <1>3, <2>1, <4>1 DEF Ends, TextStarts
      <4> QED
        BY <1>3, <2>1, <4>1, <4>2 DEF Uninterrupted, Starts
    <3> QED
      BY <1>2, <2>1, <3>1 DEF Has
  <2>2. CASE e.type = "callStart"
    <3>1. r.msgs = m.msgs /\ Cur(r) = Append(Cur(m), new)
      BY <1>2, <1>7, <2>2
    <3> HIDE DEF new
    <3>2. DOMAIN Cur(m) \subseteq DOMAIN Cur(r) /\ \A k \in DOMAIN Cur(m) : Cur(r)[k] = Cur(m)[k]
      BY <1>1, <3>1, AppendIsSeq DEF CurOk
    <3> QED
      BY <3>1, <3>2 DEF Has
  <2>3. CASE e.type = "args" /\ Cur(m) = <<>>
    <3>1. r.msgs = m.msgs /\ Cur(r) = Cur(m)
      BY <1>2, <2>3
    <3> QED
      BY <3>1 DEF Has
  <2>4. CASE e.type = "args" /\ Cur(m) # <<>>
    <3> DEFINE calls == Cur(m)
               id == e.id
               z == [calls EXCEPT ![Len(calls)].args = Append(@, id)]
    <3>1. r.msgs = m.msgs /\ Cur(r) = z
      BY <1>2, <2>4
    <3>2. IsSeq(calls) /\ calls # <<>> /\ \A k \in DOMAIN calls : IsCall(calls[k])
      BY <1>1, <2>4 DEF CurOk
    <3> HIDE DEF calls, id
    <3>3. DOMAIN z = DOMAIN calls /\ \A k \in DOMAIN calls : z[k].id = calls[k].id /\ z[k].name = calls[k].name
      BY <3>2, LastGrows
    <3> HIDE DEF z
    <3>4. DOMAIN Cur(r) = DOMAIN Cur(m) /\ \A k \in DOMAIN Cur(m) : Cur(r)[k].id = Cur(m)[k].id /\ Cur(r)[k].name = Cur(m)[k].name
      BY <3>1, <3>3 DEF calls
    <3> QED
      BY <3>1, <3>4 DEF Has, Starts
  <2>5. CASE Ends(e) /\ r.msgs = m.msgs /\ Cur(m) = <<>>
    BY <1>2, <2>5, EmptyIsSeq DEF Has
  <2>6. CASE Ends(e) /\ ~(r.msgs = m.msgs /\ Cur(m) = <<>>)
    <3>1. r.msgs = Append(m.msgs, Assistant(Cur(m))) /\ Assistant(Cur(m)).calls = Cur(m)
      BY <1>2, <2>6, MessageFields
    <3> DEFINE x0 == Assistant(Cur(m))
    <3> HIDE DEF x0
    <3>2. \A c : Stands(c, Append(m.msgs, x0)) <=> (Stands(c, m.msgs) \/ \E k \in DOMAIN x0.calls : x0.calls[k] = c)
      <4>1. /\ IsSeq(x0.calls) /\ \A k \in DOMAIN x0.calls : IsSeq(x0.calls[k].args)
            /\ \A k, l \in DOMAIN x0.calls : x0.calls[k].id = x0.calls[l].id => k = l
            /\ \A c : Stands(c, m.msgs) => \A k \in DOMAIN x0.calls : c.id # x0.calls[k].id
        BY <1>1, <3>1 DEF CurOk, IsCall, Apart, x0, Built
      <4> QED
        BY <1>1, <4>1, OneMoreMessage
    <3>3. \A c : Stands(c, r.msgs) <=> (Stands(c, m.msgs) \/ \E k \in DOMAIN Cur(m) : Cur(m)[k] = c)
      BY <3>1, <3>2 DEF x0
    <3> QED
      BY <3>3 DEF Has
  <2>7. CASE e.type = "result"
    <3> DEFINE x0 == Result(e.id)
    <3>1. r.msgs = Append(m.msgs, x0) /\ Cur(r) = Cur(m) /\ x0.calls = <<>>
      BY <1>2, <2>7, MessageFields
    <3> HIDE DEF x0
    <3>2. IsSeq(x0.calls) /\ DOMAIN x0.calls = {}
      BY <3>1, EmptyIsSeq
    <3>3. \A c : Stands(c, r.msgs) <=> (Stands(c, m.msgs) \/ \E k \in DOMAIN x0.calls : x0.calls[k] = c)
      BY <1>1, <3>1, <3>2, OneMoreMessage
    <3> QED
      BY <3>1, <3>3 DEF Has
  <2>8. CASE e.type \notin Collected
    BY <1>2, <2>8
  <2> QED
    BY <1>2, <2>1, <2>2, <2>3, <2>4, <2>5, <2>6, <2>7, <2>8 DEF Ends, TextStarts, Collected
<1>5. e.type = "callStart" => Has(r, e)
  <2> SUFFICES ASSUME e.type = "callStart" PROVE Has(r, e)
    OBVIOUS
  <2>1. Starts(e, new) /\ Cur(r) = Append(Cur(m), new)
    BY <1>2, <1>7 DEF Starts
  <2> HIDE DEF new
  <2>2. Len(Cur(m)) + 1 \in DOMAIN Cur(r) /\ Cur(r)[Len(Cur(m)) + 1] = new
    BY <1>1, <2>1, AppendIsSeq DEF CurOk
  <2> QED
    BY <2>1, <2>2 DEF Has
<1>6. \A j \in 1..i : events[j].type = "callStart" => Has(r, events[j])
  BY <1>3, <1>4, <1>5 DEF Whole
<1> QED
  BY <1>6 DEF Whole, r

\* A set of numbers has a least one.
LEMMA LeastOf ==
  ASSUME NEW S, S \subseteq Nat, S # {}
  PROVE  \E m \in S : \A y \in S : m <= y
<1>1. PICK m \in S : \A y \in S : ~(<<y, m>> \in OpToRel(<, Nat))
  BY NatLessThanWellFounded, WFMin
<1>2. m \in Nat /\ \A y \in S : y \in Nat
  OBVIOUS
<1>3. ASSUME NEW y \in S PROVE <<y, m>> \in OpToRel(<, Nat) <=> y < m
  <2>1. y \in Nat
    OBVIOUS
  <2> QED
    BY <1>2, <2>1, Zenon DEF OpToRel
<1>4. \A y \in S : ~(y < m)
  BY <1>1, <1>3
<1> QED
  BY <1>2, <1>4

\* The arguments of a call are the first thing said after it was begun, and once.
Follows(events) ==
  \A j, k \in DOMAIN events :
    j < k /\ events[j].type = "callStart" /\ ~Dropped(events[k]) /\ (\A l \in (j + 1)..(k - 1) : Dropped(events[l]))
      => events[k].type = "args" /\ events[k].id = events[j].id
ArgsOk(events) ==
  /\ \A i, j \in DOMAIN events : events[i].type = "args" /\ events[j].type = "args" /\ events[i].id = events[j].id => i = j
  /\ \A i \in DOMAIN events : events[i].type = "args" =>
       \E j \in 1..i : events[j].type = "callStart" /\ events[j].id = events[i].id

\* After i events, the j-th still waits for its arguments.
Waits(j, i, events) == events[j].type = "callStart" /\ \A k \in (j + 1)..i : Dropped(events[k])
ArgsBuilt(m, i, original, events) ==
  /\ \A c : Stands(c, m.msgs) => Stands(c, original) \/ c.args = <<c.id>>
  /\ \A k \in DOMAIN Cur(m) :
       LET c == Cur(m)[k]
       IN c.args = <<c.id>> \/ (c.args = <<>> /\ \E j \in 1..i : Waits(j, i, events) /\ events[j].id = c.id)
  /\ Cur(m) # <<>> => \A j \in 1..i : Waits(j, i, events) =>
       LET n == Len(Cur(m)) IN Cur(m)[n].id = events[j].id /\ Cur(m)[n].args = <<>>

\* Each call has its own arguments, or is the last one begun and waits for them.
LEMMA ArgsOneMore ==
  ASSUME NEW original, NEW events, EventsOk(original, events), Follows(events), ArgsOk(events), NEW i \in 1..Len(events),
         NEW m, Built(m, i - 1, original, events), ArgsBuilt(m, i - 1, original, events)
  PROVE  ArgsBuilt(Collect(m, events[i]), i, original, events)
<1> DEFINE e == events[i]
           r == Collect(m, e)
           new == [id |-> e.id, name |-> e.name, args |-> <<>>]
<1>1. Made(m) /\ MessagesOk(m.msgs) /\ CurOk(m) /\ Apart(m)
  BY DEF Built
<1>2. /\ e.type \in TextStarts => r.msgs = m.msgs /\ Cur(r) = <<>>
      /\ e.type = "callStart" => r.msgs = m.msgs /\ Cur(r) = IF Foreign(m) THEN <<>> ELSE Append(Cur(m), new)
      /\ e.type = "args" => r.msgs = m.msgs
           /\ Cur(r) = IF Cur(m) = <<>> THEN <<>> ELSE [Cur(m) EXCEPT ![Len(Cur(m))].args = Append(@, e.id)]
      /\ Ends(e) => /\ Cur(r) = <<>>
                    /\ r.msgs = Append(m.msgs, Assistant(Cur(m))) \/ (r.msgs = m.msgs /\ Cur(m) = <<>>)
      /\ e.type = "result" => Cur(r) = Cur(m) /\ r.msgs = Append(m.msgs, Result(e.id))
      /\ e.type \notin Collected => r = m
  <2> HIDE DEF e
  <2> QED
    BY <1>1, CollectCases
<1> HIDE DEF r
<1>3. /\ DOMAIN events = 1..Len(events) /\ i \in DOMAIN events /\ i \in Nat
      /\ \A j \in 1..i : j = i \/ j \in 1..(i - 1)
      /\ \A j \in 1..(i - 1) : j \in DOMAIN events /\ j < i /\ j \in 1..i
      /\ \A j \in 1..(i - 1) : (j + 1)..i = (j + 1)..(i - 1) \cup {i} /\ i \in (j + 1)..i
      /\ (i + 1)..i = {} /\ i \in 1..i
  <2>1. DOMAIN events = 1..Len(events) /\ Len(events) \in Nat
    BY SeqFacts DEF EventsOk
  <2> QED
    BY <2>1
\* what waits gets its arguments now, unless the event is dropped
<1>4. ASSUME ~Dropped(e), NEW j \in 1..(i - 1), Waits(j, i - 1, events)
      PROVE  e.type = "args" /\ e.id = events[j].id
  BY <1>3, <1>4 DEF Follows, Waits
<1>5. \A j \in 1..(i - 1) : Waits(j, i, events) <=> Dropped(e) /\ Waits(j, i - 1, events)
  BY <1>3 DEF Waits
<1>6. Waits(i, i, events) <=> e.type = "callStart"
  BY <1>3 DEF Waits
<1>7. /\ \A k \in DOMAIN Cur(m) : Cur(m)[k].args = <<Cur(m)[k].id>>
           \/ (Cur(m)[k].args = <<>> /\ \E j \in 1..(i - 1) : Waits(j, i - 1, events) /\ events[j].id = Cur(m)[k].id)
      /\ \A c : Stands(c, m.msgs) => Stands(c, original) \/ c.args = <<c.id>>
      /\ Cur(m) # <<>> => \A j \in 1..(i - 1) : Waits(j, i - 1, events) =>
           Cur(m)[Len(Cur(m))].id = events[j].id /\ Cur(m)[Len(Cur(m))].args = <<>>
  BY DEF ArgsBuilt
<1>8. ASSUME ~Dropped(e), e.type # "args"
      PROVE  \A k \in DOMAIN Cur(m) : Cur(m)[k].args = <<Cur(m)[k].id>>
  BY <1>4, <1>7, <1>8
<1>9. CASE Dropped(e)
  <2>1. r = m
    BY <1>2, <1>9 DEF Dropped, Collected
  <2>2. \A k \in DOMAIN Cur(r) : Cur(r)[k].args = <<Cur(r)[k].id>>
           \/ (Cur(r)[k].args = <<>> /\ \E j \in 1..i : Waits(j, i, events) /\ events[j].id = Cur(r)[k].id)
    BY <1>3, <1>5, <1>7, <1>9, <2>1
  <2>3. ~Waits(i, i, events)
    BY <1>6, <1>9 DEF Dropped
  <2>4. Cur(r) # <<>> => \A j \in 1..i : Waits(j, i, events) =>
           Cur(r)[Len(Cur(r))].id = events[j].id /\ Cur(r)[Len(Cur(r))].args = <<>>
    BY <1>3, <1>5, <1>7, <2>1, <2>3
  <2> QED
    BY <1>7, <2>1, <2>2, <2>4 DEF ArgsBuilt, r
<1>10. CASE ~Dropped(e) /\ e.type \notin {"args", "callStart"}
  <2>1. \A j \in 1..i : ~Waits(j, i, events)
    BY <1>3, <1>5, <1>6, <1>10
  <2>2. \A k \in DOMAIN Cur(m) : Cur(m)[k].args = <<Cur(m)[k].id>>
    BY <1>8, <1>10
  <2>3. /\ \A k \in DOMAIN Cur(r) : Cur(r)[k].args = <<Cur(r)[k].id>>
        /\ \A c : Stands(c, r.msgs) => Stands(c, original) \/ c.args = <<c.id>>
    <3>1. CASE e.type \in TextStarts \/ (Ends(e) /\ r.msgs = m.msgs)
      <4>1. r.msgs = m.msgs /\ DOMAIN Cur(r) = {}
        BY <1>2, <3>1, EmptyIsSeq DEF Ends
      <4> QED
        BY <1>7, <4>1
    <3>2. CASE Ends(e) /\ r.msgs # m.msgs
      <4> DEFINE x0 == Assistant(Cur(m))
      <4>1. r.msgs = Append(m.msgs, x0) /\ x0.calls = Cur(m) /\ DOMAIN Cur(r) = {}
        BY <1>2, <3>2, MessageFields, EmptyIsSeq
      <4> HIDE DEF x0
      <4>2. /\ IsSeq(x0.calls) /\ \A k \in DOMAIN x0.calls : IsSeq(x0.calls[k].args)
            /\ \A k, l \in DOMAIN x0.calls : x0.calls[k].id = x0.calls[l].id => k = l
            /\ \A c : Stands(c, m.msgs) => \A k \in DOMAIN x0.calls : c.id # x0.calls[k].id
        BY <1>1, <4>1 DEF CurOk, IsCall, Apart
      <4>3. \A c : Stands(c, r.msgs) <=> (Stands(c, m.msgs) \/ \E k \in DOMAIN x0.calls : x0.calls[k] = c)
        BY <1>1, <4>1, <4>2, OneMoreMessage
      <4> QED
        BY <1>7, <2>2, <4>1, <4>3
    <3>3. CASE e.type = "result"
      <4> DEFINE x0 == Result(e.id)
      <4>1. r.msgs = Append(m.msgs, x0) /\ Cur(r) = Cur(m) /\ x0.calls = <<>>
        BY <1>2, <3>3, MessageFields
      <4> HIDE DEF x0
      <4>2. IsSeq(x0.calls) /\ DOMAIN x0.calls = {}
        BY <4>1, EmptyIsSeq
      <4>3. \A c : Stands(c, r.msgs) <=> (Stands(c, m.msgs) \/ \E k \in DOMAIN x0.calls : x0.calls[k] = c)
        BY <1>1, <4>1, <4>2, OneMoreMessage
      <4> QED
        BY <1>7, <2>2, <4>1, <4>2, <4>3
    <3>4. CASE e.type \notin Collected
      BY <1>2, <1>7, <2>2, <3>4
    <3> QED
      BY <1>2, <1>10, <3>1, <3>2, <3>3, <3>4 DEF Ends, TextStarts, Collected
  <2> QED
    BY <2>1, <2>3 DEF ArgsBuilt, r
<1>14. CASE e.type = "callStart" /\ Foreign(m)
  <2>1. r.msgs = m.msgs /\ Cur(r) = <<>> /\ DOMAIN Cur(r) = {}
    BY <1>2, <1>14, EmptyIsSeq
  <2> QED
    BY <1>7, <2>1 DEF ArgsBuilt, r
<1>11. CASE e.type = "callStart" /\ ~Foreign(m)
  <2>1. r.msgs = m.msgs /\ Cur(r) = Append(Cur(m), new) /\ ~Dropped(e)
    BY <1>2, <1>11 DEF Dropped
  <2> DEFINE n == Len(Cur(m)) + 1
  <2>2. new.id = e.id /\ new.args = <<>>
    OBVIOUS
  <2> HIDE DEF new
  <2>3. /\ Len(Cur(r)) = n /\ DOMAIN Cur(r) = DOMAIN Cur(m) \cup {n}
        /\ IsSeq(Cur(r)) /\ Cur(r)[n] = new /\ \A k \in DOMAIN Cur(m) : Cur(r)[k] = Cur(m)[k]
    BY <1>1, <2>1, AppendIsSeq DEF CurOk
  <2> HIDE DEF n
  <2>4. Cur(r) # <<>>
    BY <2>3, EmptyIsSeq
  <2>5. \A k \in DOMAIN Cur(r) : Cur(r)[k].args = <<Cur(r)[k].id>>
           \/ (Cur(r)[k].args = <<>> /\ \E j \in 1..i : Waits(j, i, events) /\ events[j].id = Cur(r)[k].id)
    BY <1>3, <1>6, <1>8, <1>11, <2>1, <2>2, <2>3
  <2>6. Cur(r) # <<>> => \A j \in 1..i : Waits(j, i, events) =>
           Cur(r)[Len(Cur(r))].id = events[j].id /\ Cur(r)[Len(Cur(r))].args = <<>>
    BY <1>3, <1>5, <2>1, <2>2, <2>3, <2>4
  <2> QED
    BY <1>7, <2>1, <2>5, <2>6 DEF ArgsBuilt, r
<1>12. CASE e.type = "args" /\ Cur(m) = <<>>
  <2>1. r.msgs = m.msgs /\ DOMAIN Cur(r) = {} /\ ~Dropped(e)
    BY <1>2, <1>12, EmptyIsSeq DEF Dropped
  <2>2. \A j \in 1..i : ~Waits(j, i, events)
    BY <1>3, <1>5, <1>6, <1>12, <2>1
  <2> QED
    BY <1>7, <2>1, <2>2 DEF ArgsBuilt, r
<1>13. CASE e.type = "args" /\ Cur(m) # <<>>
  <2> DEFINE calls == Cur(m)
             id == e.id
             z == [calls EXCEPT ![Len(calls)].args = Append(@, id)]
             n == Len(calls)
  <2>1. r.msgs = m.msgs /\ Cur(r) = z /\ ~Dropped(e)
    BY <1>2, <1>13 DEF Dropped
  <2>2. IsSeq(calls) /\ calls # <<>> /\ \A k \in DOMAIN calls : IsCall(calls[k])
    BY <1>1, <1>13 DEF CurOk
  <2> HIDE DEF calls, id, n
  <2>3. /\ DOMAIN z = DOMAIN calls /\ n \in DOMAIN calls
        /\ \A k \in DOMAIN calls : k # n => z[k] = calls[k]
        /\ z[n] = [id |-> calls[n].id, name |-> calls[n].name, args |-> Append(calls[n].args, id)]
    BY <2>2, LastGrows DEF n
  <2> HIDE DEF z
  <2>4. \A j \in 1..i : ~Waits(j, i, events)
    BY <1>3, <1>5, <1>6, <1>13, <2>1
  <2>5. PICK j \in 1..(i - 1) : events[j].type = "callStart" /\ events[j].id = id
    <3>1. PICK j \in 1..i : events[j].type = "callStart" /\ events[j].id = id
      BY <1>3, <1>13 DEF ArgsOk, id
    <3> QED
      BY <1>3, <1>13, <3>1
  <2>6. Waits(j, i - 1, events)
    <3> DEFINE S == {k \in (j + 1)..(i - 1) : ~Dropped(events[k])}
    <3> SUFFICES ASSUME S # {} PROVE FALSE
      BY <2>5 DEF Waits
    <3>1. S \subseteq Nat
      OBVIOUS
    <3>2. PICK k \in S : \A y \in S : k <= y
      <4> HIDE DEF S
      <4> QED
        BY <3>1, LeastOf
    <3>3. k \in (j + 1)..(i - 1) /\ ~Dropped(events[k])
      OBVIOUS
    <3>4. k \in DOMAIN events /\ k < i /\ j < k /\ j \in DOMAIN events
      BY <1>3, <3>3
    <3>5. \A l \in (j + 1)..(k - 1) : Dropped(events[l])
      <4> SUFFICES ASSUME NEW l \in (j + 1)..(k - 1), ~Dropped(events[l]) PROVE FALSE
        OBVIOUS
      <4>1. l \in S /\ ~(k <= l)
        BY <1>3, <3>3
      <4> QED
        BY <3>2, <4>1
    <3>6. events[k].type = "args" /\ events[k].id = id
      BY <2>5, <3>3, <3>4, <3>5 DEF Follows
    <3>7. k = i
      BY <1>3, <1>13, <3>4, <3>6 DEF ArgsOk, id
    <3> QED
      BY <1>3, <3>4, <3>7
  <2>7. calls[n].id = id /\ calls[n].args = <<>>
    BY <1>7, <2>2, <2>5, <2>6 DEF calls, n
  <2>8. z[n].args = <<z[n].id>>
    <3>1. Append(<<>>, id) = <<id>>
      OBVIOUS
    <3> QED
      BY <2>3, <2>7, <3>1
  <2>9. ASSUME NEW k \in DOMAIN calls, k # n PROVE z[k].args = <<z[k].id>>
    <3>1. CASE calls[k].args = <<calls[k].id>>
      BY <2>3, <2>9, <3>1
    <3>2. CASE \E l \in 1..(i - 1) : Waits(l, i - 1, events) /\ events[l].id = calls[k].id
      <4>1. PICK l \in 1..(i - 1) : Waits(l, i - 1, events) /\ events[l].id = calls[k].id
        BY <3>2
      <4>2. calls[n].id = calls[k].id
        BY <1>7, <2>2, <4>1 DEF calls, n
      <4> QED
        BY <1>1, <2>3, <2>9, <4>2 DEF CurOk, calls
    <3> QED
      BY <1>7, <3>1, <3>2 DEF calls
  <2>10. \A k \in DOMAIN Cur(r) : Cur(r)[k].args = <<Cur(r)[k].id>>
    BY <2>1, <2>3, <2>8, <2>9
  <2> QED
    BY <1>7, <2>1, <2>4, <2>10 DEF ArgsBuilt, r
<1> QED
  BY <1>9, <1>10, <1>11, <1>12, <1>13, <1>14

\* ReconstructMessages adds the calls begun to the conversation: none comes from nowhere and none
\* of before is lost; none that was begun is lost either, if no text is begun within a call and no call within
\* another role's text; and each has its own arguments, if they come at once.
LEMMA Reconstructed ==
  ASSUME NEW original, NEW events, EventsOk(original, events)
  PROVE  LET msgs == ReconstructMessages(original, events)
         IN /\ MessagesOk(msgs)
            /\ \A c : Stands(c, msgs) => Stands(c, original) \/ \E j \in DOMAIN events : Starts(events[j], c)
            /\ \A c : Stands(c, original) => Stands(c, msgs)
            /\ \A x \in AnsweredIn(msgs) :
                 x = NoId \/ x \in AnsweredIn(original) \/ \E j \in DOMAIN events : events[j].type = "result" /\ events[j].id = x
            /\ AnsweredIn(original) \subseteq AnsweredIn(msgs)
            /\ \A j \in DOMAIN events : events[j].type = "result" => events[j].id \in AnsweredIn(msgs)
            /\ Uninterrupted(events) => \A j \in DOMAIN events : events[j].type = "callStart" =>
                 \E c : Stands(c, msgs) /\ Starts(events[j], c)
            /\ Follows(events) /\ ArgsOk(events) /\ (\A j \in DOMAIN events : ~Waits(j, Len(events), events)) =>
                 \A c : Stands(c, msgs) => Stands(c, original) \/ c.args = <<c.id>>
<1> DEFINE msgs == ReconstructMessages(original, events)
           n == Len(events)
<1>1. n \in Nat /\ DOMAIN events = 1..n /\ MessagesOk(original)
  BY SeqFacts DEF EventsOk
<1> HIDE DEF n
<1>2. PICK g : /\ g[0] = [msgs |-> original, cur |-> <<>>, role |-> "assistant"]
               /\ \A i \in 1..n : g[i] = Collect(g[i - 1], events[i])
               /\ msgs = IF g[n].cur = <<>> THEN g[n].msgs ELSE Append(g[n].msgs, Message(g[n].role, g[n].cur[1]))
  BY ReconstructIs DEF EventsOk, n
<1> HIDE DEF msgs
<1>3. g[0].msgs = original /\ g[0].cur = <<>> /\ Cur(g[0]) = <<>> /\ DOMAIN Cur(g[0]) = {} /\ Made(g[0]) /\ ~Foreign(g[0])
  BY <1>2, EmptyIsSeq DEF Cur, Made, Foreign
<1>4. Built(g[0], 0, original, events)
  <2>1. CurOk(g[0]) /\ CurFrom(g[0], 0, events) /\ Apart(g[0]) /\ ForeignFrom(g[0], 0, events)
    BY <1>3, EmptyIsSeq DEF CurOk, CurFrom, Apart, ForeignFrom
  <2>2. MsgsFrom(g[0], 0, original, events) /\ Kept(g[0], original)
    BY <1>3 DEF MsgsFrom, Kept
  <2>3. AnswersAre(g[0], 0, original, events)
    BY <1>3 DEF AnswersAre
  <2> QED
    BY <1>1, <1>3, <2>1, <2>2, <2>3 DEF Built
<1>5. ASSUME NEW i \in 1..n PROVE g[i] = Collect(g[i - 1], events[i]) /\ i \in 1..Len(events) /\ i - 1 \in 0..n
  BY <1>1, <1>2 DEF n
<1> DEFINE S == {i \in 0..n : Built(g[i], i, original, events)}
<1>7. \A i \in 0..n : Built(g[i], i, original, events)
  <2>1. ASSUME NEW i \in 1..n, i - 1 \in S PROVE i \in S
    <3>1. Built(g[i - 1], i - 1, original, events)
      BY <2>1
    <3>2. Built(g[i], i, original, events)
      BY <1>5, <3>1, BuildOneMore
    <3> QED
      BY <3>2
  <2>2. 0 \in S /\ \A i \in 1..n : i - 1 \in S => i \in S
    BY <1>1, <1>4, <2>1
  <2>3. \A i \in 0..n : i \in S
    <3> HIDE DEF S
    <3> QED
      BY <1>1, <2>2, UpTo
  <2> QED
    BY <2>3
<1> HIDE DEF S
<1> DEFINE m == g[n]
           x0 == Assistant(Cur(m))
<1>8. Made(m) /\ MessagesOk(m.msgs) /\ CurOk(m) /\ CurFrom(m, n, events) /\ MsgsFrom(m, n, original, events)
      /\ Apart(m) /\ Kept(m, original) /\ AnswersAre(m, n, original, events)
  BY <1>1, <1>7 DEF Built
\* what is still being built is the last message
<1>9. /\ MessagesOk(msgs)
      /\ \A c : Stands(c, msgs) <=> (Stands(c, m.msgs) \/ \E k \in DOMAIN Cur(m) : Cur(m)[k] = c)
      /\ AnsweredIn(msgs) \subseteq AnsweredIn(m.msgs) \cup {NoId} /\ AnsweredIn(m.msgs) \subseteq AnsweredIn(msgs)
  <2>1. CASE m.cur = <<>>
    <3>1. msgs = m.msgs /\ DOMAIN Cur(m) = {}
      BY <1>2, <2>1, EmptyIsSeq DEF Cur
    <3> QED
      BY <1>8, <3>1
  <2>2. CASE m.cur # <<>>
    <3>1. msgs = Append(m.msgs, x0) /\ x0.calls = Cur(m) /\ x0.answers = NoId
      <4>1. Message(m.role, m.cur[1]) = x0
        BY <2>2 DEF Message, Cur
      <4> QED
        BY <1>2, <2>2, <4>1, MessageFields
    <3> HIDE DEF x0
    <3>2. /\ IsSeq(x0.calls) /\ \A k \in DOMAIN x0.calls : IsSeq(x0.calls[k].args)
          /\ \A k, l \in DOMAIN x0.calls : x0.calls[k].id = x0.calls[l].id => k = l
          /\ \A c : Stands(c, m.msgs) => \A k \in DOMAIN x0.calls : c.id # x0.calls[k].id
      BY <1>8, <3>1 DEF CurOk, IsCall, Apart
    <3> HIDE DEF m
    <3>3. /\ MessagesOk(msgs)
          /\ \A c : Stands(c, msgs) <=> (Stands(c, m.msgs) \/ \E k \in DOMAIN x0.calls : x0.calls[k] = c)
          /\ AnsweredIn(msgs) = AnsweredIn(m.msgs) \cup {x0.answers}
      BY <1>8, <3>1, <3>2, OneMoreMessage
    <3> QED
      BY <3>1, <3>3
  <2> QED
    BY <2>1, <2>2
<1>10. \A c : Stands(c, msgs) => Stands(c, original) \/ \E j \in DOMAIN events : Starts(events[j], c)
  BY <1>1, <1>8, <1>9 DEF MsgsFrom, CurFrom
<1>11. \A c : Stands(c, original) => Stands(c, msgs)
  BY <1>8, <1>9 DEF Kept
<1>12. \A x \in AnsweredIn(msgs) :
          x = NoId \/ x \in AnsweredIn(original) \/ \E j \in DOMAIN events : events[j].type = "result" /\ events[j].id = x
  BY <1>1, <1>8, <1>9 DEF AnswersAre
<1>13. /\ AnsweredIn(original) \subseteq AnsweredIn(msgs)
       /\ \A j \in DOMAIN events : events[j].type = "result" => events[j].id \in AnsweredIn(msgs)
  BY <1>1, <1>8, <1>9 DEF AnswersAre
<1>14. ASSUME Uninterrupted(events)
       PROVE  \A j \in DOMAIN events : events[j].type = "callStart" => \E c : Stands(c, msgs) /\ Starts(events[j], c)
  <2> DEFINE T == {i \in 0..n : Whole(g[i], i, events)}
  <2>1. 0 \in T
    BY <1>1 DEF Whole
  <2>2. ASSUME NEW i \in 1..n, i - 1 \in T PROVE i \in T
    <3>1. Whole(g[i - 1], i - 1, events) /\ Built(g[i - 1], i - 1, original, events)
      BY <1>5, <1>7, <2>2
    <3>2. Whole(g[i], i, events)
      BY <1>5, <1>14, <3>1, WholeOneMore
    <3> QED
      BY <3>2
  <2>3. \A i \in 1..n : i - 1 \in T => i \in T
    BY <2>2
  <2>4. n \in T
    <3> HIDE DEF T
    <3> QED
      BY <1>1, <2>1, <2>3, UpTo
  <2>5. Whole(m, n, events)
    BY <2>4
  <2> QED
    BY <1>1, <1>9, <2>5 DEF Whole, Has
<1>15. ASSUME Follows(events), ArgsOk(events), \A j \in DOMAIN events : ~Waits(j, Len(events), events)
       PROVE  \A c : Stands(c, msgs) => Stands(c, original) \/ c.args = <<c.id>>
  <2> DEFINE T == {i \in 0..n : ArgsBuilt(g[i], i, original, events)}
  <2>1. 0 \in T
    BY <1>1, <1>3 DEF ArgsBuilt
  <2>2. ASSUME NEW i \in 1..n, i - 1 \in T PROVE i \in T
    <3>1. ArgsBuilt(g[i - 1], i - 1, original, events) /\ Built(g[i - 1], i - 1, original, events)
      BY <1>5, <1>7, <2>2
    <3>2. ArgsBuilt(g[i], i, original, events)
      BY <1>5, <1>15, <3>1, ArgsOneMore
    <3> QED
      BY <3>2
  <2>3. \A i \in 1..n : i - 1 \in T => i \in T
    BY <2>2
  <2>4. n \in T
    <3> HIDE DEF T
    <3> QED
      BY <1>1, <2>1, <2>3, UpTo
  <2>5. ArgsBuilt(m, n, original, events)
    BY <2>4
  <2>6. \A j \in 1..n : ~Waits(j, n, events)
    BY <1>1, <1>15 DEF n
  <2>7. \A k \in DOMAIN Cur(m) : Cur(m)[k].args = <<Cur(m)[k].id>>
    BY <2>5, <2>6 DEF ArgsBuilt
  <2> QED
    BY <1>9, <2>5, <2>7 DEF ArgsBuilt
<1> HIDE DEF m
<1> QED
  BY <1>9, <1>10, <1>11, <1>12, <1>13, <1>14, <1>15 DEF msgs

-----------------------------------------------------------------------------
(* Conversation: what the client sends next.                               *)

\* The image of a finite set under a function is finite.
LEMMA ImageIsFinite ==
  ASSUME NEW S, IsFiniteSet(S), NEW f, DOMAIN f = S
  PROVE  IsFiniteSet({f[x] : x \in S})
<1> DEFINE T == {f[x] : x \in S}
           h == [x \in S |-> f[x]]
<1>1. h \in Surjection(S, T)
  BY DEF Surjection
<1> QED
  BY <1>1, FS_Surjection

\* SetToSeq of a finite set is a sequence of its elements.
LEMMA SetToSeqIs ==
  ASSUME NEW S, IsFiniteSet(S)
  PROVE  IsSeq(SetToSeq(S)) /\ \A k \in DOMAIN SetToSeq(S) : SetToSeq(S)[k] \in S
<1> DEFINE n == Cardinality(S)
           r == SetToSeq(S)
<1>1. n \in Nat /\ ExistsBijection(1..n, S)
  BY FS_CardinalityType
<1>2. \E f \in [1..n -> S] : IsInjective(f)
  BY <1>1 DEF ExistsBijection, Bijection, Injection, IsInjective
<1>3. r \in [1..n -> S]
  BY <1>2 DEF SetToSeq
<1> HIDE DEF r, n
<1>4. r = [i \in 1..n |-> r[i]] /\ DOMAIN r = 1..n /\ \A k \in DOMAIN r : r[k] \in S
  BY <1>3
<1>5. IsSeq(r)
  BY <1>1, <1>4, FunctionIsSeq
<1> QED
  BY <1>4, <1>5 DEF r

\* Three sequences of messages in a row.
LEMMA ThreeInARow ==
  ASSUME NEW a, IsSeq(a), NEW b, IsSeq(b), NEW c, IsSeq(c)
  PROVE  LET s == a \o b \o c
             upto == Len(a) + Len(b)
         IN /\ IsSeq(s) /\ Len(a) \in Nat /\ Len(b) \in Nat /\ Len(c) \in Nat
            /\ \A i \in DOMAIN s : \/ i \in DOMAIN a /\ s[i] = a[i]
                                   \/ i - Len(a) \in DOMAIN b /\ i \in Nat /\ s[i] = b[i - Len(a)] /\ i > Len(a) /\ i <= upto
                                   \/ i - upto \in DOMAIN c /\ i \in Nat /\ s[i] = c[i - upto] /\ i > upto
<1> DEFINE ab == a \o b
           s == ab \o c
           upto == Len(a) + Len(b)
<1>1. /\ Len(a) \in Nat /\ DOMAIN a = 1..Len(a) /\ Len(b) \in Nat /\ DOMAIN b = 1..Len(b)
      /\ Len(c) \in Nat /\ DOMAIN c = 1..Len(c)
  BY SeqFacts
<1>2. /\ IsSeq(ab) /\ Len(ab) = upto
      /\ \A i \in 1..Len(a) : ab[i] = a[i]
      /\ \A i \in 1..Len(b) : ab[Len(a) + i] = b[i]
  BY ConcatIsSeq
<1> HIDE DEF ab
<1>3. /\ IsSeq(s) /\ Len(s) = Len(ab) + Len(c)
      /\ \A i \in 1..Len(ab) : s[i] = ab[i]
      /\ \A i \in 1..Len(c) : s[Len(ab) + i] = c[i]
  <2>1. IsSeq(ab)
    BY <1>2
  <2> QED
    BY <2>1, ConcatIsSeq
<1> HIDE DEF s
<1>4. DOMAIN s = 1..(upto + Len(c)) /\ upto \in Nat
  BY <1>1, <1>2, <1>3, SeqFacts
<1>5. ASSUME NEW i \in DOMAIN s
      PROVE  \/ i \in DOMAIN a /\ s[i] = a[i]
             \/ i - Len(a) \in DOMAIN b /\ i \in Nat /\ s[i] = b[i - Len(a)] /\ i > Len(a) /\ i <= upto
             \/ i - upto \in DOMAIN c /\ i \in Nat /\ s[i] = c[i - upto] /\ i > upto
  <2>1. i \in Nat /\ i >= 1 /\ i <= upto + Len(c)
    BY <1>1, <1>4
  <2>2. CASE i <= Len(a)
    <3>1. i \in 1..Len(a) /\ i \in 1..Len(ab)
      BY <1>1, <1>2, <2>1, <2>2
    <3> QED
      BY <1>1, <1>2, <1>3, <3>1
  <2>3. CASE i > Len(a) /\ i <= upto
    <3>1. i - Len(a) \in 1..Len(b) /\ i \in 1..Len(ab) /\ Len(a) + (i - Len(a)) = i
      BY <1>1, <1>2, <2>1, <2>3
    <3>2. ab[Len(a) + (i - Len(a))] = b[i - Len(a)]
      BY <1>2, <3>1
    <3> QED
      BY <1>1, <1>3, <2>1, <2>3, <3>1, <3>2
  <2>4. CASE i > upto
    <3>1. i - upto \in 1..Len(c) /\ upto + (i - upto) = i
      BY <1>1, <1>4, <2>1, <2>4
    <3>2. s[Len(ab) + (i - upto)] = c[i - upto]
      BY <1>3, <3>1
    <3> QED
      BY <1>1, <1>2, <2>1, <2>4, <3>1, <3>2
  <2> QED
    BY <1>1, <1>4, <2>1, <2>2, <2>3, <2>4
<1> QED
  BY <1>1, <1>3, <1>5 DEF s, ab

\* An event that begins a call for the client, be it a chunk or a sub-agent's.
Says(e, c) == e.type \in Beginnings /\ e.id = c.id /\ e.name = c.name

\* The calls of the next conversation are those of the last and those the client read, each with
\* its own arguments; its results are those of the last, those read and the client's own.
LEMMA ConversationIs ==
  ASSUME IsSeq(emitted), read \in 0..Len(emitted), MessagesOk(input), NEW answered \in SUBSET ClientCalls,
         \A i, j \in DOMAIN emitted : emitted[i].type \in Beginnings /\ emitted[j].type \in Beginnings /\ emitted[i].id = emitted[j].id => i = j,
         \A c : Stands(c, input) => \A i \in DOMAIN emitted : emitted[i].type \in Beginnings => c.id # emitted[i].id
  PROVE  LET msgs == Conversation(answered)
         IN /\ MessagesOk(msgs)
            /\ \A c : Stands(c, msgs) => Stands(c, input) \/ \E i \in DOMAIN emitted : Says(emitted[i], c) /\ c.args = <<c.id>>
            /\ \A x \in AnsweredIn(msgs) : x = NoId \/ x \in AnsweredIn(input) \/ x \in Ids(Results) \/ x \in answered
<1> DEFINE seen == SubSeq(emitted, 1, read)
           places == {i \in DOMAIN seen : seen[i].type \in Beginnings}
           calls == Picked(seen, places)
           told == {seen[i].id : i \in {j \in DOMAIN seen : seen[j].type \in Results}}
           results == SetToSeq(told \cup answered)
           call == [i \in DOMAIN calls |-> [id |-> calls[i].id, name |-> calls[i].name, args |-> <<calls[i].id>>]]
           b == [i \in DOMAIN calls |-> Assistant(<<[id |-> calls[i].id, name |-> calls[i].name, args |-> <<calls[i].id>>]>>)]
           c == [i \in DOMAIN results |-> Result(results[i])]
           msgs == input \o b \o c
<1>1. Conversation(answered) = msgs
  BY DEF Conversation
<1>2. IsSeq(seen) /\ DOMAIN seen = 1..read /\ \A i \in 1..read : seen[i] = emitted[i]
  BY PrefixIsSeq
<1>3. read \in Nat /\ DOMAIN emitted = 1..Len(emitted) /\ Len(emitted) \in Nat /\ 1..read \subseteq DOMAIN emitted
  <2>1. DOMAIN emitted = 1..Len(emitted) /\ Len(emitted) \in Nat
    BY SeqFacts
  <2> QED
    BY <2>1
<1> HIDE DEF seen
<1>4. \A i : i \in places <=> i \in 1..read /\ emitted[i].type \in Beginnings
  BY <1>2
<1> HIDE DEF places
<1>5. PICK f : Picks(calls, f, Len(seen), seen, places)
  BY <1>2, PickedPicks
<1> HIDE DEF calls
<1>6. /\ IsSeq(calls)
      /\ \A k \in DOMAIN calls : f[k] \in DOMAIN emitted /\ emitted[f[k]].type \in Beginnings /\ calls[k] = emitted[f[k]]
      /\ \A k, l \in DOMAIN calls : f[k] = f[l] => k = l
  <2>1. \A k \in DOMAIN calls : f[k] \in places /\ calls[k] = seen[f[k]]
    BY <1>5 DEF Picks
  <2> QED
    BY <1>2, <1>3, <1>4, <1>5, <2>1 DEF Picks
<1>7. DOMAIN calls = 1..Len(calls) /\ Len(calls) \in Nat
  BY <1>6, SeqFacts
\* the messages with the calls
<1>8. /\ IsSeq(b) /\ DOMAIN b = DOMAIN calls
      /\ \A k \in DOMAIN b : /\ b[k].calls = <<call[k]>> /\ b[k].answers = NoId
                             /\ call[k] = [id |-> calls[k].id, name |-> calls[k].name, args |-> <<calls[k].id>>]
  <2>1. b = [i \in 1..Len(calls) |-> b[i]]
    BY <1>7
  <2>2. \A k \in DOMAIN b : b[k] = Assistant(<<call[k]>>) /\ call[k] = [id |-> calls[k].id, name |-> calls[k].name, args |-> <<calls[k].id>>]
    OBVIOUS
  <2>3. DOMAIN b = DOMAIN calls
    OBVIOUS
  <2> HIDE DEF b, call
  <2>4. IsSeq(b)
    BY <1>7, <2>1, FunctionIsSeq
  <2>5. ASSUME NEW k \in DOMAIN b PROVE b[k].calls = <<call[k]>> /\ b[k].answers = NoId
    <3> DEFINE x == <<call[k]>>
    <3>1. b[k] = Assistant(x)
      BY <2>2
    <3> HIDE DEF x
    <3>2. b[k].calls = x /\ b[k].answers = NoId
      BY <3>1, MessageFields
    <3> QED
      BY <3>2 DEF x
  <2> QED
    BY <2>2, <2>3, <2>4, <2>5
<1> HIDE DEF b, call
<1>9. ASSUME NEW k \in DOMAIN b
      PROVE  /\ IsSeq(b[k].calls) /\ DOMAIN b[k].calls = {1} /\ b[k].calls[1] = call[k]
             /\ call[k].id = emitted[f[k]].id /\ call[k].name = emitted[f[k]].name /\ call[k].args = <<call[k].id>>
             /\ IsSeq(call[k].args)
  <2>1. /\ b[k].calls = <<call[k]>> /\ call[k].id = calls[k].id /\ call[k].name = calls[k].name /\ call[k].args = <<calls[k].id>>
        /\ calls[k] = emitted[f[k]]
    <3>1. b[k].calls = <<call[k]>> /\ calls[k] = emitted[f[k]]
      BY <1>6, <1>8
    <3> DEFINE x == call[k]
               y == calls[k]
    <3>2. x = [id |-> y.id, name |-> y.name, args |-> <<y.id>>]
      BY <1>8
    <3> HIDE DEF x, y
    <3>3. x.id = y.id /\ x.name = y.name /\ x.args = <<y.id>>
      BY <3>2
    <3> QED
      BY <3>1, <3>3 DEF x, y
  <2>2. \A x : IsSeq(<<x>>) /\ DOMAIN <<x>> = {1} /\ <<x>>[1] = x
    <3> SUFFICES ASSUME NEW x PROVE IsSeq(<<x>>) /\ DOMAIN <<x>> = {1} /\ <<x>>[1] = x
      OBVIOUS
    <3>1. <<x>> \in Seq({x}) /\ DOMAIN <<x>> = {1}
      OBVIOUS
    <3> QED
      BY <3>1, InSeqIsSeq
  <2> QED
    BY <2>1, <2>2
\* the results
<1>10. IsFiniteSet(told \cup answered)
  <2>1. IsFiniteSet(1..read)
    BY <1>3, FS_Interval
  <2> DEFINE ids == [i \in 1..read |-> emitted[i].id]
  <2>2. IsFiniteSet({ids[i] : i \in 1..read})
    <3>1. DOMAIN ids = 1..read
      OBVIOUS
    <3> HIDE DEF ids
    <3> QED
      BY <2>1, <3>1, ImageIsFinite
  <2>3. told \cup answered \subseteq {ids[i] : i \in 1..read}
    BY <1>2 DEF ClientCalls
  <2> QED
    BY <2>2, <2>3, FS_Subset
<1>11. told \subseteq Ids(Results)
  BY <1>2, <1>3 DEF Ids
<1>12. IsSeq(results) /\ \A k \in DOMAIN results : results[k] \in Ids(Results) \cup answered
  <2> HIDE DEF told
  <2>1. IsSeq(results) /\ \A k \in DOMAIN results : results[k] \in told \cup answered
    BY <1>10, SetToSeqIs
  <2> QED
    BY <1>11, <2>1
<1> HIDE DEF results, told
<1>13. DOMAIN results = 1..Len(results) /\ Len(results) \in Nat
  BY <1>12, SeqFacts
<1>14. /\ IsSeq(c) /\ DOMAIN c = DOMAIN results
       /\ \A k \in DOMAIN c : c[k].calls = <<>> /\ c[k].answers = results[k]
  <2>1. c = [i \in 1..Len(results) |-> c[i]] /\ DOMAIN c = DOMAIN results /\ \A k \in DOMAIN c : c[k] = Result(results[k])
    BY <1>13
  <2> HIDE DEF c
  <2> QED
    BY <1>13, <2>1, FunctionIsSeq, MessageFields
<1> HIDE DEF c
<1> DEFINE upto == Len(input) + Len(b)
<1>15. /\ IsSeq(msgs) /\ Len(input) \in Nat /\ Len(b) \in Nat
       /\ \A i \in DOMAIN msgs : \/ i \in DOMAIN input /\ msgs[i] = input[i]
                                 \/ i - Len(input) \in DOMAIN b /\ i \in Nat /\ msgs[i] = b[i - Len(input)] /\ i > Len(input) /\ i <= upto
                                 \/ i - upto \in DOMAIN c /\ i \in Nat /\ msgs[i] = c[i - upto] /\ i > upto
  BY <1>8, <1>14, ThreeInARow DEF MessagesOk
<1> HIDE DEF msgs, upto
<1> DEFINE B(i) == i - Len(input)
<1>16. ASSUME NEW i \in DOMAIN msgs
       PROVE  \/ i \in DOMAIN input /\ msgs[i] = input[i]
              \/ /\ B(i) \in DOMAIN b /\ i \in Nat /\ msgs[i].answers = NoId
                 /\ IsSeq(msgs[i].calls) /\ DOMAIN msgs[i].calls = {1} /\ f[B(i)] \in DOMAIN emitted
                 /\ Says(emitted[f[B(i)]], msgs[i].calls[1])
                 /\ msgs[i].calls[1].args = <<msgs[i].calls[1].id>> /\ IsSeq(msgs[i].calls[1].args)
              \/ IsSeq(msgs[i].calls) /\ DOMAIN msgs[i].calls = {} /\ msgs[i].answers \in Ids(Results) \cup answered
  <2>1. CASE i \in DOMAIN input /\ msgs[i] = input[i]
    BY <2>1
  <2>2. CASE i - Len(input) \in DOMAIN b /\ i \in Nat /\ msgs[i] = b[i - Len(input)]
    <3> DEFINE k == i - Len(input)
    <3>1. k \in DOMAIN b /\ msgs[i] = b[k] /\ i \in Nat
      BY <2>2
    <3> HIDE DEF k
    <3>2. f[k] \in DOMAIN emitted /\ emitted[f[k]].type \in Beginnings /\ b[k].answers = NoId
      BY <1>6, <1>8, <3>1
    <3>3. /\ IsSeq(msgs[i].calls) /\ DOMAIN msgs[i].calls = {1} /\ Says(emitted[f[k]], msgs[i].calls[1])
          /\ msgs[i].calls[1].args = <<msgs[i].calls[1].id>> /\ IsSeq(msgs[i].calls[1].args)
      BY <1>9, <3>1, <3>2 DEF Says
    <3> QED
      BY <3>1, <3>2, <3>3 DEF k
  <2>3. CASE i - upto \in DOMAIN c /\ msgs[i] = c[i - upto]
    BY <1>12, <1>14, <2>3, EmptyIsSeq
  <2> QED
    BY <1>15, <2>1, <2>2, <2>3
<1>17. \A x : Stands(x, msgs) => Stands(x, input) \/ \E i \in DOMAIN emitted : Says(emitted[i], x) /\ x.args = <<x.id>>
  BY <1>16 DEF Stands
<1>18. \A x \in AnsweredIn(msgs) : x = NoId \/ x \in AnsweredIn(input) \/ x \in Ids(Results) \/ x \in answered
  BY <1>16 DEF AnsweredIn
<1>19. \A i \in DOMAIN msgs : IsSeq(msgs[i].calls) /\ \A k \in DOMAIN msgs[i].calls : IsSeq(msgs[i].calls[k].args)
  BY <1>16 DEF MessagesOk
<1>20. ASSUME NEW i \in DOMAIN msgs, NEW j \in DOMAIN msgs, NEW k \in DOMAIN msgs[i].calls, NEW l \in DOMAIN msgs[j].calls,
              msgs[i].calls[k].id = msgs[j].calls[l].id
       PROVE  i = j /\ k = l
  <2>1. CASE i \in DOMAIN input /\ msgs[i] = input[i] /\ j \in DOMAIN input /\ msgs[j] = input[j]
    BY <1>20, <2>1 DEF MessagesOk
  <2>2. CASE i \in DOMAIN input /\ msgs[i] = input[i] /\ f[B(j)] \in DOMAIN emitted
             /\ DOMAIN msgs[j].calls = {1} /\ Says(emitted[f[B(j)]], msgs[j].calls[1])
    <3>1. Stands(msgs[i].calls[k], input) /\ emitted[f[B(j)]].type \in Beginnings /\ emitted[f[B(j)]].id = msgs[j].calls[l].id
      BY <2>2 DEF Stands, Says
    <3> HIDE DEF B
    <3> QED
      BY <1>20, <2>2, <3>1
  <2>3. CASE j \in DOMAIN input /\ msgs[j] = input[j] /\ f[B(i)] \in DOMAIN emitted
             /\ DOMAIN msgs[i].calls = {1} /\ Says(emitted[f[B(i)]], msgs[i].calls[1])
    <3>1. Stands(msgs[j].calls[l], input) /\ emitted[f[B(i)]].type \in Beginnings /\ emitted[f[B(i)]].id = msgs[i].calls[k].id
      BY <2>3 DEF Stands, Says
    <3> HIDE DEF B
    <3> QED
      BY <1>20, <2>3, <3>1
  <2>4. CASE /\ B(i) \in DOMAIN b /\ i \in Nat /\ DOMAIN msgs[i].calls = {1} /\ f[B(i)] \in DOMAIN emitted
             /\ Says(emitted[f[B(i)]], msgs[i].calls[1])
             /\ B(j) \in DOMAIN b /\ j \in Nat /\ DOMAIN msgs[j].calls = {1} /\ f[B(j)] \in DOMAIN emitted
             /\ Says(emitted[f[B(j)]], msgs[j].calls[1])
    <3>1. k = 1 /\ l = 1
      BY <2>4
    <3>2. f[B(i)] = f[B(j)]
      <4> HIDE DEF B
      <4> QED
        BY <1>20, <2>4, <3>1 DEF Says
    <3>3. B(i) = B(j)
      <4> HIDE DEF B
      <4> QED
        BY <1>6, <1>8, <2>4, <3>2
    <3> QED
      BY <1>15, <2>4, <3>1, <3>3
  <2> HIDE DEF B
  <2> QED
    BY <1>16, <2>1, <2>2, <2>3, <2>4
<1>21. MessagesOk(msgs)
  BY <1>15, <1>19, <1>20 DEF MessagesOk
<1> QED
  BY <1>1, <1>17, <1>18, <1>21

-----------------------------------------------------------------------------
(* The types.                                                              *)

Places == {"idle", "list", "invoke", "agent", "execute", "results", "snapshot", "flush", "proxy", "proxied", "done"}
Working == {"invoke", "agent", "execute", "results", "snapshot", "flush"}
TypeOK ==
  /\ mw \in Middlewares /\ listOnce \in [Middlewares -> BOOLEAN] /\ DOMAIN listed = Middlewares
  /\ pc \in Places /\ (pc \in {"proxy", "proxied", "snapshot"} => mw = "apps")
  /\ runs \in 0..MaxRuns /\ (pc # "idle" => runs >= 1) /\ invocation \in 0..MaxInvocations /\ iteration \in Nat
  /\ IsSeq(lists) /\ Len(lists) = runs /\ IsSeq(said) /\ heard \in 0..Len(said) /\ IsSeq(emitted) /\ read \in 0..Len(emitted)

Kinds == {Beginnings, Results, {"args"}}
Tied == Beginnings \cup Results \cup {"args"}
LEMMA KindFacts ==
  /\ "callStart" \in Beginnings /\ "result" \in Results /\ "callStart" \in Tied /\ "result" \in Tied /\ "args" \in Tied
  /\ \A t \in Beginnings : t \in Tied /\ t \notin Results /\ ~(t \in {"callEnd", "textEnd"}) /\ t \notin {"runStarted", "runFinished", "runError"}
  /\ \A t \in Results : t \in Tied /\ t \notin Beginnings /\ t \notin {"runStarted", "runFinished", "runError"}
  /\ Beginnings \in Kinds /\ Results \in Kinds /\ {"args"} \in Kinds
  /\ \A t \in Results : t = "result" \/ t = "subResult"
BY DEF Beginnings, Results, Tied, Kinds

\* What the agent says of its calls: each is begun, has its arguments and its result with one id
\* and once; and what is done for a call is done in the name of the one that began it.
Telling(s) ==
  /\ \A i \in DOMAIN s : s[i].type \in Tied => \E j \in 1..i : s[j].type \in Beginnings /\ s[j].id = s[i].id
  /\ \A kind \in Kinds : \A i, j \in DOMAIN s : s[i].type \in kind /\ s[j].type \in kind /\ s[j].id = s[i].id => j = i
  /\ \A i, j \in DOMAIN s : s[j].id = s[i].id =>
       /\ s[i].type = "callStart" => s[j].type # "subResult"
       /\ s[i].type \in Beginnings \ {"callStart"} => s[j].type # "args"

\* What an invocation says: each call, its arguments and its result have an id of the invocation,
\* which names the tool the call is meant for.
LEMMA InvokeSays ==
  ASSUME TypeOK, Invoke
  PROVE  /\ IsSeq(said') /\ invocation' = invocation + 1 /\ invocation' \in 1..MaxInvocations
         /\ \A i \in DOMAIN said' : said'[i].type \in Tied => said'[i].id[1] = runs /\ said'[i].id[2] = invocation
         /\ \A i \in DOMAIN said' : said'[i].type \in Beginnings => said'[i].id[4] = Meant(said'[i].name)
         /\ Telling(said')
<1>1. runs \in 1..MaxRuns /\ invocation + 1 \in 1..MaxInvocations /\ invocation' = invocation + 1
  BY McpAssumption DEF TypeOK, Invoke
<1> DEFINE ids(s) == {e.id : e \in {s[i] : i \in {j \in DOMAIN s : s[j].type \in Beginnings}}}
<1>2. PICK s \in Scripts[runs][invocation'] : \E pick \in [ids(s) -> DOMAIN tools \cup lists[runs]] :
       said' = [i \in DOMAIN s |->
                  [type |-> s[i].type,
                   id |-> IF s[i].id = 0 THEN NoId ELSE <<runs, invocation, s[i].id, Meant(pick[s[i].id])>>,
                   name |-> IF s[i].type \in Beginnings THEN pick[s[i].id] ELSE <<>>]]
  BY DEF Invoke
<1>3. PICK pick \in [ids(s) -> DOMAIN tools \cup lists[runs]] :
       said' = [i \in DOMAIN s |->
                  [type |-> s[i].type,
                   id |-> IF s[i].id = 0 THEN NoId ELSE <<runs, invocation, s[i].id, Meant(pick[s[i].id])>>,
                   name |-> IF s[i].type \in Beginnings THEN pick[s[i].id] ELSE <<>>]]
  BY <1>2
<1>4. s \in Seq([type : STRING, id : Nat]) /\ ScriptOk(s)
  BY <1>1, McpAssumption
<1>5. DOMAIN s = 1..Len(s) /\ Len(s) \in Nat
  BY <1>4
<1>6. IsSeq(said') /\ DOMAIN said' = DOMAIN s
  <2>1. said' = [i \in 1..Len(s) |-> said'[i]] /\ DOMAIN said' = DOMAIN s
    BY <1>3, <1>5
  <2> QED
    BY <1>5, <2>1, FunctionIsSeq
<1> DEFINE full(i) == <<runs, invocation, s[i].id, Meant(pick[s[i].id])>>
<1>7. ASSUME NEW i \in DOMAIN s
      PROVE  /\ said'[i].type = s[i].type /\ said'[i].id = IF s[i].id = 0 THEN NoId ELSE full(i)
             /\ s[i].type \in Beginnings => said'[i].name = pick[s[i].id]
  BY <1>3
<1>8. ASSUME NEW i \in DOMAIN s
      PROVE  full(i)[1] = runs /\ full(i)[2] = invocation /\ full(i)[3] = s[i].id /\ full(i)[4] = Meant(pick[s[i].id])
  OBVIOUS
<1>9. \A i, j \in DOMAIN s : s[i].id = s[j].id => full(i) = full(j)
  OBVIOUS
<1>10. \A i \in DOMAIN s : NoId[1] = 0 /\ full(i)[1] = runs
  BY <1>8 DEF NoId
<1> HIDE DEF full
\* the ids of the script and those said are the same where they are ids
<1>11. \A i \in DOMAIN s : s[i].type \in Tied => s[i].id # 0 /\ \E j \in 1..i : s[j].type \in Beginnings /\ s[j].id = s[i].id
  BY <1>4 DEF ScriptOk, Tied
<1>12. ASSUME NEW i \in DOMAIN s, NEW j \in DOMAIN s PROVE said'[i].id = said'[j].id => s[i].id = s[j].id
  <2>1. full(i)[3] = s[i].id /\ full(j)[3] = s[j].id
    BY <1>8
  <2>2. NoId # full(i) /\ NoId # full(j)
    BY <1>1, <1>10
  <2> QED
    BY <1>7, <2>1, <2>2
<1>13. \A i \in DOMAIN s : s[i].type \in Tied => said'[i].id = full(i)
  BY <1>7, <1>11
<1>14. \A i \in DOMAIN said' : said'[i].type \in Tied => said'[i].id[1] = runs /\ said'[i].id[2] = invocation
  BY <1>6, <1>7, <1>8, <1>13
<1>15. ASSUME NEW i \in DOMAIN said', said'[i].type \in Beginnings PROVE said'[i].id[4] = Meant(said'[i].name)
  <2>1. said'[i].id = full(i) /\ said'[i].name = pick[s[i].id]
    BY <1>6, <1>7, <1>13, <1>15, KindFacts
  <2> QED
    BY <1>6, <1>8, <2>1
<1>16. ASSUME NEW i \in DOMAIN said', said'[i].type \in Tied
       PROVE  \E j \in 1..i : said'[j].type \in Beginnings /\ said'[j].id = said'[i].id
  <2>1. PICK j \in 1..i : s[j].type \in Beginnings /\ s[j].id = s[i].id
    BY <1>6, <1>7, <1>11, <1>16
  <2>2. j \in DOMAIN s /\ i \in DOMAIN s
    BY <1>5, <1>6
  <2>3. said'[j].type \in Beginnings /\ said'[j].id = full(j) /\ said'[i].id = full(i)
    BY <1>7, <1>13, <1>16, <2>1, <2>2, KindFacts
  <2> QED
    BY <1>9, <2>1, <2>2, <2>3
<1>17. ASSUME NEW kind \in Kinds, NEW i \in DOMAIN said', NEW j \in DOMAIN said',
              said'[i].type \in kind, said'[j].type \in kind, said'[j].id = said'[i].id
       PROVE  j = i
  <2>1. s[i].id = s[j].id /\ s[i].type \in kind /\ s[j].type \in kind /\ i \in DOMAIN s /\ j \in DOMAIN s
    BY <1>6, <1>7, <1>12, <1>17
  <2> QED
    BY <1>4, <2>1 DEF ScriptOk, Kinds
<1>18. ASSUME NEW i \in DOMAIN said', NEW j \in DOMAIN said', said'[j].id = said'[i].id
       PROVE  /\ said'[i].type = "callStart" => said'[j].type # "subResult"
              /\ said'[i].type \in Beginnings \ {"callStart"} => said'[j].type # "args"
  <2>1. s[i].id = s[j].id /\ i \in DOMAIN s /\ j \in DOMAIN s /\ said'[i].type = s[i].type /\ said'[j].type = s[j].type
    BY <1>6, <1>7, <1>12, <1>18
  <2>2. i = j => ~(s[i].type = "callStart" /\ s[j].type = "subResult") /\ ~(s[i].type \in Beginnings /\ s[j].type = "args")
    BY DEF Beginnings
  <2> QED
    BY <1>4, <2>1, <2>2 DEF ScriptOk
<1>19. Telling(said')
  BY <1>16, <1>17, <1>18 DEF Telling
<1> QED
  BY <1>1, <1>6, <1>14, <1>15, <1>19

\* What was emitted stays a sequence, and the reader within it.
LEMMA EmittedGrows ==
  ASSUME TypeOK, emitted' = emitted \/ \E e : emitted' = Append(emitted, e)
  PROVE  IsSeq(emitted') /\ read \in 0..Len(emitted')
<1>1. IsSeq(emitted) /\ read \in 0..Len(emitted) /\ Len(emitted) \in Nat
  BY SeqFacts DEF TypeOK
<1>2. CASE emitted' = emitted
  BY <1>1, <1>2
<1>3. CASE \E e : emitted' = Append(emitted, e)
  <2>1. PICK e : emitted' = Append(emitted, e)
    BY <1>3
  <2> DEFINE a == Append(emitted, e)
  <2>2. IsSeq(a) /\ Len(a) = Len(emitted) + 1
    BY <1>1, AppendIsSeq
  <2> HIDE DEF a
  <2>3. emitted' = a
    BY <2>1 DEF a
  <2> QED
    BY <1>1, <2>2, <2>3
<1> QED
  BY <1>2, <1>3

\* The middleware, where it is in a run, the places in what was said and emitted.
THEOREM TypesAreOk == Spec => []TypeOK
<1>1. Init => TypeOK
  BY EmptyIsSeq, McpAssumption DEF Init, InitTools, TypeOK, Places, Middlewares
<1>2. TypeOK /\ [Next]_vars => TypeOK'
  <2> SUFFICES ASSUME TypeOK, [Next]_vars PROVE TypeOK'
    OBVIOUS
  <2>1. CASE StartRun
    <3>1. PICK list : lists' = Append(lists, list)
      BY <2>1 DEF StartRun
    <3> DEFINE a == Append(lists, list)
    <3>2. IsSeq(a) /\ Len(a) = Len(lists) + 1
      BY AppendIsSeq DEF TypeOK
    <3> HIDE DEF a
    <3>3. IsSeq(lists') /\ Len(lists') = runs'
      BY <2>1, <3>1, <3>2 DEF a, StartRun, TypeOK
    <3> QED
      BY <2>1, <3>3, EmptyIsSeq, McpAssumption DEF StartRun, TypeOK, Places
  <2>2. CASE ResolveTools
    <3>1. listOnce' \in [Middlewares -> BOOLEAN] /\ DOMAIN listed' = Middlewares
      BY <2>2 DEF ResolveTools, ListAllTools, TypeOK
    <3> QED
      BY <2>2, <3>1 DEF ResolveTools, TypeOK, Places, ioVars
  <2>3. CASE Invoke
    <3>1. IsSeq(said') /\ invocation' \in 1..MaxInvocations
      BY <2>3, InvokeSays
    <3>2. Len(said') \in Nat
      BY <3>1, SeqFacts
    <3> QED
      BY <2>3, <3>1, <3>2, McpAssumption DEF Invoke, TypeOK, Places, ioVars
  <2>4. CASE Forward
    <3>1. emitted' = emitted \/ \E e : emitted' = Append(emitted, e)
      BY <2>4 DEF Forward, Emit
    <3>2. IsSeq(emitted') /\ read \in 0..Len(emitted')
      BY <3>1, EmittedGrows
    <3>3. heard' \in 0..Len(said) /\ pc' \in {"agent", "done"}
      BY <2>4 DEF Forward, TypeOK
    <3> QED
      BY <2>4, <3>2, <3>3 DEF Forward, TypeOK, Places, ioVars
  <2>5. CASE Decide
    <3>1. pc' \in {"flush", "execute"} /\ iteration' \in Nat /\ said' = <<>> /\ heard' = 0
      BY <2>5 DEF Decide, TypeOK
    <3> QED
      BY <2>5, <3>1, EmptyIsSeq DEF Decide, TypeOK, Places, ioVars
  <2>6. CASE Execute
    BY <2>6 DEF Execute, TypeOK, Places, ioVars, runVars
  <2>7. CASE EmitResult \/ EmitSnapshot
    <3>1. \E e : emitted' = Append(emitted, e)
      BY <2>7 DEF EmitResult, EmitSnapshot, Emit
    <3>2. IsSeq(emitted') /\ read \in 0..Len(emitted')
      BY <3>1, EmittedGrows
    <3> QED
      BY <2>7, <3>2 DEF EmitResult, EmitSnapshot, TypeOK, Places, ioVars
  <2>8. CASE Continue
    BY <2>8 DEF Continue, TypeOK, Places, ioVars, runVars
  <2>9. CASE Flush \/ ProxyStart \/ ProxyFinish
    <3>1. emitted' = emitted \/ \E e : emitted' = Append(emitted, e)
      BY <2>9 DEF Flush, ProxyStart, ProxyFinish, Emit
    <3>2. IsSeq(emitted') /\ read \in 0..Len(emitted')
      BY <3>1, EmittedGrows
    <3> QED
      BY <2>9, <3>2 DEF Flush, ProxyStart, ProxyFinish, TypeOK, Places, ioVars, runVars
  <2>10. CASE Read
    <3>1. Len(emitted) \in Nat
      BY SeqFacts DEF TypeOK
    <3> QED
      BY <2>10, <3>1 DEF Read, TypeOK, runVars
  <2>11. CASE Leave
    BY <2>11 DEF Leave, TypeOK, runVars
  <2>12. CASE UNCHANGED vars
    BY <2>12 DEF vars, runVars, ioVars, TypeOK
  <2> QED
    BY <2>1, <2>2, <2>3, <2>4, <2>5, <2>6, <2>7, <2>8, <2>9, <2>10, <2>11, <2>12 DEF Next, Middleware
<1> QED
  BY <1>1, <1>2, PTL DEF Spec

-----------------------------------------------------------------------------
(* The ids of calls.                                                       *)

\* The names of the tools in a run, once they are listed; a call's id names the tool its name
\* stands for in the run it was made in.  Own are the calls the agent began itself.
Known == [r \in 1..runs |-> Resolved(mw, listed[mw], lists[r])]
Fits(id, name) == name \in DOMAIN Known[id[1]] => id[4] = Known[id[1]][name]
Own(id) == \E i \in DOMAIN emitted : emitted[i].type = "callStart" /\ emitted[i].id = id

\* There are no calls before the tools are listed, and their names do not change after.
Listing1 ==
  /\ pc \in Working => listOnce[mw] /\ tools = Known[runs]
  /\ pc \in {"idle", "list", "proxy"} => emitted = <<>> /\ messages = input /\ invocation = 0
  /\ ~listOnce[mw] => /\ past = {} /\ \A i \in DOMAIN emitted : emitted[i].type \notin Beginnings
                      /\ \A c : ~Stands(c, input) /\ ~Stands(c, messages)

\* The calls begun in a run have ids of it, each of its own.
EmittedIds ==
  \A i \in DOMAIN emitted : emitted[i].type \in Beginnings =>
    /\ emitted[i].id[1] = runs /\ emitted[i].id[2] \in 0..(invocation - 1) /\ Fits(emitted[i].id, emitted[i].name)
    /\ \A j \in DOMAIN emitted : emitted[j].type \in Beginnings /\ emitted[j].id = emitted[i].id => i = j
\* Those of the input are of runs before.
InputIds ==
  /\ MessagesOk(input)
  /\ \A c : Stands(c, input) => c.id[1] \in 1..(runs - 1) /\ Fits(c.id, c.name) /\ c.args = <<c.id>>
\* Those of the conversation are of the input or were begun in the run, by an invocation before.
MessageIds ==
  /\ MessagesOk(messages) /\ (mw = "apps" => messages = input)
  /\ \A c : Stands(c, messages) =>
       /\ Fits(c.id, c.name)
       /\ Stands(c, input) \/ (c.id[1] = runs /\ Own(c.id) /\ (pc = "agent" => c.id[2] \in 0..(invocation - 2)))
\* What the agent says has ids of the invocation, and what was heard of it was emitted.
SaidIds ==
  pc = "agent" =>
    /\ invocation >= 1
    /\ \A i \in DOMAIN said : said[i].type \in Tied => said[i].id[1] = runs /\ said[i].id[2] = invocation - 1
    /\ \A i \in DOMAIN said : said[i].type \in Beginnings => Fits(said[i].id, said[i].name)
    /\ Telling(said)
    /\ \A i \in 1..heard : ~Dropped(said[i]) => \E p \in DOMAIN emitted : emitted[p] = said[i]
    /\ \A p \in DOMAIN emitted : emitted[p].type \in Beginnings /\ emitted[p].id[2] = invocation - 1 =>
         \E i \in 1..heard : said[i] = emitted[p]
\* The calls to answer are calls of the conversation, of tools the middleware has.
WorkIds ==
  pc \in {"execute", "results", "snapshot"} =>
    /\ IsSeq(work) /\ (pc \in {"execute", "snapshot"} => work # <<>>)
    /\ \A k \in DOMAIN work : Stands(work[k], messages) /\ work[k].name \in DOMAIN tools
IdsOk == Listing1 /\ EmittedIds /\ InputIds /\ MessageIds /\ SaidIds /\ WorkIds

\* One more event.
LEMMA EmitFacts ==
  ASSUME TypeOK, NEW x, emitted' = Append(emitted, x)
  PROVE  /\ IsSeq(emitted') /\ Len(emitted) \in Nat /\ DOMAIN emitted = 1..Len(emitted) /\ Len(emitted') = Len(emitted) + 1
         /\ DOMAIN emitted' = DOMAIN emitted \cup {Len(emitted) + 1} /\ Len(emitted) + 1 \notin DOMAIN emitted
         /\ emitted'[Len(emitted) + 1] = x /\ \A i \in DOMAIN emitted : emitted'[i] = emitted[i]
<1>1. IsSeq(emitted)
  BY DEF TypeOK
<1> DEFINE a == Append(emitted, x)
<1>2. /\ IsSeq(a) /\ Len(a) = Len(emitted) + 1
      /\ DOMAIN a = DOMAIN emitted \cup {Len(emitted) + 1} /\ Len(emitted) + 1 \notin DOMAIN emitted
      /\ a[Len(emitted) + 1] = x /\ \A i \in DOMAIN emitted : a[i] = emitted[i]
  BY <1>1, AppendIsSeq
<1> HIDE DEF a
<1>3. emitted' = a
  BY DEF a
<1> QED
  BY <1>1, <1>2, <1>3, SeqFacts

\* An event that begins no call changes nothing about the ids.
LEMMA OtherEventsAreFree ==
  ASSUME TypeOK, IdsOk, NEW x, emitted' = Append(emitted, x), x.type \notin Beginnings, UNCHANGED <<mw, listed, lists, runs, invocation>>
  PROVE  EmittedIds' /\ \A id : Own(id) => Own(id)'
<1>1. /\ DOMAIN emitted' = DOMAIN emitted \cup {Len(emitted) + 1}
      /\ emitted'[Len(emitted) + 1] = x /\ \A i \in DOMAIN emitted : emitted'[i] = emitted[i]
  BY EmitFacts
<1>2. Known' = Known
  BY DEF Known
<1>3. \A i \in DOMAIN emitted' : emitted'[i].type \in Beginnings => i \in DOMAIN emitted /\ emitted'[i] = emitted[i]
  BY <1>1
<1>4. EmittedIds'
  BY <1>2, <1>3 DEF IdsOk, EmittedIds, Fits
<1>5. \A id : Own(id) => Own(id)'
  BY <1>1 DEF Own
<1> QED
  BY <1>4, <1>5

\* The conversation the client sends can be made of its last one and of what it read.
LEMMA ConversationOk ==
  ASSUME TypeOK, IdsOk, NEW answered \in SUBSET ClientCalls
  PROVE  LET msgs == Conversation(answered)
         IN /\ MessagesOk(msgs)
            /\ \A c : Stands(c, msgs) => Stands(c, input) \/ \E i \in DOMAIN emitted : Says(emitted[i], c) /\ c.args = <<c.id>>
            /\ \A x \in AnsweredIn(msgs) : x = NoId \/ x \in AnsweredIn(input) \/ x \in Ids(Results) \/ x \in answered
<1>1. runs \in Nat
  BY McpAssumption DEF TypeOK
<1>2. \A c : Stands(c, input) => \A i \in DOMAIN emitted : emitted[i].type \in Beginnings => c.id # emitted[i].id
  <2> SUFFICES ASSUME NEW c, Stands(c, input), NEW i \in DOMAIN emitted, emitted[i].type \in Beginnings, c.id = emitted[i].id PROVE FALSE
    OBVIOUS
  <2>1. c.id[1] \in 1..(runs - 1) /\ emitted[i].id[1] = runs
    BY DEF IdsOk, InputIds, EmittedIds
  <2> QED
    BY <1>1, <2>1
<1>3. \A i, j \in DOMAIN emitted : emitted[i].type \in Beginnings /\ emitted[j].type \in Beginnings /\ emitted[i].id = emitted[j].id => i = j
  BY DEF IdsOk, EmittedIds
<1>4. IsSeq(emitted) /\ read \in 0..Len(emitted) /\ MessagesOk(input)
  BY DEF TypeOK, IdsOk, InputIds
<1> QED
  BY <1>2, <1>3, <1>4, ConversationIs

\* What the client has as tools in a run stays what it was.
LEMMA ListsStay ==
  ASSUME TypeOK, StartRun
  PROVE  \A r \in 1..runs : lists'[r] = lists[r]
<1>1. PICK list : lists' = Append(lists, list)
  BY DEF StartRun
<1> DEFINE a == Append(lists, list)
<1>2. IsSeq(lists) /\ DOMAIN lists = 1..runs
  BY SeqFacts DEF TypeOK
<1>3. \A r \in DOMAIN lists : a[r] = lists[r]
  BY <1>2, AppendIsSeq
<1> HIDE DEF a
<1> QED
  BY <1>1, <1>2, <1>3 DEF a

\* The client sends the conversation.
LEMMA StartRunIds ==
  ASSUME TypeOK, IdsOk, StartRun
  PROVE  IdsOk'
<1>1. PICK answered \in SUBSET (ClientCalls \ Ids(Results)) : input' = IF pc = "idle" THEN <<>> ELSE Conversation(answered)
  BY DEF StartRun
<1>2. runs \in Nat /\ runs' = runs + 1 /\ emitted' = <<>> /\ messages' = input' /\ pc' \in {"list", "proxy"}
      /\ invocation' = 0 /\ listOnce' = listOnce /\ past' = past /\ mw' = mw /\ listed' = listed
  BY McpAssumption DEF StartRun, TypeOK
<1>5. \A r \in 1..runs : Known'[r] = Known[r]
  <2>1. \A r \in 1..runs : lists'[r] = lists[r] /\ r \in 1..(runs + 1)
    BY <1>2, ListsStay
  <2> QED
    BY <1>2, <2>1 DEF Known
<1>3. CASE pc = "idle"
  <2>1. input' = <<>>
    BY <1>1, <1>3
  <2>2. MessagesOk(<<>>) /\ \A c : ~Stands(c, <<>>)
    BY EmptyIsSeq DEF MessagesOk, Stands
  <2>3. Listing1'
    BY <1>2, <2>1, <2>2, EmptyIsSeq DEF Listing1, IdsOk, Working
  <2>4. EmittedIds'
    BY <1>2, EmptyIsSeq DEF EmittedIds
  <2>5. InputIds' /\ MessageIds'
    BY <1>2, <2>1, <2>2 DEF InputIds, MessageIds
  <2>6. SaidIds' /\ WorkIds'
    BY <1>2 DEF SaidIds, WorkIds
  <2> QED
    BY <2>3, <2>4, <2>5, <2>6 DEF IdsOk
<1>4. CASE pc # "idle"
  <2>1. input' = Conversation(answered) /\ runs >= 1 /\ answered \in SUBSET ClientCalls
    BY <1>1, <1>4 DEF TypeOK
  <2>3. /\ MessagesOk(input')
        /\ \A c : Stands(c, input') => Stands(c, input) \/ \E i \in DOMAIN emitted : Says(emitted[i], c) /\ c.args = <<c.id>>
    <3> DEFINE msgs == Conversation(answered)
    <3>3. /\ MessagesOk(msgs)
          /\ \A c : Stands(c, msgs) => Stands(c, input) \/ \E i \in DOMAIN emitted : Says(emitted[i], c) /\ c.args = <<c.id>>
      BY <2>1, ConversationOk
    <3> HIDE DEF msgs
    <3>4. input' = msgs
      BY <2>1 DEF msgs
    <3> QED
      BY <3>3, <3>4
  <2>4. ASSUME NEW c, Stands(c, input')
        PROVE  c.id[1] \in 1..runs /\ Fits(c.id, c.name) /\ c.args = <<c.id>>
    <3>1. CASE Stands(c, input)
      BY <1>2, <3>1 DEF IdsOk, InputIds
    <3>2. CASE \E i \in DOMAIN emitted : Says(emitted[i], c) /\ c.args = <<c.id>>
      BY <1>2, <2>1, <3>2 DEF IdsOk, EmittedIds, Says
    <3> QED
      BY <2>3, <2>4, <3>1, <3>2
  <2>5. InputIds' /\ MessageIds'
    BY <1>2, <1>5, <2>3, <2>4 DEF InputIds, MessageIds, Fits
  <2>6. Listing1'
    <3>1. ~listOnce[mw] => \A c : ~Stands(c, input')
      BY <2>3 DEF IdsOk, Listing1, Says
    <3> QED
      BY <1>2, <3>1, EmptyIsSeq DEF Listing1, IdsOk, Working
  <2>7. EmittedIds' /\ SaidIds' /\ WorkIds'
    BY <1>2, EmptyIsSeq DEF EmittedIds, SaidIds, WorkIds
  <2> QED
    BY <2>5, <2>6, <2>7 DEF IdsOk
<1> QED
  BY <1>3, <1>4

\* The tools are listed, or were before.
LEMMA ResolveToolsIds ==
  ASSUME TypeOK, IdsOk, ResolveTools
  PROVE  IdsOk'
<1>1. /\ pc = "list" /\ pc' = "invoke" /\ mw' = mw /\ runs' = runs /\ UNCHANGED <<messages, emitted, past, input, invocation>>
      /\ lists' = lists /\ tools' = Resolved(mw, listed'[mw], lists[runs])
  BY DEF ResolveTools, ioVars
<1>2. listOnce'[mw] /\ (listOnce[mw] => listed' = listed)
  BY DEF ResolveTools, ListAllTools, TypeOK
<1>3. emitted = <<>> /\ messages = input /\ DOMAIN emitted = {}
  BY <1>1, EmptyIsSeq DEF IdsOk, Listing1
<1>4. listOnce[mw] => Known' = Known
  BY <1>1, <1>2 DEF Known
<1>5. ~listOnce[mw] => \A c : ~Stands(c, input)
  BY DEF IdsOk, Listing1
<1>6. Listing1'
  <2>1. runs \in 1..runs
    BY <1>1, McpAssumption DEF TypeOK
  <2>2. tools' = Known'[runs']
    BY <1>1, <2>1 DEF Known
  <2> QED
    BY <1>1, <1>2, <2>2 DEF Listing1
<1>7. EmittedIds' /\ SaidIds' /\ WorkIds'
  BY <1>1, <1>3 DEF EmittedIds, SaidIds, WorkIds
<1>8. \A c : Stands(c, input) => Fits(c.id, c.name)'
  BY <1>1, <1>4, <1>5 DEF IdsOk, InputIds, Fits
<1>9. InputIds' /\ MessageIds'
  BY <1>1, <1>3, <1>8 DEF IdsOk, InputIds, MessageIds
<1> QED
  BY <1>6, <1>7, <1>9 DEF IdsOk

\* The agent begins to answer.
LEMMA InvokeIds ==
  ASSUME TypeOK, IdsOk, Invoke
  PROVE  IdsOk'
<1>1. /\ pc = "invoke" /\ pc' = "agent" /\ heard' = 0 /\ UNCHANGED <<listOnce, listed, messages, emitted, past, mw, input, tools, runs, lists>>
      /\ invocation \in Nat /\ runs \in Nat
  BY McpAssumption DEF Invoke, ioVars, TypeOK
<1>2. Known' = Known /\ tools = Known[runs] /\ listOnce[mw]
  BY <1>1 DEF Known, IdsOk, Listing1, Working
<1>3. /\ IsSeq(said') /\ invocation' = invocation + 1
      /\ \A i \in DOMAIN said' : said'[i].type \in Tied => said'[i].id[1] = runs /\ said'[i].id[2] = invocation
      /\ \A i \in DOMAIN said' : said'[i].type \in Beginnings => said'[i].id[4] = Meant(said'[i].name)
      /\ Telling(said')
  BY InvokeSays
<1>4. \A i \in DOMAIN said' : said'[i].type \in Beginnings => Fits(said'[i].id, said'[i].name)
  BY <1>2, <1>3, KindFacts DEF Meant, Fits
<1>5. Listing1'
  BY <1>1, <1>2 DEF Listing1, IdsOk, Working
<1>6. EmittedIds'
  <2>1. \A i \in DOMAIN emitted : emitted[i].type \in Beginnings => emitted[i].id[2] \in 0..invocation
    BY <1>1 DEF IdsOk, EmittedIds
  <2> QED
    BY <1>1, <1>2, <1>3, <2>1 DEF IdsOk, EmittedIds, Fits
<1>7. InputIds'
  BY <1>1, <1>2 DEF IdsOk, InputIds, Fits
<1>8. MessageIds'
  <2>1. ASSUME NEW c, Stands(c, messages)
        PROVE  Fits(c.id, c.name) /\ (Stands(c, input) \/ (c.id[1] = runs /\ Own(c.id) /\ c.id[2] \in 0..(invocation - 1)))
    <3>1. Own(c.id) => c.id[2] \in 0..(invocation - 1)
      BY KindFacts DEF Own, IdsOk, EmittedIds
    <3> QED
      BY <2>1, <3>1 DEF IdsOk, MessageIds
  <2>2. (invocation + 1) - 2 = invocation - 1
    BY <1>1
  <2> QED
    BY <1>1, <1>2, <1>3, <2>1, <2>2 DEF IdsOk, MessageIds, Fits, Own
<1>9. SaidIds'
  <2>1. \A p \in DOMAIN emitted : emitted[p].type \in Beginnings => emitted[p].id[2] # invocation
    BY <1>1 DEF IdsOk, EmittedIds
  <2>2. (invocation + 1) - 1 = invocation /\ invocation + 1 >= 1 /\ 1..0 = {}
    BY <1>1
  <2>3. \A i \in DOMAIN said' : said'[i].type \in Beginnings => (said'[i].name \in DOMAIN Known'[said'[i].id[1]] => said'[i].id[4] = Known'[said'[i].id[1]][said'[i].name])
    BY <1>2, <1>4 DEF Fits
  <2> QED
    BY <1>1, <1>3, <2>1, <2>2, <2>3 DEF SaidIds, Fits
<1>10. WorkIds'
  BY <1>1 DEF WorkIds
<1> QED
  BY <1>5, <1>6, <1>7, <1>8, <1>9, <1>10 DEF IdsOk

\* An event of the agent is passed on.
LEMMA ForwardIds ==
  ASSUME TypeOK, IdsOk, Forward
  PROVE  IdsOk'
<1> DEFINE e == said[heard + 1]
           n == Len(emitted) + 1
<1>1. /\ pc = "agent" /\ heard < Len(said) /\ heard' = heard + 1 /\ pc' \in {"agent", "done"}
      /\ UNCHANGED <<listOnce, listed, messages, past, mw, input, tools, said, invocation, runs, lists>>
      /\ \/ emitted' = emitted /\ Dropped(e) /\ pc' = "agent"
         \/ emitted' = Append(emitted, Ev("runError", NoId)) /\ pc' = "done"
         \/ emitted' = Append(emitted, e) /\ pc' = "agent"
  BY DEF Forward, ioVars, Emit, Dropped
<1>2. /\ heard + 1 \in DOMAIN said /\ heard \in Nat /\ 1..(heard + 1) = 1..heard \cup {heard + 1} /\ 1..heard \subseteq DOMAIN said
      /\ heard + 1 \notin 1..heard /\ invocation \in Nat
  <2>1. DOMAIN said = 1..Len(said) /\ Len(said) \in Nat
    BY SeqFacts DEF TypeOK
  <2> QED
    BY <1>1, <2>1 DEF TypeOK
<1>3. Known' = Known /\ tools = Known[runs] /\ listOnce[mw]
  BY <1>1 DEF Known, IdsOk, Listing1, Working
<1>4. Listing1' /\ WorkIds' /\ InputIds'
  BY <1>1, <1>3 DEF Listing1, WorkIds, InputIds, IdsOk, Fits, Working
<1>5. ASSUME EmittedIds', \A id : Own(id) => Own(id)' PROVE MessageIds'
  BY <1>1, <1>3, <1>5 DEF MessageIds, IdsOk, Fits
<1>6. CASE emitted' = emitted /\ Dropped(e) /\ pc' = "agent"
  <2>1. EmittedIds' /\ \A id : Own(id) => Own(id)'
    BY <1>1, <1>3, <1>6 DEF EmittedIds, Own, IdsOk, Fits
  <2>2. SaidIds'
    BY <1>1, <1>2, <1>3, <1>6 DEF SaidIds, IdsOk, Fits
  <2> QED
    BY <1>4, <1>5, <2>1, <2>2 DEF IdsOk
<1>7. CASE emitted' = Append(emitted, Ev("runError", NoId)) /\ pc' = "done"
  <2>1. Ev("runError", NoId).type \notin Beginnings
    BY DEF Ev, Beginnings
  <2>2. EmittedIds' /\ \A id : Own(id) => Own(id)'
    BY <1>1, <1>7, <2>1, OtherEventsAreFree
  <2>3. SaidIds'
    BY <1>7 DEF SaidIds
  <2> QED
    BY <1>4, <1>5, <2>2, <2>3 DEF IdsOk
<1>8. CASE emitted' = Append(emitted, e) /\ pc' = "agent"
  <2>1. /\ DOMAIN emitted' = DOMAIN emitted \cup {n} /\ n \notin DOMAIN emitted
        /\ emitted'[n] = e /\ \A i \in DOMAIN emitted : emitted'[i] = emitted[i]
    BY <1>8, EmitFacts
  <2> HIDE DEF n
  <2>2. \A id : Own(id) => Own(id)'
    BY <2>1 DEF Own
  <2>3. e.type \in Beginnings => e.id[1] = runs /\ e.id[2] = invocation - 1 /\ Fits(e.id, e.name) /\ invocation >= 1
    BY <1>1, <1>2, KindFacts DEF IdsOk, SaidIds
  <2>4. e.type \in Beginnings => \A p \in DOMAIN emitted : emitted[p].type \in Beginnings => emitted[p].id # e.id
    <3> SUFFICES ASSUME e.type \in Beginnings, NEW p \in DOMAIN emitted, emitted[p].type \in Beginnings, emitted[p].id = e.id
                 PROVE  FALSE
      OBVIOUS
    <3>1. PICK i \in 1..heard : said[i] = emitted[p]
      BY <1>1, <2>3 DEF IdsOk, SaidIds
    <3>2. i = heard + 1
      BY <1>1, <1>2, <3>1, KindFacts DEF IdsOk, SaidIds, Telling
    <3> QED
      BY <1>2, <3>2
  <2>5. EmittedIds'
    <3> SUFFICES ASSUME NEW i \in DOMAIN emitted', emitted'[i].type \in Beginnings
                 PROVE  /\ emitted'[i].id[1] = runs /\ emitted'[i].id[2] \in 0..(invocation - 1)
                        /\ emitted'[i].name \in DOMAIN Known[emitted'[i].id[1]] => emitted'[i].id[4] = Known[emitted'[i].id[1]][emitted'[i].name]
                        /\ \A j \in DOMAIN emitted' : emitted'[j].type \in Beginnings /\ emitted'[j].id = emitted'[i].id => i = j
      BY <1>1, <1>3 DEF EmittedIds, Fits
    <3>1. CASE i = n
      BY <1>2, <2>1, <2>3, <2>4, <3>1 DEF Fits
    <3>2. CASE i # n
      <4>1. i \in DOMAIN emitted /\ emitted'[i] = emitted[i]
        BY <2>1, <3>2
      <4> QED
        BY <2>1, <2>4, <4>1 DEF EmittedIds, IdsOk, Fits
    <3> QED
      BY <3>1, <3>2
  <2>6. \A i \in 1..(heard + 1) : ~Dropped(said[i]) => \E p \in DOMAIN emitted' : emitted'[p] = said[i]
    <3> SUFFICES ASSUME NEW i \in 1..(heard + 1), ~Dropped(said[i]) PROVE \E p \in DOMAIN emitted' : emitted'[p] = said[i]
      OBVIOUS
    <3>1. CASE i = heard + 1
      BY <2>1, <3>1
    <3>2. CASE i # heard + 1
      <4>1. i \in 1..heard
        BY <1>2, <3>2
      <4>2. PICK p \in DOMAIN emitted : emitted[p] = said[i]
        BY <1>1, <4>1 DEF IdsOk, SaidIds
      <4> QED
        BY <2>1, <4>2
    <3> QED
      BY <3>1, <3>2
  <2>7. \A p \in DOMAIN emitted' : emitted'[p].type \in Beginnings /\ emitted'[p].id[2] = invocation - 1 =>
         \E i \in 1..(heard + 1) : said[i] = emitted'[p]
    <3> SUFFICES ASSUME NEW p \in DOMAIN emitted', emitted'[p].type \in Beginnings, emitted'[p].id[2] = invocation - 1
                 PROVE  \E i \in 1..(heard + 1) : said[i] = emitted'[p]
      OBVIOUS
    <3>1. CASE p = n
      BY <1>2, <2>1, <3>1
    <3>2. CASE p # n
      <4>1. p \in DOMAIN emitted /\ emitted'[p] = emitted[p]
        BY <2>1, <3>2
      <4>2. PICK i \in 1..heard : said[i] = emitted[p]
        BY <1>1, <4>1 DEF IdsOk, SaidIds
      <4> QED
        BY <1>2, <4>1, <4>2
    <3> QED
      BY <3>1, <3>2
  <2>8. SaidIds'
    BY <1>1, <1>3, <2>6, <2>7 DEF SaidIds, IdsOk, Fits
  <2> QED
    BY <1>4, <1>5, <2>2, <2>5, <2>8 DEF IdsOk
<1> QED
  BY <1>1, <1>6, <1>7, <1>8

\* What was said can be reconstructed.
LEMMA SaidIsOk ==
  ASSUME TypeOK, IdsOk, pc = "agent"
  PROVE  EventsOk(messages, said) /\ ArgsOk(said)
<1>1. runs \in Nat /\ invocation \in Nat
  BY McpAssumption DEF TypeOK
<1>2. \A i \in DOMAIN said : said[i].type \in Beginnings => \A c : Stands(c, messages) => c.id # said[i].id
  <2> SUFFICES ASSUME NEW i \in DOMAIN said, said[i].type \in Beginnings, NEW c, Stands(c, messages), c.id = said[i].id PROVE FALSE
    OBVIOUS
  <2>1. said[i].id[1] = runs /\ said[i].id[2] = invocation - 1
    BY KindFacts DEF IdsOk, SaidIds
  <2>2. c.id[1] \in 1..(runs - 1) \/ c.id[2] \in 0..(invocation - 2)
    BY DEF IdsOk, MessageIds, InputIds
  <2> QED
    BY <1>1, <2>1, <2>2
<1>3. Telling(said)
  BY DEF IdsOk, SaidIds
<1>4. EventsOk(messages, said)
  <2>1. MessagesOk(messages) /\ IsSeq(said)
    BY DEF IdsOk, MessageIds, TypeOK
  <2>2. \A i, j \in DOMAIN said : said[i].type = "callStart" /\ said[j].type = "callStart" /\ said[i].id = said[j].id => i = j
    BY <1>3, KindFacts DEF Telling
  <2> QED
    BY <1>2, <2>1, <2>2, KindFacts DEF EventsOk
<1>5. ArgsOk(said)
  <2>1. \A i, j \in DOMAIN said : said[i].type = "args" /\ said[j].type = "args" /\ said[i].id = said[j].id => i = j
    <3>1. \A kind \in Kinds : \A i, j \in DOMAIN said : said[i].type \in kind /\ said[j].type \in kind /\ said[j].id = said[i].id => j = i
      BY <1>3 DEF Telling
    <3> QED
      BY <3>1, KindFacts
  <2>2. ASSUME NEW i \in DOMAIN said, said[i].type = "args"
        PROVE  \E j \in 1..i : said[j].type = "callStart" /\ said[j].id = said[i].id
    <3>1. PICK j \in 1..i : said[j].type \in Beginnings /\ said[j].id = said[i].id
      BY <1>3, <2>2, KindFacts DEF Telling
    <3>2. j \in DOMAIN said
      <4>1. DOMAIN said = 1..Len(said) /\ Len(said) \in Nat
        BY SeqFacts DEF TypeOK
      <4> QED
        BY <4>1
    <3>3. said[j].type = "callStart"
      BY <1>3, <2>2, <3>1, <3>2 DEF Telling
    <3> QED
      BY <3>1, <3>3
  <2> QED
    BY <2>1, <2>2 DEF ArgsOk
<1> QED
  BY <1>4, <1>5

\* The agent is done: the calls it began join the conversation.
LEMMA DecideIds ==
  ASSUME TypeOK, IdsOk, Decide
  PROVE  IdsOk'
<1>1. /\ pc = "agent" /\ heard = Len(said) /\ pc' \in {"flush", "execute"} /\ (pc' = "execute" => work' # <<>>)
      /\ messages' = (IF mw = "mcp" THEN ReconstructMessages(messages, said) ELSE messages)
      /\ work' = Ours(GetOpenToolCalls(messages'))
      /\ UNCHANGED <<listOnce, listed, emitted, past, mw, input, tools, invocation, runs, lists>>
  BY DEF Decide, ioVars
<1>2. Known' = Known /\ tools = Known[runs] /\ listOnce[mw]
  BY <1>1 DEF Known, IdsOk, Listing1, Working
<1>3. Listing1' /\ InputIds' /\ EmittedIds' /\ SaidIds'
  BY <1>1, <1>2 DEF Listing1, InputIds, EmittedIds, SaidIds, IdsOk, Fits, Working
<1>4. \A j \in DOMAIN said : j \in 1..heard
  <2>1. DOMAIN said = 1..Len(said)
    BY SeqFacts DEF TypeOK
  <2> QED
    BY <1>1, <2>1
<1>5. /\ MessagesOk(messages')
      /\ \A c : Stands(c, messages') => Stands(c, messages) \/ (mw = "mcp" /\ \E j \in DOMAIN said : Starts(said[j], c))
  <2>1. CASE mw = "mcp"
    <3>1. EventsOk(messages, said) /\ messages' = ReconstructMessages(messages, said)
      BY <1>1, <2>1, SaidIsOk
    <3> DEFINE msgs == ReconstructMessages(messages, said)
    <3>2. MessagesOk(msgs) /\ \A c : Stands(c, msgs) => Stands(c, messages) \/ \E j \in DOMAIN said : Starts(said[j], c)
      BY <3>1, Reconstructed
    <3> HIDE DEF msgs
    <3>3. messages' = msgs
      BY <3>1 DEF msgs
    <3> QED
      BY <2>1, <3>2, <3>3
  <2>2. CASE mw # "mcp"
    BY <1>1, <2>2 DEF IdsOk, MessageIds
  <2> QED
    BY <2>1, <2>2
<1>6. \A c : Stands(c, messages') => Fits(c.id, c.name) /\ (Stands(c, input) \/ (c.id[1] = runs /\ Own(c.id)))
  <2> SUFFICES ASSUME NEW c, Stands(c, messages')
               PROVE  Fits(c.id, c.name) /\ (Stands(c, input) \/ (c.id[1] = runs /\ Own(c.id)))
    OBVIOUS
  <2>1. CASE Stands(c, messages)
    BY <2>1 DEF IdsOk, MessageIds
  <2>2. CASE \E j \in DOMAIN said : Starts(said[j], c)
    <3>1. PICK j \in DOMAIN said : Starts(said[j], c)
      BY <2>2
    <3>2. /\ ~Dropped(said[j]) /\ said[j].type = "callStart" /\ said[j].type \in Beginnings
          /\ said[j].id = c.id /\ said[j].name = c.name
      BY <3>1, KindFacts DEF Starts, Dropped
    <3>3. \E p \in DOMAIN emitted : emitted[p] = said[j]
      BY <1>1, <1>4, <3>2 DEF IdsOk, SaidIds
    <3> QED
      BY <1>1, <3>2, <3>3, KindFacts DEF IdsOk, SaidIds, Own
  <2> QED
    BY <1>5, <2>1, <2>2
<1>7. MessageIds'
  <2>1. mw = "apps" => messages' = input'
    BY <1>1 DEF IdsOk, MessageIds, TypeOK, Middlewares
  <2> QED
    BY <1>1, <1>2, <1>5, <1>6, <2>1 DEF MessageIds, Fits, Own
<1>8. WorkIds'
  <2> DEFINE msgs == messages'
             open == GetOpenToolCalls(msgs)
             ours == Ours(open)
  <2>1. IsSeq(open) /\ \A k \in DOMAIN open : Stands(open[k], msgs)
    BY <1>5, OpenCalls
  <2> HIDE DEF open
  <2>2. IsSeq(ours) /\ \A k \in DOMAIN ours : ours[k].name \in DOMAIN tools /\ \E x \in DOMAIN open : ours[k] = open[x]
    BY <2>1, OurCalls
  <2>3. work' = ours
    BY <1>1 DEF open
  <2> HIDE DEF ours
  <2> QED
    BY <1>1, <2>1, <2>2, <2>3 DEF WorkIds
<1> QED
  BY <1>3, <1>7, <1>8 DEF IdsOk

\* A result is emitted.
LEMMA EmitResultIds ==
  ASSUME TypeOK, IdsOk, EmitResult
  PROVE  IdsOk'
<1>1. /\ pc = "results" /\ work # <<>> /\ emitted' = Append(emitted, Ev("result", work[1].id))
      /\ messages' = (IF mw = "mcp" THEN Append(messages, Result(work[1].id)) ELSE messages)
      /\ \/ mw = "apps" /\ pc' = "snapshot" /\ work' = work
         \/ mw # "apps" /\ work' = Tail(work) /\ pc' = pc
      /\ UNCHANGED <<listOnce, listed, past, mw, input, tools, invocation, runs, lists>>
  BY DEF EmitResult, ioVars, Emit
<1>2. Known' = Known /\ tools = Known[runs] /\ listOnce[mw] /\ pc' \in {"results", "snapshot"}
  BY <1>1 DEF Known, IdsOk, Listing1, Working
<1>3. Ev("result", work[1].id).type \notin Beginnings
  BY DEF Ev, Beginnings
<1>4. EmittedIds' /\ \A id : Own(id) => Own(id)'
  BY <1>1, <1>3, OtherEventsAreFree
<1>5. Listing1' /\ InputIds' /\ SaidIds'
  BY <1>1, <1>2 DEF Listing1, InputIds, SaidIds, IdsOk, Fits, Working
<1>6. MessagesOk(messages') /\ \A c : Stands(c, messages') <=> Stands(c, messages)
  <2>1. CASE mw = "mcp"
    <3> DEFINE x == Result(work[1].id)
    <3>1. x.calls = <<>> /\ DOMAIN x.calls = {} /\ IsSeq(x.calls) /\ MessagesOk(messages)
      BY MessageFields, EmptyIsSeq DEF IdsOk, MessageIds
    <3> HIDE DEF x
    <3> DEFINE more == Append(messages, x)
    <3>2. MessagesOk(more) /\ \A c : Stands(c, more) <=> (Stands(c, messages) \/ \E k \in DOMAIN x.calls : x.calls[k] = c)
      BY <3>1, OneMoreMessage
    <3> HIDE DEF more
    <3>3. messages' = more
      BY <1>1, <2>1 DEF more, x
    <3> QED
      BY <3>1, <3>2, <3>3
  <2>2. CASE mw # "mcp"
    BY <1>1, <2>2 DEF IdsOk, MessageIds
  <2> QED
    BY <2>1, <2>2
<1>7. MessageIds'
  <2>1. mw = "apps" => messages' = input'
    BY <1>1 DEF IdsOk, MessageIds
  <2>2. pc' # "agent"
    BY <1>2
  <2> QED
    BY <1>1, <1>2, <1>4, <1>6, <2>1, <2>2 DEF MessageIds, IdsOk, Fits
<1>8. WorkIds'
  <2>1. IsSeq(work) /\ \A k \in DOMAIN work : Stands(work[k], messages) /\ work[k].name \in DOMAIN tools
    BY <1>1 DEF IdsOk, WorkIds
  <2>2. CASE work' = work
    BY <1>1, <1>6, <2>1, <2>2 DEF WorkIds
  <2>3. CASE work' = Tail(work) /\ pc' = "results"
    <3>1. IsSeq(work') /\ \A k \in DOMAIN work' : k + 1 \in DOMAIN work /\ work'[k] = work[k + 1]
      BY <1>1, <2>1, <2>3, TailIsSeq
    <3> QED
      BY <1>1, <1>6, <2>1, <2>3, <3>1 DEF WorkIds
  <2> QED
    BY <1>1, <2>2, <2>3
<1> QED
  BY <1>4, <1>5, <1>7, <1>8 DEF IdsOk

\* An event of the middleware's own is emitted.
LEMMA OwnEventIds ==
  ASSUME TypeOK, IdsOk, EmitSnapshot \/ Flush \/ ProxyStart \/ ProxyFinish
  PROVE  IdsOk'
<1>1. /\ UNCHANGED <<listOnce, listed, messages, past, mw, input, tools, invocation, runs, lists>>
      /\ pc' \in {"results", "done", "proxied"} /\ (pc' = "results" => pc = "snapshot")
      /\ \/ pc = "snapshot" /\ work' = Tail(work)
         \/ pc' # "results"
      /\ emitted' = emitted \/ \E x : x.type \notin Beginnings /\ emitted' = Append(emitted, x)
  <2>1. \A id : Ev("snapshot", id).type \notin Beginnings /\ Ev("runFinished", id).type \notin Beginnings /\ Ev("runStarted", id).type \notin Beginnings
    BY DEF Ev, Beginnings
  <2>2. CASE EmitSnapshot
    BY <2>1, <2>2 DEF EmitSnapshot, ioVars, Emit
  <2>3. CASE Flush
    BY <2>1, <2>3 DEF Flush, ioVars, runVars, Emit
  <2>4. CASE ProxyStart \/ ProxyFinish
    BY <2>1, <2>4 DEF ProxyStart, ProxyFinish, ioVars, runVars, Emit
  <2> QED
    BY <2>2, <2>3, <2>4
<1>2. Known' = Known
  BY <1>1 DEF Known
<1>3. EmittedIds' /\ \A id : Own(id) => Own(id)'
  <2>1. CASE emitted' = emitted
    BY <1>1, <1>2, <2>1 DEF EmittedIds, Own, IdsOk, Fits
  <2>2. CASE \E x : x.type \notin Beginnings /\ emitted' = Append(emitted, x)
    BY <1>1, <2>2, OtherEventsAreFree
  <2> QED
    BY <1>1, <2>1, <2>2
<1>4. Listing1'
  <2>1. ~listOnce[mw] => \A i \in DOMAIN emitted' : emitted'[i].type \notin Beginnings
    <3> SUFFICES ASSUME ~listOnce[mw], NEW i \in DOMAIN emitted', emitted'[i].type \in Beginnings PROVE FALSE
      OBVIOUS
    <3>1. CASE emitted' = emitted
      BY <3>1 DEF IdsOk, Listing1
    <3>2. CASE \E x : x.type \notin Beginnings /\ emitted' = Append(emitted, x)
      <4>1. PICK x : x.type \notin Beginnings /\ emitted' = Append(emitted, x)
        BY <3>2
      <4>2. i \in DOMAIN emitted /\ emitted'[i] = emitted[i]
        BY <4>1, EmitFacts
      <4> QED
        BY <4>2 DEF IdsOk, Listing1
    <3> QED
      BY <1>1, <3>1, <3>2
  <2> QED
    BY <1>1, <1>2, <2>1 DEF Listing1, IdsOk, Working
<1>5. InputIds' /\ SaidIds'
  BY <1>1, <1>2 DEF InputIds, SaidIds, IdsOk, Fits
<1>6. MessageIds'
  BY <1>1, <1>2, <1>3 DEF MessageIds, IdsOk, Fits
<1>7. WorkIds'
  <2>1. CASE pc' # "results"
    BY <1>1, <2>1 DEF WorkIds
  <2>2. CASE pc' = "results" /\ pc = "snapshot" /\ work' = Tail(work)
    <3>1. IsSeq(work) /\ work # <<>> /\ \A k \in DOMAIN work : Stands(work[k], messages) /\ work[k].name \in DOMAIN tools
      BY <2>2 DEF IdsOk, WorkIds
    <3>2. IsSeq(work') /\ \A k \in DOMAIN work' : k + 1 \in DOMAIN work /\ work'[k] = work[k + 1]
      BY <2>2, <3>1, TailIsSeq
    <3> QED
      BY <1>1, <2>2, <3>1, <3>2 DEF WorkIds
  <2> QED
    BY <1>1, <2>1, <2>2
<1> QED
  BY <1>3, <1>4, <1>5, <1>6, <1>7 DEF IdsOk

\* The other steps change no ids.
LEMMA OtherStepsIds ==
  ASSUME TypeOK, IdsOk, Execute \/ Continue \/ Read \/ Leave \/ UNCHANGED vars
  PROVE  IdsOk'
<1>1. /\ UNCHANGED <<listOnce, listed, messages, mw, input, tools, invocation, runs, lists, emitted, said, heard, work>>
      /\ (pc' = pc /\ past' = past) \/ (pc = "execute" /\ pc' = "results") \/ (pc = "results" /\ pc' \in {"invoke", "flush"})
  BY DEF Execute, Continue, Read, Leave, vars, runVars, ioVars
<1>2. Known' = Known
  BY <1>1 DEF Known
<1>3. Listing1'
  <2>1. past' = past \/ listOnce[mw]
    BY <1>1 DEF IdsOk, Listing1, Working, Execute, Continue, Read, Leave, vars
  <2> QED
    BY <1>1, <1>2, <2>1 DEF Listing1, IdsOk, Working
<1>4. EmittedIds' /\ InputIds'
  BY <1>1, <1>2 DEF EmittedIds, InputIds, IdsOk, Fits
<1>5. MessageIds' /\ SaidIds'
  BY <1>1, <1>2 DEF MessageIds, SaidIds, IdsOk, Fits, Own
<1>6. WorkIds'
  BY <1>1 DEF WorkIds, IdsOk
<1> QED
  BY <1>3, <1>4, <1>5, <1>6 DEF IdsOk

\* Wherever a call is, its id names the run it was begun in and the tool the agent was offered.
THEOREM IdsAreOk == Spec => []IdsOk
<1>1. Init => IdsOk
  <2> SUFFICES ASSUME Init PROVE IdsOk
    OBVIOUS
  <2>1. MessagesOk(<<>>) /\ \A c : ~Stands(c, <<>>)
    BY EmptyIsSeq DEF MessagesOk, Stands
  <2>2. pc = "idle" /\ input = <<>> /\ messages = <<>> /\ emitted = <<>> /\ past = {} /\ invocation = 0 /\ DOMAIN emitted = {}
    BY EmptyIsSeq DEF Init
  <2>3. Listing1 /\ EmittedIds
    BY <2>1, <2>2 DEF Listing1, EmittedIds, Working
  <2>4. InputIds /\ MessageIds /\ SaidIds /\ WorkIds
    BY <2>1, <2>2 DEF InputIds, MessageIds, SaidIds, WorkIds
  <2> QED
    BY <2>3, <2>4 DEF IdsOk
<1>2. TypeOK /\ IdsOk /\ [Next]_vars => IdsOk'
  BY StartRunIds, ResolveToolsIds, InvokeIds, ForwardIds, DecideIds, EmitResultIds, OwnEventIds, OtherStepsIds DEF Next, Middleware
<1> QED
  BY <1>1, <1>2, TypesAreOk, PTL DEF Spec

-----------------------------------------------------------------------------
(* The arguments of calls.                                                 *)

\* A call is not followed by its arguments at once, or nothing follows it.
Strict == \E i \in DOMAIN emitted : i < Len(emitted) /\ emitted[i].type = "callStart"
             /\ ~(emitted[i + 1].type = "args" /\ emitted[i + 1].id = emitted[i].id)
LastIsOpen == emitted # <<>> /\ emitted[Len(emitted)].type = "callStart"
Muddled == Strict \/ (pc \notin {"invoke", "agent"} /\ LastIsOpen)

\* A call that waits for its arguments was emitted last, and what came first after any other is its arguments.
HeardInOrder ==
  pc = "agent" /\ ~Strict => \A i \in 1..heard : said[i].type = "callStart" =>
    /\ (\A j \in (i + 1)..heard : Dropped(said[j])) => emitted # <<>> /\ emitted[Len(emitted)] = said[i]
    /\ \A j \in (i + 1)..heard : ~Dropped(said[j]) /\ (\A k \in (i + 1)..(j - 1) : Dropped(said[k]))
         => said[j].type = "args" /\ said[j].id = said[i].id
\* The calls of the conversation have their own arguments.
OwnArgs == ~Muddled => \A c : Stands(c, messages) => c.args = <<c.id>>
\* So had those that reached a server.
PastOk == \A c \in past : /\ c.run \in 1..runs /\ c.id[1] \in 1..runs
                          /\ mw = "apps" \/ lists[c.run] = lists[c.id[1]] => c.tool = c.id[4]
                          /\ c.run = runs => c.args = c.id \/ (c.id[1] = runs /\ Muddled)
ArgsInOrder == HeardInOrder /\ OwnArgs /\ PastOk /\ (pc = "results" /\ work = <<>> => ~LastIsOpen)

\* What is muddled stays so.
LEMMA StrictStays ==
  ASSUME TypeOK, NEW x, emitted' = Append(emitted, x)
  PROVE  /\ Strict => Strict'
         /\ LastIsOpen /\ ~Strict' => x.type = "args" /\ x.id = emitted[Len(emitted)].id
         /\ LastIsOpen' <=> x.type = "callStart"
         /\ emitted' # <<>> /\ emitted'[Len(emitted')] = x
<1> DEFINE n == Len(emitted)
<1>1. /\ IsSeq(emitted') /\ n \in Nat /\ DOMAIN emitted = 1..n /\ Len(emitted') = n + 1
      /\ DOMAIN emitted' = DOMAIN emitted \cup {n + 1} /\ n + 1 \notin DOMAIN emitted
      /\ emitted'[n + 1] = x /\ \A i \in DOMAIN emitted : emitted'[i] = emitted[i]
  BY EmitFacts
<1>2. Strict => Strict'
  <2> SUFFICES ASSUME Strict PROVE Strict'
    OBVIOUS
  <2>1. PICK i \in DOMAIN emitted : i < n /\ emitted[i].type = "callStart"
                                    /\ ~(emitted[i + 1].type = "args" /\ emitted[i + 1].id = emitted[i].id)
    BY DEF Strict
  <2>2. i + 1 \in DOMAIN emitted /\ i < n + 1 /\ i \in DOMAIN emitted'
    BY <1>1, <2>1
  <2>3. emitted'[i] = emitted[i] /\ emitted'[i + 1] = emitted[i + 1]
    BY <1>1, <2>2
  <2> HIDE DEF n
  <2> QED
    BY <1>1, <2>1, <2>2, <2>3 DEF Strict
<1>3. LastIsOpen /\ ~Strict' => x.type = "args" /\ x.id = emitted[n].id
  <2> SUFFICES ASSUME LastIsOpen, ~(x.type = "args" /\ x.id = emitted[n].id) PROVE Strict'
    OBVIOUS
  <2>1. n \in DOMAIN emitted /\ emitted[n].type = "callStart" /\ n \in DOMAIN emitted' /\ emitted'[n] = emitted[n] /\ n < n + 1
    <3>0. IsSeq(emitted) /\ emitted # <<>>
      BY DEF LastIsOpen, TypeOK
    <3>1. n # 0 /\ emitted[n].type = "callStart"
      BY <3>0, NoPlaces DEF LastIsOpen
    <3> HIDE DEF n
    <3>2. n \in DOMAIN emitted /\ n < n + 1
      BY <1>1, <3>1
    <3> QED
      BY <1>1, <3>1, <3>2
  <2> HIDE DEF n
  <2> QED
    BY <1>1, <2>1 DEF Strict
<1>4. emitted' # <<>> /\ emitted'[Len(emitted')] = x
  BY <1>1, EmptyIsSeq
<1> QED
  BY <1>2, <1>3, <1>4 DEF LastIsOpen

\* What is strict overlaps.
LEMMA MuddledOverlaps ==
  ASSUME TypeOK, Muddled
  PROVE  Overlapping
<1>1. Len(emitted) \in Nat /\ DOMAIN emitted = 1..Len(emitted)
  BY SeqFacts DEF TypeOK
<1>2. Strict => Overlapping
  BY DEF Strict, Overlapping
<1>3. LastIsOpen => Overlapping
  <2> SUFFICES ASSUME LastIsOpen PROVE Overlapping
    OBVIOUS
  <2>1. Len(emitted) # 0
    BY NoPlaces DEF LastIsOpen, TypeOK
  <2>2. Len(emitted) \in DOMAIN emitted /\ ~(Len(emitted) < Len(emitted)) /\ emitted[Len(emitted)].type = "callStart"
    BY <1>1, <2>1 DEF LastIsOpen
  <2> QED
    BY <2>2 DEF Overlapping
<1> QED
  BY <1>2, <1>3 DEF Muddled

\* The conversation sent has no arguments but its calls' own.
LEMMA StartRunArgs ==
  ASSUME TypeOK, IdsOk', ArgsInOrder, StartRun
  PROVE  ArgsInOrder'
<1>1. messages' = input' /\ past' = past /\ runs' = runs + 1 /\ runs \in Nat /\ pc' \in {"list", "proxy"} /\ mw' = mw
  BY McpAssumption DEF StartRun, TypeOK
<1>2. OwnArgs'
  BY <1>1 DEF IdsOk, InputIds, OwnArgs
<1>3. \A r \in 1..runs : lists'[r] = lists[r]
  BY ListsStay
<1>4. PastOk'
  BY <1>1, <1>3 DEF ArgsInOrder, PastOk
<1> QED
  BY <1>1, <1>2, <1>4 DEF ArgsInOrder, HeardInOrder

\* The agent begins to answer, or its tools are listed before that.
LEMMA InvokeArgs ==
  ASSUME TypeOK, IdsOk, ArgsInOrder, ResolveTools \/ Invoke
  PROVE  ArgsInOrder'
<1>1. /\ pc \in {"list", "invoke"} /\ pc' \in {"invoke", "agent"} /\ UNCHANGED <<emitted, messages, past, runs, mw, lists>>
      /\ (pc' = "agent" => heard' = 0) /\ (pc = "list" => emitted = <<>>)
  BY DEF ResolveTools, Invoke, ioVars, IdsOk, Listing1
<1>2. Strict' <=> Strict
  BY <1>1 DEF Strict
<1>3. Muddled => Muddled'
  BY <1>1, <1>2 DEF Muddled, LastIsOpen
<1>4. Muddled' => Muddled
  BY <1>1, <1>2 DEF Muddled
<1>5. HeardInOrder'
  <2>1. 1..0 = {}
    OBVIOUS
  <2> QED
    BY <1>1, <2>1 DEF HeardInOrder
<1>6. OwnArgs' /\ PastOk'
  BY <1>1, <1>3, <1>4 DEF OwnArgs, PastOk, ArgsInOrder
<1> QED
  BY <1>1, <1>5, <1>6 DEF ArgsInOrder

\* The agent's events are passed on in their order.
LEMMA ForwardArgs ==
  ASSUME TypeOK, IdsOk, ArgsInOrder, Forward
  PROVE  ArgsInOrder'
<1> DEFINE e == said[heard + 1]
<1>1. /\ pc = "agent" /\ heard < Len(said) /\ heard' = heard + 1 /\ pc' \in {"agent", "done"}
      /\ UNCHANGED <<messages, past, said, runs, mw, lists>>
      /\ \/ emitted' = emitted /\ Dropped(e) /\ pc' = "agent"
         \/ emitted' = Append(emitted, Ev("runError", NoId)) /\ pc' = "done"
         \/ emitted' = Append(emitted, e) /\ pc' = "agent"
  BY DEF Forward, ioVars, Emit, Dropped
<1>2. /\ heard + 1 \in DOMAIN said /\ heard \in Nat
      /\ \A i \in 1..(heard + 1) : i = heard + 1 \/ i \in 1..heard
      /\ \A i \in 1..heard : (i + 1)..(heard + 1) = (i + 1)..heard \cup {heard + 1} /\ i # heard + 1
      /\ (heard + 2)..(heard + 1) = {} /\ (heard + 1) - 1 = heard
  <2>1. DOMAIN said = 1..Len(said) /\ Len(said) \in Nat
    BY SeqFacts DEF TypeOK
  <2> QED
    BY <1>1, <2>1 DEF TypeOK
<1>3. Strict => Strict'
  <2>1. CASE emitted' = emitted
    BY <2>1 DEF Strict
  <2>2. CASE \E x : emitted' = Append(emitted, x)
    BY <2>2, StrictStays
  <2> QED
    BY <1>1, <2>1, <2>2
<1>4. Muddled => Muddled'
  BY <1>1, <1>3 DEF Muddled
<1>5. OwnArgs' /\ PastOk'
  BY <1>1, <1>4 DEF OwnArgs, PastOk, ArgsInOrder
<1>6. HeardInOrder'
  <2> SUFFICES ASSUME pc' = "agent", ~Strict', NEW i \in 1..(heard + 1), said[i].type = "callStart"
               PROVE  /\ (\A j \in (i + 1)..(heard + 1) : Dropped(said[j])) => emitted' # <<>> /\ emitted'[Len(emitted')] = said[i]
                      /\ \A j \in (i + 1)..(heard + 1) : ~Dropped(said[j]) /\ (\A k \in (i + 1)..(j - 1) : Dropped(said[k]))
                           => said[j].type = "args" /\ said[j].id = said[i].id
    BY <1>1 DEF HeardInOrder
  <2>1. CASE i = heard + 1
    <3>1. ~Dropped(e)
      BY <2>1 DEF Dropped
    <3>2. emitted' = Append(emitted, e)
      BY <1>1, <2>1, <3>1
    <3>3. emitted' # <<>> /\ emitted'[Len(emitted')] = e
      BY <3>2, StrictStays
    <3>4. (i + 1)..(heard + 1) = {}
      BY <1>2, <2>1
    <3> QED
      BY <2>1, <3>3, <3>4
  <2>2. CASE i \in 1..heard
    <3>1. /\ (\A j \in (i + 1)..heard : Dropped(said[j])) => emitted # <<>> /\ emitted[Len(emitted)] = said[i]
          /\ \A j \in (i + 1)..heard : ~Dropped(said[j]) /\ (\A k \in (i + 1)..(j - 1) : Dropped(said[k]))
                           => said[j].type = "args" /\ said[j].id = said[i].id
      BY <1>1, <1>3, <2>2 DEF ArgsInOrder, HeardInOrder
    <3>2. CASE emitted' = emitted /\ Dropped(e)
      BY <1>2, <2>2, <3>1, <3>2
    <3>3. CASE emitted' = Append(emitted, e)
      <4>1. ASSUME \A j \in (i + 1)..heard : Dropped(said[j]) PROVE e.type = "args" /\ e.id = said[i].id
        <5>1. LastIsOpen /\ emitted[Len(emitted)] = said[i]
          BY <3>1, <4>1 DEF LastIsOpen
        <5> QED
          BY <3>3, <5>1, StrictStays
      <4>2. ~(\A j \in (i + 1)..(heard + 1) : Dropped(said[j]))
        <5> SUFFICES ASSUME \A j \in (i + 1)..(heard + 1) : Dropped(said[j]) PROVE FALSE
          OBVIOUS
        <5>1. Dropped(e) /\ \A j \in (i + 1)..heard : Dropped(said[j])
          BY <1>2, <2>2
        <5> QED
          BY <4>1, <5>1 DEF Dropped
      <4>3. ASSUME NEW j \in (i + 1)..(heard + 1), ~Dropped(said[j]), \A k \in (i + 1)..(j - 1) : Dropped(said[k])
            PROVE  said[j].type = "args" /\ said[j].id = said[i].id
        <5>1. CASE j = heard + 1
          BY <1>2, <4>1, <4>3, <5>1
        <5>2. CASE j # heard + 1
          BY <1>2, <2>2, <3>1, <4>3, <5>2
        <5> QED
          BY <5>1, <5>2
      <4> QED
        BY <4>2, <4>3
    <3> QED
      BY <1>1, <3>2, <3>3
  <2> QED
    BY <1>2, <2>1, <2>2
<1> QED
  BY <1>1, <1>5, <1>6 DEF ArgsInOrder

\* The calls of an invocation are given the arguments said for them.
LEMMA DecideArgs ==
  ASSUME TypeOK, IdsOk, ArgsInOrder, Decide
  PROVE  ArgsInOrder'
<1>1. /\ pc = "agent" /\ heard = Len(said) /\ pc' \in {"flush", "execute"}
      /\ messages' = (IF mw = "mcp" THEN ReconstructMessages(messages, said) ELSE messages)
      /\ UNCHANGED <<emitted, past, runs, mw, lists>>
  BY DEF Decide, ioVars
<1>2. Muddled' <=> Strict \/ LastIsOpen
  BY <1>1 DEF Muddled, Strict, LastIsOpen
<1>3. Muddled <=> Strict
  BY <1>1 DEF Muddled
<1>4. PastOk' /\ HeardInOrder'
  BY <1>1, <1>2, <1>3 DEF PastOk, HeardInOrder, ArgsInOrder
<1>5. ASSUME ~Strict, ~LastIsOpen, NEW c, Stands(c, messages') PROVE c.args = <<c.id>>
  <2>1. Stands(c, messages) => c.args = <<c.id>>
    BY <1>3, <1>5 DEF ArgsInOrder, OwnArgs
  <2>2. CASE mw # "mcp"
    BY <1>1, <1>5, <2>1, <2>2
  <2>3. CASE mw = "mcp"
    <3>1. EventsOk(messages, said) /\ ArgsOk(said) /\ messages' = ReconstructMessages(messages, said)
      BY <1>1, <2>3, SaidIsOk
    <3>2. DOMAIN said = 1..Len(said) /\ Len(said) \in Nat
      BY SeqFacts DEF TypeOK
    <3>3. ASSUME NEW j \in DOMAIN said PROVE ~Waits(j, Len(said), said)
      BY <1>1, <1>5, <3>2 DEF Waits, ArgsInOrder, HeardInOrder, LastIsOpen
    <3>4. Follows(said)
      <4> SUFFICES ASSUME NEW j \in DOMAIN said, NEW k \in DOMAIN said, j < k, said[j].type = "callStart", ~Dropped(said[k]),
                          \A l \in (j + 1)..(k - 1) : Dropped(said[l])
                   PROVE  said[k].type = "args" /\ said[k].id = said[j].id
        BY DEF Follows
      <4>1. j \in 1..heard /\ k \in (j + 1)..heard
        BY <1>1, <3>2
      <4> QED
        BY <1>1, <1>5, <4>1 DEF ArgsInOrder, HeardInOrder
    <3> DEFINE msgs == ReconstructMessages(messages, said)
    <3>5. \A x : Stands(x, msgs) => Stands(x, messages) \/ x.args = <<x.id>>
      BY <3>1, <3>3, <3>4, Reconstructed
    <3> HIDE DEF msgs
    <3>6. messages' = msgs
      BY <3>1 DEF msgs
    <3> QED
      BY <1>5, <2>1, <3>5, <3>6
  <2> QED
    BY <2>2, <2>3
<1>6. OwnArgs'
  BY <1>2, <1>5 DEF OwnArgs
<1> QED
  BY <1>1, <1>4, <1>6 DEF ArgsInOrder

\* The servers get them.
LEMMA ExecuteArgs ==
  ASSUME TypeOK, IdsOk, ArgsInOrder, Execute
  PROVE  ArgsInOrder'
<1>1. /\ pc = "execute" /\ pc' = "results" /\ UNCHANGED <<emitted, messages, runs, mw, lists, work, tools>> /\ work # <<>> /\ runs \in Nat /\ runs >= 1
      /\ tools = Known[runs]
  BY McpAssumption DEF Execute, runVars, ioVars, IdsOk, WorkIds, TypeOK, Listing1, Working
<1>2. Muddled' <=> Muddled
  BY <1>1 DEF Muddled, Strict, LastIsOpen
<1>3. PICK some \in SUBSET DOMAIN work :
        past' = past \cup {[run |-> runs, id |-> work[i].id, tool |-> tools[work[i].name], args |-> Arguments(work[i])] : i \in some}
  BY DEF Execute, Reached
<1>4. ASSUME NEW i \in DOMAIN work
      PROVE  /\ work[i].id[1] \in 1..runs
             /\ mw = "apps" \/ lists[runs] = lists[work[i].id[1]] => tools[work[i].name] = work[i].id[4]
             /\ Arguments(work[i]) = work[i].id \/ (work[i].id[1] = runs /\ Muddled)
  <2>1. Stands(work[i], messages) /\ work[i].name \in DOMAIN tools
    BY <1>1 DEF IdsOk, WorkIds
  <2>5. work[i].id[1] \in 1..runs
    BY <1>1, <2>1 DEF IdsOk, MessageIds, InputIds
  <2>2. mw = "apps" \/ lists[runs] = lists[work[i].id[1]] => tools[work[i].name] = work[i].id[4]
    <3> SUFFICES ASSUME mw = "apps" \/ lists[runs] = lists[work[i].id[1]] PROVE tools[work[i].name] = work[i].id[4]
      OBVIOUS
    <3>1. Known[work[i].id[1]] = Known[runs]
      <4>1. runs \in 1..runs
        BY <1>1
      <4>2. \A c, d : Resolved("apps", listed["apps"], c) = Resolved("apps", listed["apps"], d)
        BY DEF Resolved
      <4> QED
        BY <2>5, <4>1, <4>2 DEF Known
    <3> QED
      BY <1>1, <2>1, <3>1 DEF IdsOk, MessageIds, Fits
  <2>3. work[i].args = <<work[i].id>> \/ (work[i].id[1] = runs /\ Muddled)
    BY <2>1 DEF ArgsInOrder, OwnArgs, IdsOk, MessageIds, InputIds
  <2>4. work[i].args = <<work[i].id>> => Arguments(work[i]) = work[i].id
    BY DEF Arguments
  <2> QED
    BY <2>2, <2>3, <2>4, <2>5
<1>5. PastOk'
  <2> SUFFICES ASSUME NEW c \in past'
               PROVE  /\ c.run \in 1..runs /\ c.id[1] \in 1..runs
                      /\ mw = "apps" \/ lists[c.run] = lists[c.id[1]] => c.tool = c.id[4]
                      /\ (c.run = runs => c.args = c.id \/ (c.id[1] = runs /\ Muddled))
    BY <1>1, <1>2 DEF PastOk
  <2>1. CASE c \in past
    BY <2>1 DEF ArgsInOrder, PastOk
  <2>2. CASE \E i \in some : c = [run |-> runs, id |-> work[i].id, tool |-> tools[work[i].name], args |-> Arguments(work[i])]
    <3>1. PICK i \in some : c = [run |-> runs, id |-> work[i].id, tool |-> tools[work[i].name], args |-> Arguments(work[i])]
      BY <2>2
    <3>2. c.run = runs /\ c.id = work[i].id /\ c.tool = tools[work[i].name] /\ c.args = Arguments(work[i])
      BY <3>1
    <3>3. i \in DOMAIN work /\ runs \in 1..runs
      BY <1>1
    <3> QED
      BY <1>4, <3>2, <3>3
  <2> QED
    BY <1>3, <2>1, <2>2
<1> QED
  BY <1>1, <1>2, <1>5 DEF ArgsInOrder, OwnArgs, HeardInOrder

\* A result is emitted, or an event of the middleware's own.
LEMMA EmitArgs ==
  ASSUME TypeOK, IdsOk, ArgsInOrder, EmitResult \/ EmitSnapshot \/ Flush \/ ProxyStart \/ ProxyFinish
  PROVE  ArgsInOrder'
<1>1. /\ pc \notin {"invoke", "agent"} /\ pc' \notin {"invoke", "agent"} /\ UNCHANGED <<past, runs, mw, lists>>
      /\ \/ emitted' = emitted /\ pc' = "done"
         \/ \E x : x.type \notin {"callStart", "args"} /\ emitted' = Append(emitted, x)
      /\ messages' = messages \/ (pc = "results" /\ messages' = Append(messages, Result(work[1].id)))
  <2>1. \A id : Ev("snapshot", id).type = "snapshot" /\ Ev("runFinished", id).type = "runFinished" /\ Ev("runStarted", id).type = "runStarted"
             /\ Ev("result", id).type = "result"
    BY DEF Ev
  <2>2. CASE EmitSnapshot
    BY <2>1, <2>2 DEF EmitSnapshot, ioVars, Emit
  <2>3. CASE Flush
    BY <2>1, <2>3 DEF Flush, ioVars, runVars, Emit
  <2>4. CASE ProxyStart \/ ProxyFinish
    BY <2>1, <2>4 DEF ProxyStart, ProxyFinish, ioVars, runVars, Emit
  <2>5. CASE EmitResult
    BY <2>1, <2>5 DEF EmitResult, ioVars, Emit
  <2> QED
    BY <2>2, <2>3, <2>4, <2>5
<1>2. /\ Muddled => Muddled'
      /\ pc' # "done" => ~LastIsOpen'
  <2>1. CASE emitted' = emitted /\ pc' = "done"
    BY <1>1, <2>1 DEF Muddled, Strict, LastIsOpen
  <2>2. CASE \E x : x.type \notin {"callStart", "args"} /\ emitted' = Append(emitted, x)
    <3>1. PICK x : x.type \notin {"callStart", "args"} /\ emitted' = Append(emitted, x)
      BY <2>2
    <3>2. (Strict => Strict') /\ (LastIsOpen => Strict') /\ ~LastIsOpen'
      BY <3>1, StrictStays
    <3> QED
      BY <3>2 DEF Muddled
  <2> QED
    BY <1>1, <2>1, <2>2
<1>3. \A c : Stands(c, messages') => Stands(c, messages)
  <2>1. CASE messages' = Append(messages, Result(work[1].id))
    <3> DEFINE x == Result(work[1].id)
    <3>1. x.calls = <<>> /\ DOMAIN x.calls = {} /\ IsSeq(x.calls) /\ MessagesOk(messages)
      BY MessageFields, EmptyIsSeq DEF IdsOk, MessageIds
    <3> HIDE DEF x
    <3> DEFINE more == Append(messages, x)
    <3>2. \A c : Stands(c, more) => Stands(c, messages)
      BY <3>1, OneMoreMessage
    <3> HIDE DEF more
    <3>3. messages' = more
      BY <2>1 DEF more, x
    <3> QED
      BY <3>2, <3>3
  <2>2. CASE messages' = messages
    BY <2>2
  <2> QED
    BY <1>1, <2>1, <2>2
<1>4. OwnArgs'
  BY <1>2, <1>3 DEF OwnArgs, ArgsInOrder
<1>5. PastOk' /\ HeardInOrder'
  BY <1>1, <1>2 DEF PastOk, HeardInOrder, ArgsInOrder
<1> QED
  BY <1>2, <1>4, <1>5 DEF ArgsInOrder

\* Another round begins after results, and then no call is the last event.
LEMMA ContinueArgs ==
  ASSUME TypeOK, ArgsInOrder, Continue \/ Read \/ Leave \/ UNCHANGED vars
  PROVE  ArgsInOrder'
<1>1. /\ UNCHANGED <<messages, runs, mw, lists, emitted, said, heard, work, past>>
      /\ pc' = pc \/ (pc = "results" /\ work = <<>> /\ pc' \in {"invoke", "flush"})
  BY DEF Continue, Read, Leave, vars, runVars, ioVars
<1>2. (Strict' <=> Strict) /\ (LastIsOpen' <=> LastIsOpen)
  BY <1>1 DEF Strict, LastIsOpen
<1>3. Muddled' <=> Muddled
  BY <1>1, <1>2 DEF Muddled, ArgsInOrder
<1>4. HeardInOrder'
  BY <1>1, <1>2 DEF HeardInOrder, ArgsInOrder
<1>5. OwnArgs' /\ PastOk'
  BY <1>1, <1>3 DEF OwnArgs, PastOk, ArgsInOrder
<1> QED
  BY <1>1, <1>2, <1>4, <1>5 DEF ArgsInOrder

\* Calls have their own arguments, as long as these follow at once.
THEOREM ArgsAreInOrder == Spec => []ArgsInOrder
<1>1. Init => ArgsInOrder
  <2> SUFFICES ASSUME Init PROVE ArgsInOrder
    OBVIOUS
  <2>1. pc = "idle" /\ messages = <<>> /\ past = {} /\ DOMAIN messages = {}
    BY EmptyIsSeq DEF Init
  <2> QED
    BY <2>1 DEF ArgsInOrder, HeardInOrder, OwnArgs, PastOk, Stands
<1>2. TypeOK /\ IdsOk /\ IdsOk' /\ ArgsInOrder /\ [Next]_vars => ArgsInOrder'
  BY StartRunArgs, InvokeArgs, ForwardArgs, DecideArgs, ExecuteArgs, EmitArgs, ContinueArgs DEF Next, Middleware
<1> QED
  BY <1>1, <1>2, TypesAreOk, IdsAreOk, PTL DEF Spec

\* A call that reaches a server reaches the tool the agent was offered under that name, if the
\* client has the same tools as when the call was made, with the arguments of that very call, if
\* those of each follow its start at once.
THEOREM CallsReachTheirToolHolds == Spec => []CallsReachTheirTool
<1>1. TypeOK /\ ArgsInOrder => CallsReachTheirTool
  BY MuddledOverlaps DEF ArgsInOrder, PastOk, CallsReachTheirTool
<1> QED
  BY <1>1, TypesAreOk, ArgsAreInOrder, PTL

-----------------------------------------------------------------------------
(* The run the client sees.                                                *)

\* RUN_STARTED comes once, and RUN_FINISHED or RUN_ERROR last.
RunIsOne ==
  /\ \A i, j \in DOMAIN emitted : emitted[i].type = "runStarted" /\ emitted[j].type = "runStarted" => i = j
  /\ ~started /\ pc \notin {"proxied", "done"} => \A i \in DOMAIN emitted : emitted[i].type # "runStarted"
  /\ \A i \in DOMAIN emitted : emitted[i].type \in {"runFinished", "runError"} => i = Len(emitted) /\ pc = "done"

\* One more event of a run that has not ended.
LEMMA RunGoesOn ==
  ASSUME TypeOK, RunIsOne, pc # "done", NEW x, emitted' = Append(emitted, x),
         x.type \in {"runFinished", "runError"} => pc' = "done",
         x.type = "runStarted" => (started' \/ pc' = "proxied") /\ \A i \in DOMAIN emitted : emitted[i].type # "runStarted",
         ~started' /\ pc' \notin {"proxied", "done"} => ~started /\ pc # "proxied"
  PROVE  RunIsOne'
<1> DEFINE n == Len(emitted)
<1>1. /\ Len(emitted') = n + 1 /\ DOMAIN emitted' = DOMAIN emitted \cup {n + 1} /\ n + 1 \notin DOMAIN emitted
      /\ emitted'[n + 1] = x /\ \A i \in DOMAIN emitted : emitted'[i] = emitted[i]
  BY EmitFacts
<1> HIDE DEF n
<1>2. \A i \in DOMAIN emitted : emitted[i].type \notin {"runFinished", "runError"}
  BY DEF RunIsOne
<1>3. \A i, j \in DOMAIN emitted' : emitted'[i].type = "runStarted" /\ emitted'[j].type = "runStarted" => i = j
  BY <1>1 DEF RunIsOne
<1>4. ~started' /\ pc' \notin {"proxied", "done"} => \A i \in DOMAIN emitted' : emitted'[i].type # "runStarted"
  BY <1>1 DEF RunIsOne
<1>5. \A i \in DOMAIN emitted' : emitted'[i].type \in {"runFinished", "runError"} => i = Len(emitted') /\ pc' = "done"
  BY <1>1, <1>2
<1> QED
  BY <1>3, <1>4, <1>5 DEF RunIsOne

\* One RUN_STARTED, and nothing after the end.
THEOREM RunsAreOne == Spec => []RunIsOne
<1>1. Init => RunIsOne
  BY EmptyIsSeq DEF Init, RunIsOne
<1>2. TypeOK /\ IdsOk /\ RunIsOne /\ [Next]_vars => RunIsOne'
  <2> SUFFICES ASSUME TypeOK, IdsOk, RunIsOne, [Next]_vars PROVE RunIsOne'
    OBVIOUS
  <2>1. CASE StartRun
    BY <2>1, EmptyIsSeq DEF StartRun, RunIsOne
  <2>2. CASE ResolveTools \/ Invoke \/ Decide \/ Execute \/ Continue
    <3>1. emitted' = emitted /\ started' = started /\ pc \notin {"proxied", "done"} /\ pc' # "done"
      BY <2>2 DEF ResolveTools, Invoke, Decide, Execute, Continue, runVars
    <3> QED
      BY <3>1 DEF RunIsOne
  <2>3. CASE Forward
    <3> DEFINE e == said[heard + 1]
               err == Ev("runError", NoId)
    <3>1. /\ pc = "agent" /\ pc' \in {"agent", "done"}
          /\ \/ emitted' = emitted /\ started' = started /\ pc' = "agent"
             \/ emitted' = Append(emitted, err) /\ pc' = "done" /\ started' = started
             \/ /\ emitted' = Append(emitted, e) /\ started' = (started \/ e.type = "runStarted")
                /\ e.type \notin {"runFinished", "runError"} /\ ~(e.type = "runStarted" /\ started)
      BY <2>3 DEF Forward, Emit
    <3>2. err.type = "runError"
      BY DEF Ev
    <3> HIDE DEF e, err
    <3>3. CASE emitted' = emitted /\ started' = started /\ pc' = "agent"
      BY <3>1, <3>3 DEF RunIsOne
    <3>4. CASE emitted' = Append(emitted, err) /\ pc' = "done" /\ started' = started
      BY <3>1, <3>2, <3>4, RunGoesOn
    <3>5. CASE /\ emitted' = Append(emitted, e) /\ started' = (started \/ e.type = "runStarted")
               /\ e.type \notin {"runFinished", "runError"} /\ ~(e.type = "runStarted" /\ started)
      <4>1. e.type = "runStarted" => (started' \/ pc' = "proxied") /\ \A i \in DOMAIN emitted : emitted[i].type # "runStarted"
        BY <3>1, <3>5 DEF RunIsOne
      <4> QED
        BY <3>1, <3>5, <4>1, RunGoesOn
    <3> QED
      BY <3>1, <3>3, <3>4, <3>5
  <2>4. CASE EmitResult \/ EmitSnapshot
    <3>1. \A id : Ev("result", id).type = "result" /\ Ev("snapshot", id).type = "snapshot"
      BY DEF Ev
    <3>2. /\ pc \in {"results", "snapshot"} /\ pc' # "done" /\ started' = started
          /\ \E x : x.type \in {"result", "snapshot"} /\ emitted' = Append(emitted, x)
      BY <2>4, <3>1 DEF EmitResult, EmitSnapshot, Emit
    <3>3. PICK x : x.type \in {"result", "snapshot"} /\ emitted' = Append(emitted, x)
      BY <3>2
    <3> QED
      BY <3>2, <3>3, RunGoesOn
  <2>5. CASE Flush
    <3>1. pc = "flush" /\ pc' = "done" /\ started' = started
      BY <2>5 DEF Flush, runVars
    <3>2. CASE emitted' = emitted
      BY <3>1, <3>2 DEF RunIsOne
    <3>3. CASE emitted' = Append(emitted, Ev("runFinished", NoId))
      <4>1. Ev("runFinished", NoId).type = "runFinished"
        BY DEF Ev
      <4> QED
        BY <3>1, <3>3, <4>1, RunGoesOn
    <3> QED
      BY <2>5, <3>2, <3>3 DEF Flush, Emit
  <2>6. CASE ProxyStart
    <3>1. /\ pc = "proxy" /\ pc' = "proxied" /\ started' = started /\ emitted' = Append(emitted, Ev("runStarted", NoId))
          /\ DOMAIN emitted = {}
      BY <2>6, EmptyIsSeq DEF ProxyStart, runVars, Emit, IdsOk, Listing1
    <3>2. Ev("runStarted", NoId).type = "runStarted"
      BY DEF Ev
    <3> QED
      BY <3>1, <3>2, RunGoesOn
  <2>7. CASE ProxyFinish
    <3>1. pc = "proxied" /\ pc' = "done" /\ started' = started /\ emitted' = Append(emitted, Ev("runFinished", NoId))
      BY <2>7 DEF ProxyFinish, runVars, Emit
    <3>2. Ev("runFinished", NoId).type = "runFinished"
      BY DEF Ev
    <3> QED
      BY <3>1, <3>2, RunGoesOn
  <2>8. CASE Read \/ Leave \/ UNCHANGED vars
    <3>1. emitted' = emitted /\ started' = started /\ pc' = pc
      BY <2>8 DEF Read, Leave, vars, runVars
    <3> QED
      BY <3>1 DEF RunIsOne
  <2> QED
    BY <2>1, <2>2, <2>3, <2>4, <2>5, <2>6, <2>7, <2>8 DEF Next, Middleware
<1> QED
  BY <1>1, <1>2, TypesAreOk, IdsAreOk, PTL DEF Spec

-----------------------------------------------------------------------------
(* The results of calls.                                                   *)

Given(id) == \E i \in DOMAIN emitted : emitted[i].type \in Results /\ emitted[i].id = id

\* The event that began the call a result is of; a sub-agent's result is of a sub-agent's call.
Begins(e, result) == e.type \in Beginnings /\ e.id = result.id /\ (result.type = "subResult" => e.type # "callStart")

\* A result is of a call of this run or before, emitted after it, and emitted once.
ResultIds ==
  \A i \in DOMAIN emitted : emitted[i].type \in Results =>
    /\ emitted[i].id[1] \in 0..runs /\ (emitted[i].type = "subResult" => emitted[i].id[1] = runs)
    /\ \A j \in DOMAIN emitted : emitted[j].type \in Results /\ emitted[j].id = emitted[i].id => i = j
    /\ emitted[i].id[1] = runs => \E j \in 1..(i - 1) : Begins(emitted[j], emitted[i])
\* It was said by the agent or is in the conversation.
ResultsKnown ==
  \A i \in DOMAIN emitted : emitted[i].type \in Results =>
    /\ mw = "apps" /\ pc \in {"invoke", "agent"} => emitted[i].id[1] = runs
    /\ pc = "agent" /\ emitted[i].id[1] = runs /\ emitted[i].id[2] = invocation - 1 => \E k \in 1..heard : said[k] = emitted[i]
    /\ mw = "mcp" /\ pc \in Working /\ emitted[i].type = "result" =>
         emitted[i].id \in AnsweredIn(messages) \/ (pc = "agent" /\ \E k \in 1..heard : said[k] = emitted[i])
\* The answers of the conversation are of runs before, or were given.
AnswersGiven ==
  /\ \A x \in AnsweredIn(input) : x[1] \in 0..(runs - 1)
  /\ pc \in Working => \A x \in AnsweredIn(messages) : x[1] = runs => Given(x)
\* What is to be answered has not been.
WorkOnce ==
  pc \in {"execute", "results", "snapshot"} =>
    /\ \A k, l \in DOMAIN work : work[k].id = work[l].id => k = l
    /\ \A k \in DOMAIN work : Given(work[k].id) <=> (pc = "snapshot" /\ k = 1)
ResultsOnce == ResultIds /\ ResultsKnown /\ AnswersGiven /\ WorkOnce

\* An event that is no result.
LEMMA NoResult ==
  ASSUME TypeOK, ResultIds, NEW x, emitted' = Append(emitted, x), x.type \notin Results, runs' = runs
  PROVE  /\ ResultIds' /\ \A id : Given(id)' <=> Given(id)
         /\ \A i \in DOMAIN emitted' : emitted'[i].type \in Results => i \in DOMAIN emitted /\ emitted'[i] = emitted[i]
<1>1. /\ DOMAIN emitted' = DOMAIN emitted \cup {Len(emitted) + 1}
      /\ emitted'[Len(emitted) + 1] = x /\ \A i \in DOMAIN emitted : emitted'[i] = emitted[i]
      /\ DOMAIN emitted = 1..Len(emitted) /\ Len(emitted) \in Nat
  BY EmitFacts
<1>2. \A i \in DOMAIN emitted' : emitted'[i].type \in Results => i \in DOMAIN emitted /\ emitted'[i] = emitted[i]
  BY <1>1
<1>3. \A id : Given(id)' <=> Given(id)
  BY <1>1 DEF Given
<1>4. \A i \in DOMAIN emitted : \A j \in 1..(i - 1) : j \in DOMAIN emitted
  BY <1>1
<1>5. ResultIds'
  <2> SUFFICES ASSUME NEW i \in DOMAIN emitted', emitted'[i].type \in Results
               PROVE  /\ emitted'[i].id[1] \in 0..runs /\ (emitted'[i].type = "subResult" => emitted'[i].id[1] = runs)
                      /\ \A j \in DOMAIN emitted' : emitted'[j].type \in Results /\ emitted'[j].id = emitted'[i].id => i = j
                      /\ emitted'[i].id[1] = runs => \E j \in 1..(i - 1) : Begins(emitted'[j], emitted'[i])
    BY DEF ResultIds
  <2>1. i \in DOMAIN emitted /\ emitted'[i] = emitted[i]
    BY <1>2
  <2>2. emitted[i].id[1] = runs => \E j \in 1..(i - 1) : Begins(emitted[j], emitted[i])
    BY <2>1 DEF ResultIds
  <2>3. \A j \in 1..(i - 1) : emitted'[j] = emitted[j]
    BY <1>1, <1>4, <2>1
  <2>4. emitted'[i].id[1] = runs => \E j \in 1..(i - 1) : Begins(emitted'[j], emitted'[i])
    BY <2>1, <2>2, <2>3
  <2> QED
    BY <1>2, <2>1, <2>4 DEF ResultIds
<1> QED
  BY <1>2, <1>3, <1>5

\* A result is emitted.
LEMMA OneResult ==
  ASSUME TypeOK, ResultIds, NEW x, emitted' = Append(emitted, x), x.type \in Results, runs' = runs,
         x.id[1] \in 0..runs, x.type = "subResult" => x.id[1] = runs, ~Given(x.id),
         x.id[1] = runs => \E j \in DOMAIN emitted : Begins(emitted[j], x)
  PROVE  /\ ResultIds' /\ \A id : Given(id)' <=> (Given(id) \/ id = x.id)
         /\ \A i \in DOMAIN emitted' : emitted'[i] = x \/ (i \in DOMAIN emitted /\ emitted'[i] = emitted[i])
<1> DEFINE n == Len(emitted) + 1
<1>1. /\ DOMAIN emitted' = DOMAIN emitted \cup {n} /\ n \notin DOMAIN emitted
      /\ emitted'[n] = x /\ \A i \in DOMAIN emitted : emitted'[i] = emitted[i]
      /\ DOMAIN emitted = 1..(n - 1)
      /\ \A i \in DOMAIN emitted : \A j \in 1..(i - 1) : j \in DOMAIN emitted
  <2>1. /\ DOMAIN emitted' = DOMAIN emitted \cup {n} /\ n \notin DOMAIN emitted
        /\ emitted'[n] = x /\ \A i \in DOMAIN emitted : emitted'[i] = emitted[i]
        /\ DOMAIN emitted = 1..Len(emitted) /\ Len(emitted) \in Nat
    BY EmitFacts
  <2> QED
    BY <2>1
<1> HIDE DEF n
<1>2. \A id : Given(id)' <=> (Given(id) \/ id = x.id)
  BY <1>1 DEF Given
<1>3. ResultIds'
  <2> SUFFICES ASSUME NEW i \in DOMAIN emitted', emitted'[i].type \in Results
               PROVE  /\ emitted'[i].id[1] \in 0..runs /\ (emitted'[i].type = "subResult" => emitted'[i].id[1] = runs)
                      /\ \A j \in DOMAIN emitted' : emitted'[j].type \in Results /\ emitted'[j].id = emitted'[i].id => i = j
                      /\ emitted'[i].id[1] = runs => \E j \in 1..(i - 1) : Begins(emitted'[j], emitted'[i])
    BY DEF ResultIds
  <2>1. CASE i = n
    <3>1. emitted'[i].id[1] = runs => \E j \in 1..(n - 1) : Begins(emitted[j], x)
      BY <1>1, <2>1
    <3> QED
      BY <1>1, <2>1, <3>1 DEF Given
  <2>2. CASE i # n
    <3>1. i \in DOMAIN emitted /\ emitted'[i] = emitted[i]
      BY <1>1, <2>2
    <3>2. emitted[i].id[1] = runs => \E j \in 1..(i - 1) : Begins(emitted[j], emitted[i])
      BY <3>1 DEF ResultIds
    <3>3. \A j \in 1..(i - 1) : emitted'[j] = emitted[j]
      BY <1>1, <3>1
    <3>4. emitted[i].id # x.id
      BY <2>2, <3>1 DEF Given
    <3>5. \A j \in DOMAIN emitted' : emitted'[j].type \in Results /\ emitted'[j].id = emitted'[i].id => i = j
      BY <1>1, <3>1, <3>4 DEF ResultIds
    <3>6. emitted'[i].id[1] = runs => \E j \in 1..(i - 1) : Begins(emitted'[j], emitted'[i])
      BY <3>1, <3>2, <3>3
    <3> QED
      BY <3>1, <3>5, <3>6 DEF ResultIds
  <2> QED
    BY <2>1, <2>2
<1> QED
  BY <1>1, <1>2, <1>3

\* The client sends results of runs before and of the last.
LEMMA StartRunResults ==
  ASSUME TypeOK, IdsOk, ResultsOnce, StartRun
  PROVE  ResultsOnce'
<1>1. PICK answered \in SUBSET (ClientCalls \ Ids(Results)) : input' = IF pc = "idle" THEN <<>> ELSE Conversation(answered)
  BY DEF StartRun
<1>2. runs \in Nat /\ runs' = runs + 1 /\ emitted' = <<>> /\ DOMAIN emitted' = {} /\ pc' \in {"list", "proxy"}
  BY EmptyIsSeq, McpAssumption DEF StartRun, TypeOK
<1>3. \A x \in AnsweredIn(input') : x[1] \in 0..runs
  <2>1. CASE pc = "idle"
    BY <1>1, <2>1, EmptyIsSeq DEF AnsweredIn
  <2>2. CASE pc # "idle"
    <3> DEFINE msgs == Conversation(answered)
    <3>1. \A x \in AnsweredIn(msgs) : x = NoId \/ x \in AnsweredIn(input) \/ x \in Ids(Results) \/ x \in answered
      BY ConversationOk
    <3> HIDE DEF msgs
    <3>2. input' = msgs
      BY <1>1, <2>2 DEF msgs
    <3>3. NoId[1] = 0
      BY DEF NoId
    <3>4. \A x \in AnsweredIn(input) : x[1] \in 0..runs
      BY <1>2 DEF ResultsOnce, AnswersGiven
    <3>5. \A x \in Ids(Results) : x[1] \in 0..runs
      BY DEF Ids, ResultsOnce, ResultIds
    <3>6. \A x \in answered : x[1] \in 0..runs
      <4> SUFFICES ASSUME NEW x \in answered PROVE x[1] \in 0..runs
        OBVIOUS
      <4>1. PICK i \in 1..read : x = emitted[i].id /\ emitted[i].type \in Beginnings
        BY DEF ClientCalls
      <4>2. i \in DOMAIN emitted
        BY SeqFacts DEF TypeOK
      <4> QED
        BY <1>2, <4>1, <4>2 DEF IdsOk, EmittedIds
    <3> QED
      BY <1>2, <3>1, <3>2, <3>3, <3>4, <3>5, <3>6
  <2> QED
    BY <2>1, <2>2
<1>4. AnswersGiven'
  <2>1. \A x \in AnsweredIn(input') : x[1] \in 0..(runs' - 1)
    BY <1>2, <1>3
  <2> QED
    BY <1>2, <2>1 DEF AnswersGiven, Working
<1>5. ResultIds' /\ ResultsKnown' /\ WorkOnce'
  BY <1>2 DEF ResultIds, ResultsKnown, WorkOnce
<1> QED
  BY <1>4, <1>5 DEF ResultsOnce

\* The tools are listed: nothing was emitted, and the answers are of runs before.
LEMMA ResolveToolsResults ==
  ASSUME TypeOK, IdsOk, ResultsOnce, ResolveTools
  PROVE  ResultsOnce'
<1>1. /\ pc = "list" /\ pc' = "invoke" /\ UNCHANGED <<messages, emitted, mw, input, runs>>
      /\ DOMAIN emitted = {} /\ messages = input /\ runs \in Nat /\ runs >= 1
  BY EmptyIsSeq, McpAssumption DEF ResolveTools, ioVars, IdsOk, Listing1, TypeOK
<1>2. \A x \in AnsweredIn(messages) : x[1] # runs
  BY <1>1 DEF ResultsOnce, AnswersGiven
<1>3. AnswersGiven'
  BY <1>1, <1>2 DEF ResultsOnce, AnswersGiven
<1>4. ResultIds' /\ ResultsKnown' /\ WorkOnce'
  BY <1>1 DEF ResultIds, ResultsKnown, WorkOnce
<1> QED
  BY <1>3, <1>4 DEF ResultsOnce

\* The agent begins to answer: no result has an id of this invocation.
LEMMA InvokeResults ==
  ASSUME TypeOK, IdsOk, ResultsOnce, Invoke
  PROVE  ResultsOnce'
<1>1. /\ pc = "invoke" /\ pc' = "agent" /\ heard' = 0 /\ invocation' = invocation + 1 /\ invocation \in Nat
      /\ UNCHANGED <<messages, emitted, mw, input, runs>>
  BY McpAssumption DEF Invoke, ioVars, TypeOK
<1>2. \A i \in DOMAIN emitted : emitted[i].type \in Results /\ emitted[i].id[1] = runs => emitted[i].id[2] # invocation
  <2> SUFFICES ASSUME NEW i \in DOMAIN emitted, emitted[i].type \in Results, emitted[i].id[1] = runs PROVE emitted[i].id[2] # invocation
    OBVIOUS
  <2>1. PICK j \in 1..(i - 1) : emitted[j].type \in Beginnings /\ emitted[j].id = emitted[i].id
    BY DEF ResultsOnce, ResultIds, Begins
  <2>2. j \in DOMAIN emitted
    BY SeqFacts DEF TypeOK
  <2> QED
    BY <1>1, <2>1, <2>2 DEF IdsOk, EmittedIds, Begins
<1>3. ResultsKnown'
  BY <1>1, <1>2 DEF ResultsOnce, ResultsKnown, Working
<1>4. ResultIds' /\ AnswersGiven' /\ WorkOnce'
  BY <1>1 DEF ResultsOnce, ResultIds, AnswersGiven, WorkOnce, Working, Given
<1> QED
  BY <1>3, <1>4 DEF ResultsOnce

\* An event of the agent is passed on: a result comes after its call, and was not given before.
LEMMA ForwardResults ==
  ASSUME TypeOK, IdsOk, ResultsOnce, Forward
  PROVE  ResultsOnce'
<1> DEFINE e == said[heard + 1]
           err == Ev("runError", NoId)
<1>1. /\ pc = "agent" /\ heard < Len(said) /\ heard' = heard + 1 /\ pc' \in {"agent", "done"}
      /\ UNCHANGED <<messages, mw, input, said, invocation, runs>>
      /\ \/ emitted' = emitted /\ Dropped(e) /\ pc' = "agent"
         \/ emitted' = Append(emitted, err) /\ pc' = "done"
         \/ emitted' = Append(emitted, e) /\ pc' = "agent"
  BY DEF Forward, ioVars, Emit, Dropped
<1>2. /\ heard + 1 \in DOMAIN said /\ heard \in Nat /\ 1..(heard + 1) = 1..heard \cup {heard + 1} /\ 1..heard \subseteq DOMAIN said
      /\ heard + 1 \notin 1..heard /\ invocation \in Nat /\ runs \in Nat /\ DOMAIN said = 1..Len(said)
  <2>1. DOMAIN said = 1..Len(said) /\ Len(said) \in Nat
    BY SeqFacts DEF TypeOK
  <2> QED
    BY <1>1, <2>1, McpAssumption DEF TypeOK
<1>3. WorkOnce'
  BY <1>1 DEF WorkOnce
<1>4. ASSUME \A id : Given(id) => Given(id)' PROVE AnswersGiven'
  BY <1>1, <1>4 DEF ResultsOnce, AnswersGiven, Working
<1>5. CASE emitted' = emitted /\ Dropped(e) /\ pc' = "agent"
  <2>1. ResultIds' /\ \A id : Given(id) => Given(id)'
    BY <1>1, <1>5 DEF ResultsOnce, ResultIds, Given
  <2>2. ResultsKnown'
    BY <1>1, <1>2, <1>5 DEF ResultsOnce, ResultsKnown, Working
  <2> QED
    BY <1>3, <1>4, <2>1, <2>2 DEF ResultsOnce
<1>6. CASE emitted' = Append(emitted, err) /\ pc' = "done"
  <2>1. err.type \notin Results /\ ResultIds
    BY DEF Ev, ResultsOnce, Results
  <2> HIDE DEF err
  <2>2. ResultIds' /\ \A id : Given(id)' <=> Given(id)
    BY <1>1, <1>6, <2>1, NoResult
  <2>3. ResultsKnown'
    BY <1>6 DEF ResultsKnown, Working
  <2> QED
    BY <1>3, <1>4, <2>2, <2>3 DEF ResultsOnce
<1>7. CASE emitted' = Append(emitted, e) /\ pc' = "agent" /\ e.type \notin Results
  <2>1. /\ ResultIds' /\ \A id : Given(id)' <=> Given(id)
        /\ \A i \in DOMAIN emitted' : emitted'[i].type \in Results => i \in DOMAIN emitted /\ emitted'[i] = emitted[i]
    <3> HIDE DEF e
    <3> QED
      BY <1>1, <1>7, NoResult DEF ResultsOnce
  <2>2. ResultsKnown'
    <3> SUFFICES ASSUME NEW i \in DOMAIN emitted', emitted'[i].type \in Results
                 PROVE  /\ mw = "apps" => emitted'[i].id[1] = runs
                        /\ emitted'[i].id[1] = runs /\ emitted'[i].id[2] = invocation - 1 => \E k \in 1..(heard + 1) : said[k] = emitted'[i]
                        /\ mw = "mcp" /\ emitted'[i].type = "result" => emitted'[i].id \in AnsweredIn(messages) \/ \E k \in 1..(heard + 1) : said[k] = emitted'[i]
      BY <1>1, <1>7 DEF ResultsKnown, Working
    <3>1. i \in DOMAIN emitted /\ emitted'[i] = emitted[i]
      BY <2>1
    <3> QED
      BY <1>1, <1>2, <3>1 DEF ResultsOnce, ResultsKnown, Working
  <2> QED
    BY <1>3, <1>4, <2>1, <2>2 DEF ResultsOnce
<1>8. CASE emitted' = Append(emitted, e) /\ pc' = "agent" /\ e.type \in Results
  <2>1. /\ e.id[1] = runs /\ e.id[2] = invocation - 1
        /\ \E j \in 1..(heard + 1) : Begins(said[j], e)
    <3>1. e.type \in Tied /\ Telling(said)
      BY <1>1, <1>8, KindFacts DEF IdsOk, SaidIds
    <3>2. PICK j \in 1..(heard + 1) : said[j].type \in Beginnings /\ said[j].id = e.id
      BY <1>2, <3>1 DEF Telling
    <3>3. j \in DOMAIN said
      BY <1>2
    <3>4. said[j].type = "callStart" => e.type # "subResult"
      BY <1>2, <3>1, <3>2, <3>3 DEF Telling
    <3> QED
      BY <1>1, <1>2, <3>1, <3>2, <3>4 DEF IdsOk, SaidIds, Begins
  <2>2. \E p \in DOMAIN emitted : Begins(emitted[p], e)
    <3>1. PICK j \in 1..(heard + 1) : Begins(said[j], e)
      BY <2>1
    <3>2. j \in 1..heard /\ ~Dropped(said[j])
      BY <1>2, <1>8, <3>1, KindFacts DEF Dropped, Begins
    <3>3. PICK p \in DOMAIN emitted : emitted[p] = said[j]
      BY <1>1, <3>2 DEF IdsOk, SaidIds
    <3> QED
      BY <3>1, <3>3
  <2>3. ~Given(e.id)
    <3> SUFFICES ASSUME NEW i \in DOMAIN emitted, emitted[i].type \in Results, emitted[i].id = e.id PROVE FALSE
      BY DEF Given
    <3>1. PICK k \in 1..heard : said[k] = emitted[i]
      BY <1>1, <2>1 DEF ResultsOnce, ResultsKnown
    <3>2. k = heard + 1
      BY <1>1, <1>2, <1>8, <3>1, KindFacts DEF IdsOk, SaidIds, Telling
    <3> QED
      BY <1>2, <3>2
  <2>4. e.id[1] \in 0..runs /\ (e.type = "subResult" => e.id[1] = runs) /\ (e.id[1] = runs => \E p \in DOMAIN emitted : Begins(emitted[p], e))
    BY <1>2, <2>1, <2>2
  <2>5. /\ ResultIds' /\ \A id : Given(id)' <=> (Given(id) \/ id = e.id)
        /\ \A i \in DOMAIN emitted' : emitted'[i] = e \/ (i \in DOMAIN emitted /\ emitted'[i] = emitted[i])
    <3> HIDE DEF e
    <3> QED
      BY <1>1, <1>8, <2>2, <2>3, <2>4, OneResult DEF ResultsOnce
  <2>6. ResultsKnown'
    <3> SUFFICES ASSUME NEW i \in DOMAIN emitted', emitted'[i].type \in Results
                 PROVE  /\ mw = "apps" => emitted'[i].id[1] = runs
                        /\ emitted'[i].id[1] = runs /\ emitted'[i].id[2] = invocation - 1 => \E k \in 1..(heard + 1) : said[k] = emitted'[i]
                        /\ mw = "mcp" /\ emitted'[i].type = "result" => emitted'[i].id \in AnsweredIn(messages) \/ \E k \in 1..(heard + 1) : said[k] = emitted'[i]
      BY <1>1, <1>8 DEF ResultsKnown, Working
    <3>1. CASE emitted'[i] = e
      BY <1>2, <2>1, <3>1
    <3>2. CASE i \in DOMAIN emitted /\ emitted'[i] = emitted[i]
      BY <1>1, <1>2, <3>2 DEF ResultsOnce, ResultsKnown, Working
    <3> QED
      BY <2>5, <3>1, <3>2
  <2> QED
    BY <1>3, <1>4, <2>5, <2>6 DEF ResultsOnce
<1> QED
  BY <1>1, <1>5, <1>6, <1>7, <1>8

\* The agent is done: what it left open has no result.
LEMMA DecideResults ==
  ASSUME TypeOK, IdsOk, ResultsOnce, Decide
  PROVE  ResultsOnce'
<1>1. /\ pc = "agent" /\ heard = Len(said) /\ pc' \in {"flush", "execute"} /\ (pc' = "execute" => work' # <<>>)
      /\ messages' = (IF mw = "mcp" THEN ReconstructMessages(messages, said) ELSE messages)
      /\ work' = Ours(GetOpenToolCalls(messages'))
      /\ UNCHANGED <<emitted, mw, input, tools, invocation, runs>>
  BY DEF Decide, ioVars
<1>2. DOMAIN said = 1..heard /\ runs \in Nat /\ runs >= 1
  BY <1>1, SeqFacts, McpAssumption DEF TypeOK
<1>3. MessagesOk(messages') /\ \A c : Stands(c, messages') => Own(c.id) \/ c.id[1] \in 1..(runs - 1)
  <2>1. IdsOk'
    BY DecideIds
  <2>2. \A c : Stands(c, messages') => Own(c.id)' \/ Stands(c, input')
    BY <2>1 DEF IdsOk, MessageIds
  <2>3. \A c : Stands(c, input) => c.id[1] \in 1..(runs - 1)
    BY DEF IdsOk, InputIds
  <2> QED
    BY <1>1, <2>1, <2>2, <2>3 DEF IdsOk, MessageIds, Own
<1>4. /\ \A x \in AnsweredIn(messages') : x = NoId \/ x \in AnsweredIn(messages) \/ (mw = "mcp" /\ \E j \in DOMAIN said : said[j].type = "result" /\ said[j].id = x)
      /\ AnsweredIn(messages) \subseteq AnsweredIn(messages')
      /\ mw = "mcp" => \A j \in DOMAIN said : said[j].type = "result" => said[j].id \in AnsweredIn(messages')
  <2>1. CASE mw = "mcp"
    <3>1. EventsOk(messages, said)
      BY <1>1, SaidIsOk
    <3> DEFINE msgs == ReconstructMessages(messages, said)
    <3>2. /\ \A x \in AnsweredIn(msgs) : x = NoId \/ x \in AnsweredIn(messages) \/ \E j \in DOMAIN said : said[j].type = "result" /\ said[j].id = x
          /\ AnsweredIn(messages) \subseteq AnsweredIn(msgs)
          /\ \A j \in DOMAIN said : said[j].type = "result" => said[j].id \in AnsweredIn(msgs)
      BY <3>1, Reconstructed
    <3> HIDE DEF msgs
    <3>3. messages' = msgs
      BY <1>1, <2>1 DEF msgs
    <3> QED
      BY <2>1, <3>2, <3>3
  <2>2. CASE mw # "mcp"
    BY <1>1, <2>2
  <2> QED
    BY <2>1, <2>2
<1>5. mw = "mcp" => \A i \in DOMAIN emitted : emitted[i].type = "result" => emitted[i].id \in AnsweredIn(messages')
  <2> SUFFICES ASSUME mw = "mcp", NEW i \in DOMAIN emitted, emitted[i].type = "result" PROVE emitted[i].id \in AnsweredIn(messages')
    OBVIOUS
  <2>1. emitted[i].id \in AnsweredIn(messages) \/ \E k \in 1..heard : said[k] = emitted[i]
    BY <1>1, KindFacts DEF ResultsOnce, ResultsKnown, Working
  <2> QED
    BY <1>2, <1>4, <2>1
<1>6. ResultsKnown'
  BY <1>1, <1>5 DEF ResultsKnown, Given
<1>7. AnswersGiven'
  <2>1. ASSUME NEW x \in AnsweredIn(messages'), x[1] = runs PROVE Given(x)
    <3>1. NoId[1] = 0
      BY DEF NoId
    <3>2. CASE x \in AnsweredIn(messages)
      BY <1>1, <2>1, <3>2 DEF ResultsOnce, AnswersGiven, Working
    <3>3. CASE \E j \in DOMAIN said : said[j].type = "result" /\ said[j].id = x
      <4>1. PICK j \in DOMAIN said : said[j].type = "result" /\ said[j].id = x
        BY <3>3
      <4>2. \E p \in DOMAIN emitted : emitted[p] = said[j]
        BY <1>1, <1>2, <4>1 DEF IdsOk, SaidIds, Dropped
      <4> QED
        BY <4>1, <4>2, KindFacts DEF Given
    <3> QED
      BY <1>2, <1>4, <2>1, <3>1, <3>2, <3>3
  <2> QED
    BY <1>1, <2>1 DEF ResultsOnce, AnswersGiven, Given
<1>8. WorkOnce'
  <2> DEFINE msgs == messages'
             open == GetOpenToolCalls(msgs)
             ours == Ours(open)
  <2>1. /\ IsSeq(open) /\ \A k \in DOMAIN open : Stands(open[k], msgs) /\ open[k].id \notin AnsweredIn(msgs)
        /\ \A k, l \in DOMAIN open : open[k].id = open[l].id => k = l
    BY <1>3, OpenCalls
  <2> HIDE DEF open
  <2>2. /\ \A k \in DOMAIN ours : \E x \in DOMAIN open : ours[k] = open[x]
        /\ \A k, l \in DOMAIN ours : ours[k].id = ours[l].id => k = l
    BY <2>1, OurCalls
  <2>3. work' = ours
    BY <1>1 DEF open
  <2> HIDE DEF ours
  <2>4. ASSUME NEW k \in DOMAIN ours PROVE ~Given(ours[k].id)
    <3>1. PICK x \in DOMAIN open : ours[k] = open[x]
      BY <2>2
    <3>2. CASE mw = "mcp"
      <4> SUFFICES ASSUME NEW i \in DOMAIN emitted, emitted[i].type \in Results, emitted[i].id = ours[k].id PROVE FALSE
        BY DEF Given
      <4>1. emitted[i].type = "subResult" /\ Stands(ours[k], msgs)
        BY <1>5, <2>1, <3>1, <3>2, KindFacts
      <4>2. emitted[i].id[1] = runs
        BY <4>1 DEF ResultsOnce, ResultIds
      <4>3. PICK j \in 1..(i - 1) : Begins(emitted[j], emitted[i])
        BY <4>2 DEF ResultsOnce, ResultIds
      <4>4. j \in DOMAIN emitted
        BY SeqFacts DEF TypeOK
      <4>5. Own(ours[k].id) \/ ours[k].id[1] \in 1..(runs - 1)
        BY <1>3, <4>1
      <4> QED
        BY <1>2, <4>1, <4>2, <4>3, <4>4, <4>5, KindFacts DEF Own, Begins, IdsOk, EmittedIds
    <3>3. CASE mw # "mcp"
      <4>1. mw = "apps" /\ Stands(ours[k], input)
        BY <1>1, <2>1, <3>1, <3>3 DEF TypeOK, Middlewares, IdsOk, MessageIds
      <4>2. ours[k].id[1] \in 1..(runs - 1)
        BY <4>1 DEF IdsOk, InputIds
      <4>3. \A i \in DOMAIN emitted : emitted[i].type \in Results => emitted[i].id[1] = runs
        BY <1>1, <4>1 DEF ResultsOnce, ResultsKnown
      <4> QED
        BY <1>2, <4>2, <4>3 DEF Given
    <3> QED
      BY <3>2, <3>3
  <2> QED
    BY <1>1, <2>2, <2>3, <2>4 DEF WorkOnce, Given
<1> QED
  BY <1>1, <1>6, <1>7, <1>8 DEF ResultsOnce, ResultIds

\* A result is emitted, for a call that had none.
LEMMA EmitResultResults ==
  ASSUME TypeOK, IdsOk, ResultsOnce, EmitResult
  PROVE  ResultsOnce'
<1> DEFINE x == Ev("result", work[1].id)
<1>1. /\ pc = "results" /\ work # <<>> /\ emitted' = Append(emitted, x)
      /\ messages' = (IF mw = "mcp" THEN Append(messages, Result(work[1].id)) ELSE messages)
      /\ \/ mw = "apps" /\ pc' = "snapshot" /\ work' = work
         \/ mw # "apps" /\ work' = Tail(work) /\ pc' = pc
      /\ UNCHANGED <<mw, input, tools, invocation, runs>>
  BY DEF EmitResult, ioVars, Emit
<1>2. x.type = "result" /\ x.type \in Results /\ x.id = work[1].id
  BY KindFacts DEF Ev
<1> HIDE DEF x
<1>3. /\ runs \in Nat /\ runs >= 1 /\ pc' \in {"results", "snapshot"}
      /\ IsSeq(work) /\ 1 \in DOMAIN work /\ DOMAIN work = 1..Len(work) /\ Len(work) \in Nat
  <2>1. IsSeq(work)
    BY <1>1 DEF IdsOk, WorkIds
  <2> QED
    BY <1>1, <2>1, TailIsSeq, SeqFacts, McpAssumption DEF TypeOK
<1>4. x.id[1] \in 0..runs /\ (x.id[1] = runs => \E j \in DOMAIN emitted : Begins(emitted[j], x))
  <2>1. Stands(work[1], messages)
    BY <1>1, <1>3 DEF IdsOk, WorkIds
  <2>2. work[1].id[1] \in 1..(runs - 1) \/ (work[1].id[1] = runs /\ Own(work[1].id))
    BY <2>1 DEF IdsOk, MessageIds, InputIds
  <2> QED
    BY <1>2, <1>3, <2>2, KindFacts DEF Own, Begins
<1>5. ~Given(x.id)
  BY <1>1, <1>2, <1>3 DEF ResultsOnce, WorkOnce
<1>6. /\ ResultIds' /\ \A id : Given(id)' <=> (Given(id) \/ id = x.id)
      /\ \A i \in DOMAIN emitted' : emitted'[i] = x \/ (i \in DOMAIN emitted /\ emitted'[i] = emitted[i])
  BY <1>1, <1>2, <1>4, <1>5, OneResult DEF ResultsOnce
<1>7. AnsweredIn(messages') = IF mw = "mcp" THEN AnsweredIn(messages) \cup {x.id} ELSE AnsweredIn(messages)
  <2>1. CASE mw = "mcp"
    <3> DEFINE m == Result(work[1].id)
    <3>1. m.calls = <<>> /\ DOMAIN m.calls = {} /\ IsSeq(m.calls) /\ MessagesOk(messages) /\ m.answers = x.id
      BY <1>2, MessageFields, EmptyIsSeq DEF IdsOk, MessageIds
    <3> HIDE DEF m
    <3> DEFINE more == Append(messages, m)
    <3>2. AnsweredIn(more) = AnsweredIn(messages) \cup {m.answers}
      BY <3>1, OneMoreMessage
    <3> HIDE DEF more
    <3>3. messages' = more
      BY <1>1, <2>1 DEF more, m
    <3> QED
      BY <2>1, <3>1, <3>2, <3>3
  <2>2. CASE mw # "mcp"
    BY <1>1, <2>2
  <2> QED
    BY <2>1, <2>2
<1>8. ResultsKnown'
  <2> SUFFICES ASSUME NEW i \in DOMAIN emitted', emitted'[i].type = "result", mw = "mcp"
               PROVE  emitted'[i].id \in AnsweredIn(messages')
    BY <1>1, <1>3 DEF ResultsKnown
  <2>1. CASE emitted'[i] = x
    BY <1>7, <2>1
  <2>2. CASE i \in DOMAIN emitted /\ emitted'[i] = emitted[i]
    BY <1>1, <1>7, <2>2, KindFacts DEF ResultsOnce, ResultsKnown, Working
  <2> QED
    BY <1>6, <2>1, <2>2
<1>9. AnswersGiven'
  <2>1. ASSUME NEW y \in AnsweredIn(messages'), y[1] = runs PROVE Given(y)'
    <3>1. CASE y = x.id
      BY <1>6, <3>1
    <3>2. CASE y \in AnsweredIn(messages)
      BY <1>1, <1>6, <2>1, <3>2 DEF ResultsOnce, AnswersGiven, Working
    <3> QED
      BY <1>7, <3>1, <3>2
  <2> QED
    BY <1>1, <2>1 DEF ResultsOnce, AnswersGiven
<1>10. WorkOnce'
  <2> DEFINE After(id) == \E i \in DOMAIN emitted' : emitted'[i].type \in Results /\ emitted'[i].id = id
  <2>0. \A id : After(id) <=> (Given(id) \/ id = x.id)
    BY <1>6 DEF Given
  <2>1. /\ \A k, l \in DOMAIN work : work[k].id = work[l].id => k = l
        /\ \A k \in DOMAIN work : ~Given(work[k].id)
    BY <1>1 DEF ResultsOnce, WorkOnce
  <2>2. CASE pc' = "snapshot" /\ work' = work
    <3>1. \A k \in DOMAIN work : After(work[k].id) <=> k = 1
      BY <1>2, <1>3, <2>0, <2>1
    <3> QED
      BY <2>1, <2>2, <3>1 DEF WorkOnce, Given
  <2>3. CASE pc' = "results" /\ work' = Tail(work)
    <3>1. IsSeq(work') /\ DOMAIN work' = 1..Len(work') /\ \A k \in DOMAIN work' : k + 1 \in DOMAIN work /\ work'[k] = work[k + 1]
      BY <1>1, <1>3, <2>3, TailIsSeq, SeqFacts
    <3>2. \A k, l \in DOMAIN work' : work'[k].id = work'[l].id => k = l
      BY <2>1, <3>1
    <3>3. \A k \in DOMAIN work' : work'[k].id # x.id /\ ~Given(work'[k].id)
      BY <1>2, <1>3, <2>1, <3>1
    <3>4. \A k \in DOMAIN work' : ~After(work'[k].id)
      BY <2>0, <3>3
    <3> QED
      BY <2>3, <3>2, <3>4 DEF WorkOnce, Given
  <2> QED
    BY <1>1, <2>2, <2>3
<1> QED
  BY <1>6, <1>8, <1>9, <1>10 DEF ResultsOnce

\* An event of the middleware's own is emitted.
LEMMA OwnEventResults ==
  ASSUME TypeOK, IdsOk, ResultsOnce, EmitSnapshot \/ Flush \/ ProxyStart \/ ProxyFinish
  PROVE  ResultsOnce'
<1>1. /\ UNCHANGED <<messages, mw, input, invocation, runs>>
      /\ pc' \in {"results", "done", "proxied"} /\ (pc' = "results" => pc = "snapshot")
      /\ pc = "snapshot" => work' = Tail(work)
      /\ emitted' = emitted \/ \E x : x.type \notin Results /\ emitted' = Append(emitted, x)
  <2>1. \A id : Ev("snapshot", id).type \notin Results /\ Ev("runFinished", id).type \notin Results /\ Ev("runStarted", id).type \notin Results
    BY DEF Ev, Results
  <2>2. CASE EmitSnapshot
    BY <2>1, <2>2 DEF EmitSnapshot, ioVars, Emit
  <2>3. CASE Flush
    BY <2>1, <2>3 DEF Flush, ioVars, runVars, Emit
  <2>4. CASE ProxyStart \/ ProxyFinish
    BY <2>1, <2>4 DEF ProxyStart, ProxyFinish, ioVars, runVars, Emit
  <2> QED
    BY <2>2, <2>3, <2>4
<1>2. /\ ResultIds' /\ \A id : Given(id)' <=> Given(id)
      /\ \A i \in DOMAIN emitted' : emitted'[i].type \in Results => i \in DOMAIN emitted /\ emitted'[i] = emitted[i]
  <2>1. CASE emitted' = emitted
    BY <1>1, <2>1 DEF ResultsOnce, ResultIds, Given
  <2>2. CASE \E x : x.type \notin Results /\ emitted' = Append(emitted, x)
    BY <1>1, <2>2, NoResult DEF ResultsOnce
  <2> QED
    BY <1>1, <2>1, <2>2
<1>3. ResultsKnown'
  <2> SUFFICES ASSUME NEW i \in DOMAIN emitted', emitted'[i].type = "result", mw = "mcp", pc' = "results"
               PROVE  emitted'[i].id \in AnsweredIn(messages)
    BY <1>1 DEF ResultsKnown, Working
  <2>1. i \in DOMAIN emitted /\ emitted'[i] = emitted[i] /\ pc = "snapshot"
    BY <1>1, <1>2, KindFacts
  <2> QED
    BY <2>1, KindFacts DEF ResultsOnce, ResultsKnown, Working
<1>4. AnswersGiven'
  BY <1>1, <1>2 DEF ResultsOnce, AnswersGiven, Working
<1>5. WorkOnce'
  <2> SUFFICES ASSUME pc' = "results", pc = "snapshot", work' = Tail(work) PROVE WorkOnce'
    BY <1>1 DEF WorkOnce
  <2>1. IsSeq(work) /\ work # <<>>
    BY DEF IdsOk, WorkIds
  <2>2. /\ \A k, l \in DOMAIN work : work[k].id = work[l].id => k = l
        /\ \A k \in DOMAIN work : Given(work[k].id) <=> k = 1
    BY DEF ResultsOnce, WorkOnce
  <2>3. DOMAIN work' = 1..Len(work') /\ \A k \in DOMAIN work' : k + 1 \in DOMAIN work /\ work'[k] = work[k + 1]
    BY <2>1, TailIsSeq, SeqFacts
  <2>4. \A k, l \in DOMAIN work' : work'[k].id = work'[l].id => k = l
    BY <2>2, <2>3
  <2>5. \A k \in DOMAIN work' : ~Given(work'[k].id)
    BY <2>2, <2>3
  <2>6. \A k \in DOMAIN work' : ~\E i \in DOMAIN emitted' : emitted'[i].type \in Results /\ emitted'[i].id = work'[k].id
    <3> SUFFICES ASSUME NEW k \in DOMAIN work', NEW i \in DOMAIN emitted', emitted'[i].type \in Results, emitted'[i].id = work'[k].id
                 PROVE  FALSE
      OBVIOUS
    <3>1. i \in DOMAIN emitted /\ emitted[i].type \in Results /\ emitted[i].id = work'[k].id
      BY <1>2
    <3> QED
      BY <2>5, <3>1 DEF Given
  <2> QED
    BY <2>4, <2>6 DEF WorkOnce, Given
<1> QED
  BY <1>2, <1>3, <1>4, <1>5 DEF ResultsOnce

\* The other steps emit nothing; the second middleware does not go on after results.
LEMMA OtherStepsResults ==
  ASSUME TypeOK, IdsOk, ResultsOnce, Execute \/ Continue \/ Read \/ Leave \/ UNCHANGED vars
  PROVE  ResultsOnce'
<1>1. /\ UNCHANGED <<messages, mw, input, invocation, runs, emitted, said, heard, work>>
      /\ pc' = pc \/ (pc = "execute" /\ pc' = "results") \/ (pc = "results" /\ pc' \in {"invoke", "flush"} /\ (pc' = "invoke" => mw = "mcp"))
  BY DEF Execute, Continue, Read, Leave, vars, runVars, ioVars
<1>2. ResultIds' /\ AnswersGiven' /\ WorkOnce'
  BY <1>1 DEF ResultsOnce, ResultIds, AnswersGiven, WorkOnce, Given, Working
<1>3. ResultsKnown'
  BY <1>1 DEF ResultsOnce, ResultsKnown, Working, TypeOK, Middlewares
<1> QED
  BY <1>2, <1>3 DEF ResultsOnce

\* A call has one result at most in what the client sees of a run, and it comes after the call.
THEOREM ResultsAreOnce == Spec => []ResultsOnce
<1>1. Init => ResultsOnce
  <2> SUFFICES ASSUME Init PROVE ResultsOnce
    OBVIOUS
  <2>1. DOMAIN emitted = {} /\ DOMAIN input = {} /\ pc = "idle"
    BY EmptyIsSeq DEF Init
  <2> QED
    BY <2>1 DEF ResultsOnce, ResultIds, ResultsKnown, AnswersGiven, WorkOnce, AnsweredIn, Working
<1>2. TypeOK /\ IdsOk /\ ResultsOnce /\ [Next]_vars => ResultsOnce'
  BY StartRunResults, ResolveToolsResults, InvokeResults, ForwardResults, DecideResults, EmitResultResults,
     OwnEventResults, OtherStepsResults DEF Next, Middleware
<1> QED
  BY <1>1, <1>2, TypesAreOk, IdsAreOk, PTL DEF Spec

-----------------------------------------------------------------------------
(* No call is lost.                                                        *)

\* A text within a call, or a call within a text of another role.
Opens == {"callStart", "otherTextStart"}
Breaks(e, later) == \/ e.type = "callStart" /\ later.type \in TextStarts
                    \/ e.type = "otherTextStart" /\ later.type = "callStart"

\* Within a call or a text that was begun and not ended nothing is begun that breaks it, unless
\* that is so in what was emitted.
TextsWait ==
  pc = "agent" /\ ~Interrupted => \A i \in 1..heard : said[i].type \in Opens =>
    /\ (\A k \in i..heard : ~Ends(said[k])) =>
         \E p \in DOMAIN emitted : emitted[p].type = said[i].type /\ \A q \in p..Len(emitted) : ~Ends(emitted[q])
    /\ \A j \in i..heard : Breaks(said[i], said[j]) => \E k \in i..j : Ends(said[k])

\* Interrupted says so.
LEMMA InterruptedBreaks ==
  Interrupted <=> \E i, j \in DOMAIN emitted : i < j /\ Breaks(emitted[i], emitted[j]) /\ \A k \in i..j : ~Ends(emitted[k])
<1>1. \A a, b : <<a, b>> \in {<<"callStart", "textStart">>, <<"callStart", "otherTextStart">>, <<"otherTextStart", "callStart">>}
                <=> (a = "callStart" /\ b \in TextStarts) \/ (a = "otherTextStart" /\ b = "callStart")
  BY DEF TextStarts
<1> QED
  BY <1>1 DEF Interrupted, Breaks, Ends

\* What was interrupted stays so.
LEMMA InterruptedStays ==
  ASSUME TypeOK, NEW x, emitted' = Append(emitted, x), Interrupted
  PROVE  Interrupted'
<1>1. /\ DOMAIN emitted' = DOMAIN emitted \cup {Len(emitted) + 1} /\ DOMAIN emitted = 1..Len(emitted) /\ Len(emitted) \in Nat
      /\ \A i \in DOMAIN emitted : emitted'[i] = emitted[i]
  BY EmitFacts
<1>2. PICK i \in DOMAIN emitted, j \in DOMAIN emitted :
        i < j /\ Breaks(emitted[i], emitted[j]) /\ \A k \in i..j : ~Ends(emitted[k])
  BY InterruptedBreaks
<1>3. \A k \in i..j : k \in DOMAIN emitted
  BY <1>1, <1>2
<1>4. i \in DOMAIN emitted' /\ j \in DOMAIN emitted'
  BY <1>1
<1>5. Breaks(emitted'[i], emitted'[j]) /\ \A k \in i..j : ~Ends(emitted'[k])
  BY <1>1, <1>2, <1>3
<1>6. <<emitted'[i].type, emitted'[j].type>> \in
         {<<"callStart", "textStart">>, <<"callStart", "otherTextStart">>, <<"otherTextStart", "callStart">>}
  BY <1>5 DEF Breaks, TextStarts
<1>7. \A k \in i..j : emitted'[k].type \notin {"callEnd", "textEnd"}
  BY <1>5 DEF Ends
<1> QED
  BY <1>2, <1>4, <1>6, <1>7 DEF Interrupted

\* An event of the agent is passed on.
LEMMA ForwardTexts ==
  ASSUME TypeOK, TextsWait, Forward
  PROVE  TextsWait'
<1> DEFINE e == said[heard + 1]
           n == Len(emitted) + 1
<1>1. /\ pc = "agent" /\ heard < Len(said) /\ heard' = heard + 1 /\ pc' \in {"agent", "done"} /\ said' = said
      /\ \/ emitted' = emitted /\ Dropped(e) /\ pc' = "agent"
         \/ pc' = "done"
         \/ emitted' = Append(emitted, e) /\ pc' = "agent"
  BY DEF Forward, Emit, Dropped
<1>2. heard \in Nat /\ 1..(heard + 1) = 1..heard \cup {heard + 1} /\ \A i \in 1..heard : i..(heard + 1) = i..heard \cup {heard + 1}
  BY <1>1, SeqFacts DEF TypeOK
<1>3. CASE pc' = "done"
  BY <1>3 DEF TextsWait
<1>4. CASE emitted' = emitted /\ Dropped(e) /\ pc' = "agent"
  <2>1. e.type \notin Opens /\ ~Ends(e) /\ \A i : ~Breaks(said[i], e)
    BY <1>4 DEF Dropped, Ends, Opens, Breaks, TextStarts
  <2>2. Interrupted' = Interrupted
    BY <1>4 DEF Interrupted
  <2> SUFFICES ASSUME ~Interrupted, NEW i \in 1..(heard + 1), said[i].type \in Opens
               PROVE  /\ (\A k \in i..(heard + 1) : ~Ends(said[k])) =>
                          \E p \in DOMAIN emitted : emitted[p].type = said[i].type /\ \A q \in p..Len(emitted) : ~Ends(emitted[q])
                      /\ \A j \in i..(heard + 1) : Breaks(said[i], said[j]) => \E k \in i..j : Ends(said[k])
    BY <1>1, <1>4, <2>2 DEF TextsWait
  <2>3. i \in 1..heard
    BY <1>2, <2>1
  <2>4. (\A k \in i..heard : ~Ends(said[k])) =>
           \E p \in DOMAIN emitted : emitted[p].type = said[i].type /\ \A q \in p..Len(emitted) : ~Ends(emitted[q])
    BY <1>1, <2>3 DEF TextsWait
  <2>5. \A j \in i..heard : Breaks(said[i], said[j]) => \E k \in i..j : Ends(said[k])
    BY <1>1, <2>3 DEF TextsWait
  <2> QED
    BY <1>2, <2>1, <2>3, <2>4, <2>5
<1>5. CASE emitted' = Append(emitted, e) /\ pc' = "agent"
  <2>1. /\ DOMAIN emitted' = DOMAIN emitted \cup {n} /\ Len(emitted') = n /\ emitted'[n] = e /\ n \in Nat
        /\ \A i \in DOMAIN emitted : emitted'[i] = emitted[i]
        /\ DOMAIN emitted = 1..(n - 1) /\ Len(emitted) = n - 1
    BY <1>5, EmitFacts
  <2>2. ~Interrupted' => ~Interrupted
    <3> HIDE DEF e
    <3> QED
      BY <1>5, InterruptedStays
  <2> HIDE DEF n
  <2> SUFFICES ASSUME ~Interrupted', NEW i \in 1..(heard + 1), said[i].type \in Opens
               PROVE  /\ (\A k \in i..(heard + 1) : ~Ends(said[k])) =>
                          \E p \in DOMAIN emitted' : emitted'[p].type = said[i].type /\ \A q \in p..n : ~Ends(emitted'[q])
                      /\ \A j \in i..(heard + 1) : Breaks(said[i], said[j]) => \E k \in i..j : Ends(said[k])
    BY <1>1, <1>5, <2>1 DEF TextsWait
  <2>3. ASSUME NEW p \in DOMAIN emitted, \A q \in p..Len(emitted) : ~Ends(emitted[q]), ~Ends(e)
        PROVE  \A q \in p..n : ~Ends(emitted'[q])
    <3> SUFFICES ASSUME NEW q \in p..n PROVE ~Ends(emitted'[q])
      OBVIOUS
    <3>1. q = n \/ (q \in p..Len(emitted) /\ q \in DOMAIN emitted)
      BY <2>1
    <3>2. q \in DOMAIN emitted => emitted'[q] = emitted[q]
      BY <2>1
    <3> QED
      BY <2>1, <2>3, <3>1, <3>2
  <2>4. CASE i = heard + 1
    <3>1. e.type = said[i].type /\ ~Ends(e) /\ ~Breaks(e, e)
      BY <2>4 DEF Ends, Opens, Breaks, TextStarts
    <3>2. n \in DOMAIN emitted' /\ \A q \in n..n : emitted'[q] = e
      BY <2>1
    <3>3. \A j \in i..(heard + 1) : j = heard + 1
      BY <1>2, <2>4
    <3> QED
      BY <2>1, <2>4, <3>1, <3>2, <3>3
  <2>5. CASE i \in 1..heard
    <3>1. (\A k \in i..heard : ~Ends(said[k])) =>
             \E p \in DOMAIN emitted : emitted[p].type = said[i].type /\ \A q \in p..Len(emitted) : ~Ends(emitted[q])
      BY <1>1, <2>2, <2>5 DEF TextsWait
    <3>2. \A j \in i..heard : Breaks(said[i], said[j]) => \E k \in i..j : Ends(said[k])
      BY <1>1, <2>2, <2>5 DEF TextsWait
    <3>3. (\A k \in i..(heard + 1) : ~Ends(said[k])) =>
            \E p \in DOMAIN emitted : p \in DOMAIN emitted' /\ emitted'[p].type = said[i].type /\ p < n /\ \A q \in p..n : ~Ends(emitted'[q])
      <4> SUFFICES ASSUME \A k \in i..(heard + 1) : ~Ends(said[k])
                   PROVE \E p \in DOMAIN emitted : p \in DOMAIN emitted' /\ emitted'[p].type = said[i].type /\ p < n /\ \A q \in p..n : ~Ends(emitted'[q])
        OBVIOUS
      <4>1. ~Ends(e) /\ \A k \in i..heard : ~Ends(said[k])
        BY <1>2, <2>5
      <4>2. PICK p \in DOMAIN emitted : emitted[p].type = said[i].type /\ \A q \in p..Len(emitted) : ~Ends(emitted[q])
        BY <3>1, <4>1
      <4>3. p \in DOMAIN emitted' /\ emitted'[p].type = said[i].type /\ p < n
        BY <2>1, <4>2
      <4> QED
        BY <2>3, <4>1, <4>2, <4>3
    <3>4. ASSUME Breaks(said[i], e) PROVE \E k \in i..(heard + 1) : Ends(said[k])
      <4> SUFFICES ASSUME \A k \in i..(heard + 1) : ~Ends(said[k]) PROVE FALSE
        OBVIOUS
      <4>1. PICK p \in DOMAIN emitted : p \in DOMAIN emitted' /\ emitted'[p].type = said[i].type /\ p < n /\ \A q \in p..n : ~Ends(emitted'[q])
        BY <3>3
      <4>2. n \in DOMAIN emitted' /\ Breaks(emitted'[p], emitted'[n])
        BY <2>1, <3>4, <4>1 DEF Breaks
      <4>3. <<emitted'[p].type, emitted'[n].type>> \in
              {<<"callStart", "textStart">>, <<"callStart", "otherTextStart">>, <<"otherTextStart", "callStart">>}
        BY <4>2 DEF Breaks, TextStarts
      <4> QED
        BY <4>1, <4>2, <4>3 DEF Interrupted, Ends
    <3>5. \A j \in i..(heard + 1) : Breaks(said[i], said[j]) => \E k \in i..j : Ends(said[k])
      BY <1>2, <2>5, <3>2, <3>4
    <3> QED
      BY <3>3, <3>5
  <2> QED
    BY <1>2, <2>4, <2>5
<1> QED
  BY <1>1, <1>3, <1>4, <1>5

\* No text begins within a call the agent has not ended, nor a call within a text of another role,
\* if none does in what is emitted.
THEOREM TextsAlwaysWait == Spec => []TextsWait
<1>1. Init => TextsWait
  BY DEF Init, TextsWait
<1>2. TypeOK /\ TextsWait /\ [Next]_vars => TextsWait'
  <2> SUFFICES ASSUME TypeOK, TextsWait, [Next]_vars PROVE TextsWait'
    OBVIOUS
  <2>1. CASE StartRun \/ ResolveTools \/ Decide \/ Execute \/ EmitResult \/ EmitSnapshot \/ Continue \/ Flush \/ ProxyStart \/ ProxyFinish
    <3>1. pc' # "agent"
      BY <2>1 DEF StartRun, ResolveTools, Decide, Execute, EmitResult, EmitSnapshot, Continue, Flush, ProxyStart, ProxyFinish
    <3> QED
      BY <3>1 DEF TextsWait
  <2>2. CASE Invoke
    BY <2>2 DEF Invoke, TextsWait
  <2>3. CASE Read \/ Leave \/ UNCHANGED vars
    <3>1. UNCHANGED <<pc, heard, said, emitted>>
      BY <2>3 DEF Read, Leave, vars, runVars
    <3> QED
      BY <3>1 DEF TextsWait, Interrupted
  <2> QED
    BY <2>1, <2>2, <2>3, ForwardTexts DEF Next, Middleware
<1> QED
  BY <1>1, <1>2, TypesAreOk, PTL DEF Spec

\* A call the agent itself began stands in the conversation, or the agent is still heard.
NothingLost ==
  mw = "mcp" /\ ~Interrupted /\ pc \in Working => \A p \in DOMAIN emitted : emitted[p].type = "callStart" =>
    \/ \E c : Stands(c, messages) /\ Starts(emitted[p], c)
    \/ pc = "agent" /\ \E i \in 1..heard : said[i] = emitted[p]

\* What the agent said becomes part of the conversation.
LEMMA DecideLosesNothing ==
  ASSUME TypeOK, IdsOk, TextsWait, NothingLost, Decide
  PROVE  NothingLost'
<1>1. /\ pc = "agent" /\ heard = Len(said) /\ pc' \in {"flush", "execute"} /\ mw' = mw /\ emitted' = emitted
      /\ mw = "mcp" => messages' = ReconstructMessages(messages, said)
  BY DEF Decide, ioVars
<1>2. Interrupted' = Interrupted
  BY <1>1 DEF Interrupted
<1> SUFFICES ASSUME mw = "mcp", ~Interrupted, NEW p \in DOMAIN emitted, emitted[p].type = "callStart"
             PROVE  \E c : Stands(c, messages') /\ Starts(emitted[p], c)
  BY <1>1, <1>2 DEF NothingLost
<1>3. DOMAIN said = 1..heard
  BY <1>1, SeqFacts DEF TypeOK
<1>4. Uninterrupted(said)
  <2> SUFFICES ASSUME NEW i \in DOMAIN said, NEW j \in DOMAIN said, i < j, Breaks(said[i], said[j])
               PROVE  \E k \in i..j : Ends(said[k])
    BY DEF Uninterrupted, Breaks
  <2>1. j \in i..heard /\ said[i].type \in Opens
    BY <1>3 DEF Breaks, Opens
  <2> QED
    BY <1>1, <1>3, <2>1 DEF TextsWait
<1> DEFINE msgs == ReconstructMessages(messages, said)
<1>5. /\ \A c : Stands(c, messages) => Stands(c, msgs)
      /\ \A j \in DOMAIN said : said[j].type = "callStart" => \E c : Stands(c, msgs) /\ Starts(said[j], c)
  <2>1. EventsOk(messages, said)
    BY <1>1, SaidIsOk
  <2> QED
    BY <1>4, <2>1, Reconstructed
<1> HIDE DEF msgs
<1>6. messages' = msgs
  BY <1>1 DEF msgs
<1>7. (\E c : Stands(c, messages) /\ Starts(emitted[p], c)) \/ \E i \in 1..heard : said[i] = emitted[p]
  BY <1>1 DEF NothingLost, Working
<1> QED
  BY <1>3, <1>5, <1>6, <1>7

\* An event of the agent is passed on.
LEMMA ForwardLosesNothing ==
  ASSUME TypeOK, NothingLost, Forward
  PROVE  NothingLost'
<1> DEFINE e == said[heard + 1]
<1>1. /\ pc = "agent" /\ heard' = heard + 1 /\ pc' \in {"agent", "done"} /\ said' = said /\ mw' = mw /\ messages' = messages
      /\ emitted' = emitted \/ pc' = "done" \/ emitted' = Append(emitted, e)
  BY DEF Forward, Emit
<1>2. heard \in Nat /\ 1..(heard + 1) = 1..heard \cup {heard + 1}
  BY SeqFacts DEF TypeOK
<1>3. CASE pc' = "done"
  BY <1>3 DEF NothingLost, Working
<1>4. CASE pc' = "agent" /\ emitted' = emitted
  <2>1. Interrupted' = Interrupted
    BY <1>4 DEF Interrupted
  <2> QED
    BY <1>1, <1>2, <1>4, <2>1 DEF NothingLost, Working
<1>5. CASE pc' = "agent" /\ emitted' = Append(emitted, e)
  <2>1. \A p \in DOMAIN emitted' : emitted'[p] = e \/ (p \in DOMAIN emitted /\ emitted'[p] = emitted[p])
    BY <1>5, EmitFacts
  <2>2. ~Interrupted' => ~Interrupted
    <3> HIDE DEF e
    <3> QED
      BY <1>5, InterruptedStays
  <2> SUFFICES ASSUME mw = "mcp", ~Interrupted, NEW p \in DOMAIN emitted', emitted'[p].type = "callStart"
               PROVE  (\E c : Stands(c, messages) /\ Starts(emitted'[p], c)) \/ \E i \in 1..(heard + 1) : said[i] = emitted'[p]
    BY <1>1, <1>5, <2>2 DEF NothingLost
  <2>3. CASE emitted'[p] = e
    BY <1>2, <2>3
  <2>4. CASE p \in DOMAIN emitted /\ emitted'[p] = emitted[p]
    BY <1>1, <1>2, <2>4 DEF NothingLost, Working
  <2> QED
    BY <2>1, <2>3, <2>4
<1> QED
  BY <1>1, <1>3, <1>4, <1>5

\* A result is emitted and joins the conversation.
LEMMA EmitResultLosesNothing ==
  ASSUME TypeOK, IdsOk, NothingLost, EmitResult
  PROVE  NothingLost'
<1> DEFINE x == Ev("result", work[1].id)
<1>1. /\ pc = "results" /\ pc' \in {"results", "snapshot"} /\ mw' = mw /\ emitted' = Append(emitted, x)
      /\ mw = "mcp" => messages' = Append(messages, Result(work[1].id))
  BY DEF EmitResult, Emit
<1>2. x.type = "result"
  BY DEF Ev
<1> HIDE DEF x
<1>3. \A p \in DOMAIN emitted' : emitted'[p].type = "callStart" => p \in DOMAIN emitted /\ emitted'[p] = emitted[p]
  BY <1>1, <1>2, EmitFacts
<1>4. ~Interrupted' => ~Interrupted
  BY <1>1, InterruptedStays
<1> SUFFICES ASSUME mw = "mcp", ~Interrupted, NEW p \in DOMAIN emitted', emitted'[p].type = "callStart"
             PROVE  \E c : Stands(c, messages') /\ Starts(emitted'[p], c)
  BY <1>1, <1>4 DEF NothingLost
<1>5. PICK c : Stands(c, messages) /\ Starts(emitted[p], c)
  BY <1>1, <1>3 DEF NothingLost, Working
<1>6. Stands(c, messages')
  <2> DEFINE m == Result(work[1].id)
  <2>1. m.calls = <<>> /\ DOMAIN m.calls = {} /\ IsSeq(m.calls) /\ MessagesOk(messages)
    BY MessageFields, EmptyIsSeq DEF IdsOk, MessageIds
  <2> HIDE DEF m
  <2> DEFINE more == Append(messages, m)
  <2>2. Stands(c, messages) => Stands(c, more)
    BY <2>1, OneMoreMessage
  <2> HIDE DEF more
  <2>3. messages' = more
    BY <1>1 DEF more, m
  <2> QED
    BY <1>5, <2>2, <2>3
<1> QED
  BY <1>3, <1>5, <1>6

\* As long as no text begins within a call and no call within a text of another role, the first
\* middleware loses no call the agent itself began with a TOOL_CALL_START.
THEOREM NothingIsLost == Spec => []NothingLost
<1>1. Init => NothingLost
  BY DEF Init, NothingLost, Working
<1>2. TypeOK /\ IdsOk /\ TextsWait /\ NothingLost /\ [Next]_vars => NothingLost'
  <2> SUFFICES ASSUME TypeOK, IdsOk, TextsWait, NothingLost, [Next]_vars PROVE NothingLost'
    OBVIOUS
  <2>1. CASE StartRun \/ Flush \/ ProxyStart \/ ProxyFinish
    <3>1. pc' \notin Working
      BY <2>1 DEF StartRun, Flush, ProxyStart, ProxyFinish, Working
    <3> QED
      BY <3>1 DEF NothingLost
  <2>2. CASE ResolveTools
    <3>1. emitted' = emitted /\ DOMAIN emitted = {}
      BY <2>2, EmptyIsSeq DEF ResolveTools, IdsOk, Listing1
    <3> QED
      BY <3>1 DEF NothingLost
  <2>3. CASE Invoke \/ Execute \/ Continue
    <3>1. UNCHANGED <<mw, messages, emitted>> /\ pc \in Working /\ pc # "agent"
      BY <2>3 DEF Invoke, Execute, Continue, runVars, Working
    <3>2. Interrupted' = Interrupted
      BY <3>1 DEF Interrupted
    <3> QED
      BY <3>1, <3>2 DEF NothingLost
  <2>4. CASE EmitSnapshot
    <3>1. mw' = mw /\ mw = "apps"
      BY <2>4 DEF EmitSnapshot, TypeOK
    <3> QED
      BY <3>1 DEF NothingLost
  <2>5. CASE Read \/ Leave \/ UNCHANGED vars
    <3>1. UNCHANGED <<mw, messages, emitted, pc, heard, said>>
      BY <2>5 DEF Read, Leave, vars, runVars
    <3>2. Interrupted' = Interrupted
      BY <3>1 DEF Interrupted
    <3> QED
      BY <3>1, <3>2 DEF NothingLost
  <2> QED
    BY <2>1, <2>2, <2>3, <2>4, <2>5, DecideLosesNothing, ForwardLosesNothing, EmitResultLosesNothing DEF Next, Middleware
<1> QED
  BY <1>1, <1>2, TypesAreOk, IdsAreOk, TextsAlwaysWait, PTL DEF Spec

-----------------------------------------------------------------------------
(* No call is left without its result.                                     *)

\* The calls of the middleware's own tools that are open are those being answered; when the rounds
\* are not used up none is left, and another round begins only when no call at all is open.
OpenIsWork ==
  mw = "mcp" /\ pc \in {"execute", "results"} => \A c : Stands(c, messages) /\ c.name \in DOMAIN tools /\ c.id \notin AnsweredIn(messages)
    => \E k \in DOMAIN work : work[k].id = c.id
NoneOpen ==
  /\ mw = "mcp" /\ pc = "flush" /\ iteration <= MaxIterations =>
       \A c : Stands(c, messages) /\ c.name \in DOMAIN tools => c.id \in AnsweredIn(messages)
  /\ pc = "invoke" /\ invocation > 0 => \A c : Stands(c, messages) => c.id \in AnsweredIn(messages)
  /\ mw = "apps" /\ pc \in {"list", "invoke"} => invocation = 0
OpenOk == OpenIsWork /\ NoneOpen

\* The calls left open are to be answered, unless the rounds are used up.
LEMMA DecideOpen ==
  ASSUME TypeOK, IdsOk, Decide
  PROVE  OpenOk'
<1>1. /\ pc = "agent" /\ pc' = (IF work' = <<>> \/ (mw = "mcp" /\ ~(iteration' <= MaxIterations)) THEN "flush" ELSE "execute")
      /\ work' = Ours(GetOpenToolCalls(messages')) /\ mw' = mw /\ tools' = tools
  BY DEF Decide, MayGoOn
<1>2. MessagesOk(messages')
  BY DecideIds DEF IdsOk, MessageIds
<1> DEFINE msgs == messages'
           open == GetOpenToolCalls(msgs)
           ours == Ours(open)
<1>3. IsSeq(open) /\ \A c : Stands(c, msgs) /\ c.id \notin AnsweredIn(msgs) => \E k \in DOMAIN open : open[k] = c
  BY <1>2, OpenCalls
<1> HIDE DEF open
<1>4. \A x \in DOMAIN open : open[x].name \in DOMAIN tools => \E k \in DOMAIN ours : ours[k] = open[x]
  BY <1>3, OurCalls
<1>5. work' = ours
  BY <1>1 DEF open
<1> HIDE DEF ours
<1>6. \A c : Stands(c, messages') /\ c.name \in DOMAIN tools /\ c.id \notin AnsweredIn(messages') => \E k \in DOMAIN work' : work'[k].id = c.id
  <2> SUFFICES ASSUME NEW c, Stands(c, messages'), c.name \in DOMAIN tools, c.id \notin AnsweredIn(messages')
               PROVE  \E k \in DOMAIN work' : work'[k].id = c.id
    OBVIOUS
  <2>1. PICK x \in DOMAIN open : open[x] = c
    BY <1>3
  <2> QED
    BY <1>4, <1>5, <2>1
<1>7. OpenIsWork'
  BY <1>1, <1>6 DEF OpenIsWork
<1>8. ASSUME mw = "mcp", pc' = "flush", iteration' <= MaxIterations PROVE DOMAIN work' = {}
  BY <1>1, <1>8, EmptyIsSeq
<1>9. NoneOpen'
  BY <1>1, <1>6, <1>8 DEF NoneOpen
<1> QED
  BY <1>7, <1>9 DEF OpenOk

\* One of them has its result.
LEMMA EmitResultOpen ==
  ASSUME TypeOK, IdsOk, OpenOk, EmitResult
  PROVE  OpenOk'
<1>1. /\ pc = "results" /\ work # <<>> /\ mw' = mw /\ tools' = tools /\ pc' \in {"results", "snapshot"}
      /\ mw = "mcp" => pc' = "results" /\ messages' = Append(messages, Result(work[1].id)) /\ work' = Tail(work)
  BY DEF EmitResult
<1>2. NoneOpen'
  BY <1>1 DEF NoneOpen
<1>3. ASSUME mw = "mcp", NEW c, Stands(c, messages'), c.name \in DOMAIN tools, c.id \notin AnsweredIn(messages')
      PROVE  \E k \in DOMAIN work' : work'[k].id = c.id
  <2>1. Stands(c, messages) /\ c.id \notin AnsweredIn(messages) /\ c.id # work[1].id
    <3> DEFINE m == Result(work[1].id)
    <3>1. m.calls = <<>> /\ DOMAIN m.calls = {} /\ IsSeq(m.calls) /\ MessagesOk(messages) /\ m.answers = work[1].id
      BY MessageFields, EmptyIsSeq DEF IdsOk, MessageIds
    <3> HIDE DEF m
    <3> DEFINE more == Append(messages, m)
    <3>2. /\ Stands(c, more) => Stands(c, messages)
          /\ AnsweredIn(more) = AnsweredIn(messages) \cup {m.answers}
      BY <3>1, OneMoreMessage
    <3> HIDE DEF more
    <3>3. messages' = more
      BY <1>1, <1>3 DEF more, m
    <3> QED
      BY <1>3, <3>1, <3>2, <3>3
  <2>2. PICK k \in DOMAIN work : work[k].id = c.id
    BY <1>1, <1>3, <2>1 DEF OpenOk, OpenIsWork
  <2>3. IsSeq(work)
    BY <1>1 DEF IdsOk, WorkIds
  <2>4. k # 1
    BY <2>1, <2>2
  <2>5. k - 1 \in DOMAIN work' /\ work'[k - 1] = work[k]
    BY <1>1, <1>3, <2>3, <2>4, TailIsSeq
  <2> QED
    BY <2>2, <2>5
<1>4. OpenIsWork'
  BY <1>1, <1>3 DEF OpenIsWork
<1> QED
  BY <1>2, <1>4 DEF OpenOk

\* Another round, or the end of the run.
LEMMA ContinueOpen ==
  ASSUME TypeOK, IdsOk, OpenOk, Continue
  PROVE  OpenOk'
<1>1. /\ pc = "results" /\ work = <<>> /\ pc' = (IF mw = "mcp" /\ OpenOnlyOurs(messages) THEN "invoke" ELSE "flush")
      /\ UNCHANGED <<messages, mw, tools, work, iteration, invocation>>
  BY DEF Continue, runVars
<1>2. mw = "mcp" => \A c : Stands(c, messages) /\ c.name \in DOMAIN tools => c.id \in AnsweredIn(messages)
  BY <1>1, EmptyIsSeq DEF OpenOk, OpenIsWork
<1>3. ASSUME mw = "mcp", OpenOnlyOurs(messages), NEW c, Stands(c, messages) PROVE c.id \in AnsweredIn(messages)
  <2> SUFFICES ASSUME c.id \notin AnsweredIn(messages) PROVE FALSE
    OBVIOUS
  <2> DEFINE open == GetOpenToolCalls(messages)
  <2>1. \E k \in DOMAIN open : open[k] = c
    BY <1>3, OpenCalls DEF IdsOk, MessageIds
  <2>2. \A k \in DOMAIN open : open[k].name \in DOMAIN tools
    BY <1>3 DEF OpenOnlyOurs, ToSet
  <2> QED
    BY <1>2, <1>3, <2>1, <2>2
<1>4. NoneOpen'
  BY <1>1, <1>2, <1>3 DEF NoneOpen, OpenOk, TypeOK, Middlewares
<1>5. OpenIsWork'
  BY <1>1 DEF OpenIsWork
<1> QED
  BY <1>4, <1>5 DEF OpenOk

\* The middleware leaves no call of its own tools open, and goes on only when none is open at all.
THEOREM OpenIsOk == Spec => []OpenOk
<1>1. Init => OpenOk
  BY DEF Init, OpenOk, OpenIsWork, NoneOpen
<1>2. TypeOK /\ IdsOk /\ OpenOk /\ [Next]_vars => OpenOk'
  <2> SUFFICES ASSUME TypeOK, IdsOk, OpenOk, [Next]_vars PROVE OpenOk'
    OBVIOUS
  <2>1. CASE StartRun
    <3>1. invocation' = 0 /\ pc' \in {"list", "proxy"}
      BY <2>1 DEF StartRun
    <3> QED
      BY <3>1 DEF OpenOk, OpenIsWork, NoneOpen
  <2>2. CASE ResolveTools
    <3>1. pc = "list" /\ pc' = "invoke" /\ invocation' = invocation /\ invocation = 0
      BY <2>2 DEF ResolveTools, IdsOk, Listing1
    <3> QED
      BY <3>1 DEF OpenOk, OpenIsWork, NoneOpen
  <2>3. CASE Invoke \/ Forward \/ ProxyStart \/ ProxyFinish \/ Flush
    <3>1. pc' \notin {"execute", "results", "flush", "invoke", "list"}
      BY <2>3 DEF Invoke, Forward, ProxyStart, ProxyFinish, Flush
    <3> QED
      BY <3>1 DEF OpenOk, OpenIsWork, NoneOpen
  <2>4. CASE Execute \/ Read \/ Leave \/ UNCHANGED vars
    <3>1. /\ UNCHANGED <<messages, mw, tools, work, iteration, invocation>>
          /\ pc' = pc \/ (pc = "execute" /\ pc' = "results")
      BY <2>4 DEF Execute, Read, Leave, vars, runVars
    <3> QED
      BY <3>1 DEF OpenOk, OpenIsWork, NoneOpen
  <2>5. CASE EmitSnapshot
    <3>1. mw' = mw /\ mw = "apps" /\ pc' = "results"
      BY <2>5 DEF EmitSnapshot, TypeOK
    <3> QED
      BY <3>1 DEF OpenOk, OpenIsWork, NoneOpen
  <2> QED
    BY <2>1, <2>2, <2>3, <2>4, <2>5, DecideOpen, EmitResultOpen, ContinueOpen DEF Next, Middleware
<1> QED
  BY <1>1, <1>2, TypesAreOk, IdsAreOk, PTL DEF Spec

\* When the first middleware ends a run before its rounds are used up, every call of a tool of its
\* own that the agent itself began has its result.
AllAnswered ==
  (pc = "done" /\ mw = "mcp" /\ (\E i \in DOMAIN emitted : emitted[i].type = "runFinished") /\ iteration <= MaxIterations /\ ~Interrupted) =>
    \A i \in DOMAIN emitted : emitted[i].type = "callStart" /\ emitted[i].name \in DOMAIN tools => Given(emitted[i].id)

\* The end of a run.
LEMMA FlushAnswers ==
  ASSUME TypeOK, IdsOk, ResultsOnce, RunIsOne, NothingLost, OpenOk, Flush
  PROVE  AllAnswered'
<1>1. pc = "flush" /\ UNCHANGED <<mw, tools, messages, iteration, runs>> /\ (emitted' = emitted \/ emitted' = Append(emitted, Ev("runFinished", NoId)))
  BY DEF Flush, runVars, ioVars, Emit
<1>2. CASE emitted' = emitted
  BY <1>1, <1>2 DEF RunIsOne, AllAnswered
<1>3. CASE emitted' = Append(emitted, Ev("runFinished", NoId))
  <2> DEFINE x == Ev("runFinished", NoId)
  <2>1. x.type = "runFinished"
    BY DEF Ev
  <2> HIDE DEF x
  <2>2. emitted' = Append(emitted, x)
    BY <1>3 DEF x
  <2>3. /\ \A i \in DOMAIN emitted' : emitted'[i] = x \/ (i \in DOMAIN emitted /\ emitted'[i] = emitted[i])
        /\ DOMAIN emitted \subseteq DOMAIN emitted' /\ \A i \in DOMAIN emitted : emitted'[i] = emitted[i]
    BY <2>2, EmitFacts
  <2>4. ~Interrupted' => ~Interrupted
    BY <2>2, InterruptedStays
  <2> SUFFICES ASSUME mw = "mcp", iteration <= MaxIterations, ~Interrupted, NEW i \in DOMAIN emitted',
                      emitted'[i].type = "callStart", emitted'[i].name \in DOMAIN tools
               PROVE  \E j \in DOMAIN emitted' : emitted'[j].type \in Results /\ emitted'[j].id = emitted'[i].id
    BY <1>1, <2>4 DEF AllAnswered, Given
  <2>5. i \in DOMAIN emitted /\ emitted'[i] = emitted[i]
    BY <2>1, <2>3
  <2>6. PICK c : Stands(c, messages) /\ Starts(emitted[i], c)
    BY <1>1, <2>5 DEF NothingLost, Working
  <2>7. c.id = emitted[i].id /\ c.name = emitted[i].name
    BY <2>6 DEF Starts
  <2>8. c.id \in AnsweredIn(messages)
    BY <1>1, <2>5, <2>6, <2>7 DEF OpenOk, NoneOpen
  <2>9. c.id[1] = runs
    BY <2>5, <2>7, KindFacts DEF IdsOk, EmittedIds
  <2>10. Given(c.id)
    BY <1>1, <2>8, <2>9 DEF ResultsOnce, AnswersGiven, Working
  <2> QED
    BY <2>3, <2>5, <2>7, <2>10 DEF Given
<1> QED
  BY <1>1, <1>2, <1>3

\* No call the agent itself began of a tool of the first middleware is left without its result, as
\* long as none is interrupted.
THEOREM AllAreAnswered == Spec => []AllAnswered
<1>1. Init => AllAnswered
  BY DEF Init, AllAnswered
<1>2. /\ TypeOK /\ IdsOk /\ ResultsOnce /\ RunIsOne /\ NothingLost /\ OpenOk /\ AllAnswered /\ [Next]_vars
      => AllAnswered'
  <2> SUFFICES ASSUME TypeOK, IdsOk, ResultsOnce, RunIsOne, NothingLost, OpenOk, AllAnswered, [Next]_vars PROVE AllAnswered'
    OBVIOUS
  <2>1. CASE StartRun \/ ResolveTools \/ Invoke \/ Decide \/ Execute \/ EmitResult \/ EmitSnapshot \/ Continue \/ ProxyStart
    <3>1. pc' # "done"
      BY <2>1 DEF StartRun, ResolveTools, Invoke, Decide, Execute, EmitResult, EmitSnapshot, Continue, ProxyStart
    <3> QED
      BY <3>1 DEF AllAnswered
  <2>2. CASE Forward
    <3> DEFINE err == Ev("runError", NoId)
    <3>1. pc = "agent" /\ (pc' = "agent" \/ emitted' = Append(emitted, err))
      BY <2>2 DEF Forward, Emit
    <3>2. err.type = "runError"
      BY DEF Ev
    <3> HIDE DEF err
    <3>3. CASE pc' = "agent"
      BY <3>3 DEF AllAnswered
    <3>4. CASE emitted' = Append(emitted, err)
      <4>1. \A i \in DOMAIN emitted' : emitted'[i] = err \/ (i \in DOMAIN emitted /\ emitted'[i] = emitted[i])
        BY <3>4, EmitFacts
      <4>2. \A i \in DOMAIN emitted' : emitted'[i].type # "runFinished"
        BY <3>1, <3>2, <4>1 DEF RunIsOne
      <4> QED
        BY <4>2 DEF AllAnswered
    <3> QED
      BY <3>1, <3>3, <3>4
  <2>3. CASE ProxyFinish
    <3>1. mw' = mw /\ mw = "apps"
      BY <2>3 DEF ProxyFinish, runVars, TypeOK
    <3> QED
      BY <3>1 DEF AllAnswered
  <2>4. CASE Read \/ Leave \/ UNCHANGED vars
    <3>1. UNCHANGED <<mw, tools, emitted, pc, iteration>>
      BY <2>4 DEF Read, Leave, vars, runVars
    <3> QED
      BY <3>1 DEF AllAnswered, Interrupted, Given
  <2> QED
    BY <2>1, <2>2, <2>3, <2>4, FlushAnswers DEF Next, Middleware
<1> QED
  BY <1>1, <1>2, TypesAreOk, IdsAreOk, ResultsAreOnce, RunsAreOne, NothingIsLost, OpenIsOk, PTL DEF Spec

\* A set of which no two elements differ has one element or none.
LEMMA AtMostOne ==
  ASSUME NEW S, \A x, y \in S : x = y
  PROVE  /\ S = {} => Cardinality(S) = 0
         /\ S # {} => Cardinality(S) = 1
<1>1. CASE S = {}
  BY <1>1, FS_EmptySet
<1>2. CASE S # {}
  <2>1. PICK x \in S : TRUE
    BY <1>2
  <2>2. S = {x}
    BY <2>1
  <2> QED
    BY <1>2, <2>2, FS_Singleton
<1> QED
  BY <1>1, <1>2

\* What the client sees of a run is one run, with one result at most for a call that was begun before
\* it, and one for every call of a tool of the first middleware that the agent itself began, unless the
\* rounds are used up, a text begins within a call or a call within a text of another role; and the
\* agent is run again only when no such call is open.
THEOREM CallsAnsweredOnceHolds == Spec => []CallsAnsweredOnce
<1>1. TypeOK /\ IdsOk /\ ResultsOnce /\ RunIsOne /\ OpenOk /\ AllAnswered => CallsAnsweredOnce
  <2> SUFFICES ASSUME TypeOK, IdsOk, ResultsOnce, RunIsOne, OpenOk, AllAnswered PROVE CallsAnsweredOnce
    OBVIOUS
  <2> DEFINE At(types, id) == {i \in DOMAIN emitted : emitted[i].type \in types /\ emitted[i].id = id}
  <2>1. Count({"runStarted"}, NoId) <= 1
    <3>1. \A i, j \in At({"runStarted"}, NoId) : i = j
      BY DEF RunIsOne
    <3> QED
      BY <3>1, AtMostOne DEF Count
  <2>2. Count({"runFinished", "runError"}, NoId) <= 1
    <3>1. \A i, j \in At({"runFinished", "runError"}, NoId) : i = j
      BY DEF RunIsOne
    <3> QED
      BY <3>1, AtMostOne DEF Count
  <2>3. \A i \in DOMAIN emitted : emitted[i].type \in {"runFinished", "runError"} => i = Len(emitted)
    BY DEF RunIsOne
  <2>4. \A id : id \in Ids(Results) <=> Given(id)
    BY DEF Ids, Given
  <2>5. ASSUME NEW id, Given(id)
        PROVE  Count(Results, id) = 1 /\ (id[1] = runs => Position(Beginnings, id) < Position(Results, id))
    <3>1. PICK i \in DOMAIN emitted : emitted[i].type \in Results /\ emitted[i].id = id
      BY <2>5 DEF Given
    <3>2. \A j \in DOMAIN emitted : emitted[j].type \in Results /\ emitted[j].id = id => j = i
      BY <3>1 DEF ResultsOnce, ResultIds
    <3>3. Count(Results, id) = 1
      <4>1. \A j, k \in At(Results, id) : j = k
        BY <3>2
      <4>2. At(Results, id) # {}
        BY <3>1
      <4>3. Count(Results, id) = Cardinality(At(Results, id))
        BY DEF Count
      <4> HIDE DEF At
      <4> QED
        BY <4>1, <4>2, <4>3, AtMostOne
    <3>4. Position(Results, id) = i
      BY <3>1, <3>2 DEF Position
    <3>5. ASSUME id[1] = runs PROVE Position(Beginnings, id) < i
      <4>1. PICK j \in 1..(i - 1) : emitted[j].type \in Beginnings /\ emitted[j].id = id
        BY <3>1, <3>5 DEF ResultsOnce, ResultIds, Begins
      <4>2. j \in DOMAIN emitted /\ j < i
        BY <3>1, SeqFacts DEF TypeOK
      <4>3. \A k \in DOMAIN emitted : emitted[k].type \in Beginnings /\ emitted[k].id = id => k = j
        BY <4>1, <4>2 DEF IdsOk, EmittedIds
      <4>4. Position(Beginnings, id) = j
        BY <4>1, <4>2, <4>3 DEF Position
      <4> QED
        BY <4>2, <4>4
    <3> QED
      BY <3>3, <3>4, <3>5
  <2>6. ASSUME pc = "done", mw = "mcp", Count({"runFinished"}, NoId) = 1, iteration <= MaxIterations, ~Interrupted,
               NEW i \in DOMAIN emitted, emitted[i].type = "callStart", emitted[i].name \in DOMAIN tools
        PROVE  emitted[i].id \in Ids(Results)
    <3>1. At({"runFinished"}, NoId) # {}
      <4>1. Count({"runFinished"}, NoId) = Cardinality(At({"runFinished"}, NoId))
        BY DEF Count
      <4> HIDE DEF At
      <4> QED
        BY <2>6, <4>1, FS_EmptySet
    <3>2. \E j \in DOMAIN emitted : emitted[j].type = "runFinished"
      BY <3>1
    <3> QED
      BY <2>4, <2>6, <3>2 DEF AllAnswered
  <2>7. ASSUME pc = "invoke", invocation > 0 PROVE GetOpenToolCalls(messages) = <<>>
    <3> DEFINE open == GetOpenToolCalls(messages)
    <3>1. IsSeq(open) /\ \A k \in DOMAIN open : Stands(open[k], messages) /\ open[k].id \notin AnsweredIn(messages)
      BY OpenCalls DEF IdsOk, MessageIds
    <3> HIDE DEF open
    <3>2. DOMAIN open = {}
      BY <2>7, <3>1 DEF OpenOk, NoneOpen
    <3>3. open = <<>>
      BY <3>1, <3>2, NoPlaces
    <3> QED
      BY <3>3 DEF open
  <2> QED
    BY <2>1, <2>2, <2>3, <2>4, <2>5, <2>6, <2>7 DEF CallsAnsweredOnce, AllExecuted
<1> QED
  BY <1>1, TypesAreOk, IdsAreOk, ResultsAreOnce, RunsAreOne, OpenIsOk, AllAreAnswered, PTL

=============================================================================
