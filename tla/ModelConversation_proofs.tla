------------------------ MODULE ModelConversation_proofs ------------------------
(***************************************************************************)
(* What the adapters of src/model promise of every answer and every        *)
(* request, proved for all plans of the provider and all configurations.   *)
(*                                                                         *)
(* A closing response is the last thing a parser yields.  For "cut short   *)
(* is not complete" to be inductive, each response kept is tied to the     *)
(* reason the provider gave, which never changes once a response counts on *)
(* it; a request is tied to the configuration it was built from.           *)
(*                                                                         *)
(* The calls: each accumulator holds what was said of its own item, in the *)
(* order the items began (Gathered), and the parts handed over are listed  *)
(* from there in order (Sift).  The text: items are said in turn, calls    *)
(* aside (InTurn), so that a delta of a text continues all that was said   *)
(* before it, and what was shown keeps up with it while a parser reads     *)
(* (Heard).  Both rest on lemmas about Sift and FlattenSeq, by induction   *)
(* over the natural numbers.                                               *)
(***************************************************************************)
EXTENDS ModelConversation, FiniteSetTheorems, SequenceTheorems, NaturalsInduction, WellFoundedInduction, TLAPS

IsSeq(s) == s \in Seq({s[i] : i \in DOMAIN s})
Terminal == {"complete", "error", "interrupted"}

\* A response that is kept has a reason of the provider's, and says STOP only if that is one
\* for a whole answer.
Accounted(r, why) == r.flag \in {"final", "complete"} => why # "" /\ (r.reason = "STOP" => why \in WholeReasons)

StreamIInv ==
  /\ finish \in {""} \cup Reasons
  /\ IsSeq(got)
  /\ \A k \in DOMAIN got : Accounted(got[k], finish) /\ (got[k].flag \in Terminal => pc = "done" /\ k = Len(got))

ConvIInv ==
  /\ StreamIInv
  /\ stage = "send" => /\ request.cfg \in Configs /\ request.api \in Apis
                       /\ request.built = RequestOf(request.api, contents, request.cfg)

-----------------------------------------------------------------------------
(* What is yielded.                                                        *)

LEMMA SeqFacts ==
  ASSUME NEW s, IsSeq(s)
  PROVE  Len(s) \in Nat /\ DOMAIN s = 1..Len(s) /\ IsFiniteSet(DOMAIN s)
<1>1. Len(s) \in Nat /\ DOMAIN s = 1..Len(s)
  BY DEF IsSeq
<1> QED
  BY <1>1, FS_Interval

\* A function over 1..n is a sequence.
LEMMA FunctionIsSeq ==
  ASSUME NEW n \in Nat, NEW s, s = [i \in 1..n |-> s[i]]
  PROVE  IsSeq(s) /\ Len(s) = n
<1>1. s \in [1..n -> {s[i] : i \in DOMAIN s}]
  OBVIOUS
<1>2. s \in Seq({s[i] : i \in DOMAIN s})
  BY <1>1, SeqDef
<1> QED
  BY <1>1, <1>2, LenProperties DEF IsSeq

\* So is the empty one.
LEMMA EmptyIsSeq == IsSeq(<<>>) /\ DOMAIN <<>> = {}
<1>1. IsSeq(<<>>) /\ Len(<<>>) = 0
  BY DEF IsSeq
<1> QED
  BY <1>1, SeqFacts

\* One element more.
LEMMA AppendIsSeq ==
  ASSUME NEW s, IsSeq(s), NEW x
  PROVE  /\ IsSeq(Append(s, x)) /\ Len(Append(s, x)) = Len(s) + 1
         /\ DOMAIN Append(s, x) = DOMAIN s \cup {Len(s) + 1} /\ Len(s) + 1 \notin DOMAIN s
         /\ Append(s, x)[Len(s) + 1] = x
         /\ \A i \in DOMAIN s : Append(s, x)[i] = s[i]
<1> DEFINE W == {s[i] : i \in DOMAIN s} \cup {x}
           a == Append(s, x)
<1>1. s \in Seq(W) /\ x \in W
  <2>1. {s[i] : i \in DOMAIN s} \subseteq W
    OBVIOUS
  <2> QED
    BY <2>1 DEF IsSeq
<1> HIDE DEF W
<1>2. /\ a \in Seq(W) /\ Len(a) = Len(s) + 1 /\ Len(s) \in Nat /\ DOMAIN s = 1..Len(s)
      /\ DOMAIN a = 1..(Len(s) + 1) /\ a[Len(s) + 1] = x /\ \A i \in DOMAIN s : a[i] = s[i]
  BY <1>1
<1> HIDE DEF a
<1>3. IsSeq(a)
  <2>1. a = [i \in 1..(Len(s) + 1) |-> a[i]] /\ Len(s) + 1 \in Nat
    BY <1>2
  <2> QED
    BY <2>1, FunctionIsSeq
<1> QED
  BY <1>2, <1>3 DEF a

\* SaidOf, for the plan p and as far as the provider is with it.
SaidIn(p, said, i) == Bits(i, IF said[i] > p[i].bits THEN p[i].bits ELSE said[i])

\* What a parser gathered of the items started, and what of the answer it handed over:
\* the accumulators stand in the order the provider began their items, and each holds
\* what was said of its own.
Gathered ==
  /\ sent \in [Items -> Int] /\ \A i \in Items : sent[i] >= -1
  /\ \A i, j \in Items : i < j /\ sent[j] >= 0 => sent[i] >= 0
  /\ IsSeq(acc)
  /\ \A j, k \in DOMAIN acc : j < k => acc[j].item < acc[k].item
  /\ \A k \in DOMAIN acc :
       /\ acc[k] = [item |-> acc[k].item, bits |-> acc[k].bits]
       /\ acc[k].item \in Items /\ sent[acc[k].item] >= 0 /\ acc[k].bits = SaidIn(plan, sent, acc[k].item)
  /\ \A i \in Items : sent[i] >= 0 /\ (IsCall(i) \/ api = "messages") => \E k \in DOMAIN acc : acc[k].item = i
  /\ Finished => \A i \in Items : Closed(i)

\* The calls among the parts are in order, each with its own arguments or none.
GoodParts(p, parts) ==
  /\ \A j, k \in CallPlaces(parts) : j < k => parts[j].item < parts[k].item
  /\ \A j \in CallPlaces(parts) : parts[j].bits \in {Bits(parts[j].item, p[parts[j].item].bits), <<>>, NilArgs}
\* No call of the plan p is missing.
HasAll(p, parts) ==
  \A i \in DOMAIN p : p[i].kind = "call" /\ p[i].json =>
     \E j \in CallPlaces(parts) : parts[j].item = i /\ parts[j].bits = Bits(i, p[i].bits)

\* One kept response at most holds parts; only chat keeps one before the end.
Answered ==
  /\ \A k \in KeptPlaces : GoodParts(plan, got[k].parts)
  /\ \A k, m \in KeptPlaces : k # m => got[k].parts = <<>> \/ got[m].parts = <<>>
  /\ Reading => \A k \in KeptPlaces : got[k].flag = "final" /\ api = "chat" /\ finish # ""
  /\ (Completed \/ (Reading /\ api = "chat")) /\ Finished => \E k \in KeptPlaces : HasAll(plan, got[k].parts)

CallsIInv == Answered /\ (Reading => plan \in Plans /\ Gathered)

\* Numbers up to n, one after the other.
LEMMA UpTo ==
  ASSUME NEW n \in Nat, NEW S, 0 \in S, \A i \in 1..n : i - 1 \in S => i \in S
  PROVE  n \in S
<1> DEFINE not == {i \in 0..n : i \notin S}
<1> SUFFICES ASSUME not # {} PROVE FALSE
  OBVIOUS
<1>1. not \subseteq Nat
  OBVIOUS
<1>2. PICK m \in not : \A y \in not : ~(<<y, m>> \in OpToRel(<, Nat))
  BY <1>1, NatLessThanWellFounded, WFMin
<1>3. m \in 1..n /\ m - 1 \in 0..n /\ m - 1 < m /\ m \in Nat /\ m - 1 \in Nat
  OBVIOUS
<1>4. <<m - 1, m>> \in OpToRel(<, Nat) <=> m - 1 < m
  BY <1>3, Zenon DEF OpToRel
<1> QED
  BY <1>2, <1>3, <1>4

\* The recursive function of Sift, as far as n.
Sifting(f, n, s, places) ==
  f = [m \in 0..n |-> IF m = 0 THEN <<>> ELSE IF m \in places THEN Append(f[m - 1], s[m]) ELSE f[m - 1]]

\* There is one.
LEMMA SiftingExists ==
  ASSUME NEW s, NEW places, NEW n \in Nat
  PROVE  \E f : Sifting(f, n, s, places)
<1> DEFINE S == {m \in 0..n : \E f : Sifting(f, m, s, places)}
<1>1. 0 \in S
  <2> DEFINE f == [m \in 0..0 |-> <<>>]
  <2>1. Sifting(f, 0, s, places)
    BY DEF Sifting
  <2> QED
    BY <2>1
<1>2. ASSUME NEW m \in 1..n, m - 1 \in S PROVE m \in S
  <2>1. m - 1 \in Nat /\ m \in Nat /\ m # 0
    OBVIOUS
  <2>2. PICK f : Sifting(f, m - 1, s, places)
    BY <1>2
  <2> DEFINE next == IF m \in places THEN Append(f[m - 1], s[m]) ELSE f[m - 1]
             g == [i \in 0..m |-> IF i = m THEN next ELSE f[i]]
  <2>3. \A i \in 0..(m - 1) :
          f[i] = IF i = 0 THEN <<>> ELSE IF i \in places THEN Append(f[i - 1], s[i]) ELSE f[i - 1]
    BY <2>2 DEF Sifting
  <2>4. ASSUME NEW i \in 0..m
        PROVE  g[i] = IF i = 0 THEN <<>> ELSE IF i \in places THEN Append(g[i - 1], s[i]) ELSE g[i - 1]
    <3>1. CASE i # m
      <4>1. i \in 0..(m - 1) /\ (i # 0 => i - 1 \in 0..m /\ i - 1 # m)
        BY <2>1, <3>1
      <4>2. g[i] = f[i] /\ (i # 0 => g[i - 1] = f[i - 1])
        BY <3>1, <4>1
      <4> HIDE DEF g
      <4> QED
        BY <2>3, <4>1, <4>2
    <3>2. CASE i = m
      <4>1. m - 1 \in 0..m /\ m - 1 # m /\ m \in 0..m
        BY <2>1
      <4>2. g[m] = next /\ g[m - 1] = f[m - 1]
        BY <4>1
      <4> HIDE DEF g
      <4> QED
        BY <2>1, <3>2, <4>2
    <3> QED
      BY <3>1, <3>2
  <2>5. g = [i \in 0..m |-> g[i]]
    OBVIOUS
  <2> HIDE DEF g
  <2>6. Sifting(g, m, s, places)
    BY <2>4, <2>5 DEF Sifting
  <2> QED
    BY <2>6
<1> HIDE DEF S
<1>3. n \in S
  BY <1>1, <1>2, UpTo
<1> QED
  BY <1>3 DEF S

\* r lists in order what s has at the places kept among the first n; from tells the place of each.
Lists(r, from, n, s, places) ==
  /\ IsSeq(r)
  /\ \A k \in DOMAIN r : from[k] \in 1..n /\ from[k] \in places /\ r[k] = s[from[k]]
  /\ \A j, k \in DOMAIN r : j < k => from[j] < from[k]
  /\ \A i \in 1..n : i \in places => \E k \in DOMAIN r : from[k] = i

\* One place more.
LEMMA ListOneMore ==
  ASSUME NEW r, NEW from, NEW s, NEW places, NEW n \in Nat, Lists(r, from, n, s, places)
  PROVE  \E to : Lists(IF n + 1 \in places THEN Append(r, s[n + 1]) ELSE r, to, n + 1, s, places)
<1>1. CASE n + 1 \notin places
  <2>1. Lists(r, from, n + 1, s, places)
    BY <1>1 DEF Lists
  <2> QED
    BY <1>1, <2>1
<1>2. CASE n + 1 \in places
  <2> DEFINE a == Append(r, s[n + 1])
             to == [k \in 1..(Len(r) + 1) |-> IF k = Len(r) + 1 THEN n + 1 ELSE from[k]]
  <2>1. /\ IsSeq(a) /\ Len(a) = Len(r) + 1 /\ DOMAIN a = DOMAIN r \cup {Len(r) + 1}
        /\ a[Len(r) + 1] = s[n + 1] /\ \A k \in DOMAIN r : a[k] = r[k]
    BY AppendIsSeq DEF Lists
  <2>2. Len(r) \in Nat /\ DOMAIN r = 1..Len(r)
    BY SeqFacts DEF Lists
  <2>3. to[Len(r) + 1] = n + 1 /\ \A k \in DOMAIN r : to[k] = from[k]
    BY <2>2
  <2> HIDE DEF a, to
  <2>4. \A k \in DOMAIN a : to[k] \in 1..(n + 1) /\ to[k] \in places /\ a[k] = s[to[k]]
    BY <1>2, <2>1, <2>2, <2>3 DEF Lists
  <2>5. \A j, k \in DOMAIN a : j < k => to[j] < to[k]
    <3> SUFFICES ASSUME NEW j \in DOMAIN a, NEW k \in DOMAIN a, j < k PROVE to[j] < to[k]
      OBVIOUS
    <3>1. j \in DOMAIN r /\ from[j] \in 1..n
      BY <2>1, <2>2 DEF Lists
    <3>2. CASE k = Len(r) + 1
      BY <2>3, <3>1, <3>2
    <3>3. CASE k \in DOMAIN r
      BY <2>3, <3>1, <3>3 DEF Lists
    <3> QED
      BY <2>1, <3>2, <3>3
  <2>6. ASSUME NEW i \in 1..(n + 1), i \in places PROVE \E k \in DOMAIN a : to[k] = i
    <3>1. CASE i = n + 1
      BY <2>1, <2>3, <3>1
    <3>2. CASE i # n + 1
      <4>1. i \in 1..n
        BY <3>2
      <4>2. PICK k \in DOMAIN r : from[k] = i
        BY <2>6, <4>1 DEF Lists
      <4> QED
        BY <2>1, <2>3, <4>2
    <3> QED
      BY <3>1, <3>2
  <2>7. Lists(a, to, n + 1, s, places)
    BY <2>1, <2>4, <2>5, <2>6 DEF Lists
  <2> QED
    BY <1>2, <2>7 DEF a
<1> QED
  BY <1>1, <1>2

\* Sift keeps what it should, in order, and nothing else.
LEMMA SiftLists ==
  ASSUME NEW s, Len(s) \in Nat, NEW places
  PROVE  \E from : Lists(Sift(s, places), from, Len(s), s, places)
<1> DEFINE f == CHOOSE f : f = [n \in 0..Len(s) |-> IF n = 0 THEN <<>> ELSE IF n \in places THEN Append(f[n - 1], s[n]) ELSE f[n - 1]]
<1>0. \E h : Sifting(h, Len(s), s, places)
  BY SiftingExists
<1>1. Sifting(f, Len(s), s, places)
  BY <1>0 DEF Sifting
<1>2. Sift(s, places) = f[Len(s)]
  BY DEF Sift
<1> HIDE DEF f
<1>6. ASSUME NEW n \in 1..Len(s)
      PROVE  f[n] = IF n \in places THEN Append(f[n - 1], s[n]) ELSE f[n - 1]
  <2>1. n \in 0..Len(s) /\ n # 0
    OBVIOUS
  <2> QED
    BY <1>1, <2>1 DEF Sifting
<1> DEFINE S == {n \in 0..Len(s) : \E from : Lists(f[n], from, n, s, places)}
<1>3. 0 \in S
  <2>1. f[0] = <<>>
    BY <1>1 DEF Sifting
  <2>2. Lists(<<>>, <<>>, 0, s, places)
    BY EmptyIsSeq DEF Lists
  <2> QED
    BY <2>1, <2>2
<1>4. ASSUME NEW n \in 1..Len(s), n - 1 \in S PROVE n \in S
  <2>1. PICK from : Lists(f[n - 1], from, n - 1, s, places)
    BY <1>4
  <2>2. f[n] = IF n \in places THEN Append(f[n - 1], s[n]) ELSE f[n - 1]
    BY <1>6
  <2>3. n - 1 \in Nat /\ (n - 1) + 1 = n
    OBVIOUS
  <2>4. \E to : Lists(IF (n - 1) + 1 \in places THEN Append(f[n - 1], s[(n - 1) + 1]) ELSE f[n - 1], to, (n - 1) + 1, s, places)
    BY <2>1, <2>3, ListOneMore
  <2> QED
    BY <2>2, <2>3, <2>4
<1> HIDE DEF S
<1>5. Len(s) \in S
  BY <1>3, <1>4, UpTo
<1> QED
  BY <1>2, <1>5 DEF S

-----------------------------------------------------------------------------
(* The parts of the responses that enter the conversation.                 *)

\* What becomes of the arguments gathered.
LEMMA ArgsAre ==
  ASSUME NEW i, NEW bits
  PROVE  Args(i, bits) \in {Bits(i, plan[i].bits), NilArgs}
BY DEF Args

\* A call whose arguments are JSON keeps them.
LEMMA WholeArgs ==
  ASSUME plan \in Plans, NEW i \in Items, IsCall(i), plan[i].json
  PROVE  /\ Bits(i, plan[i].bits) # <<>> /\ Args(i, Bits(i, plan[i].bits)) = Bits(i, plan[i].bits)
         /\ ~Unparseable(i, Bits(i, plan[i].bits))
<1>1. plan[i].bits \in Nat /\ plan[i].bits > 0
  BY PlansAssumption DEF Items, IsCall
<1>2. Bits(i, plan[i].bits) # <<>>
  <2>1. 1 \in DOMAIN Bits(i, plan[i].bits)
    BY <1>1 DEF Bits
  <2> QED
    BY <2>1
<1>3. Bits(i, plan[i].bits) # NilArgs
  <2>1. Bits(i, plan[i].bits)[1] = <<i, 1>>
    BY <1>1 DEF Bits
  <2>2. NilArgs[1] = <<0, 0>>
    BY DEF NilArgs
  <2> QED
    BY <2>1, <2>2
<1> QED
  BY <1>2, <1>3 DEF Args, Unparseable

\* Calls listed from things that are in the order of their items.
LEMMA ListedParts ==
  ASSUME NEW s, IsSeq(s), NEW places, NEW p, NEW parts, NEW item,
         \A j, k \in DOMAIN s : item[j] \in Int /\ (j < k => item[j] < item[k]),
         DOMAIN parts = DOMAIN Sift(s, places),
         NEW bits,
         \A k \in DOMAIN s, j \in DOMAIN parts :
            k \in places /\ Sift(s, places)[j] = s[k] =>
               parts[j].item = item[k] /\ (parts[j].kind = "call" => parts[j].bits = bits[k]),
         \A k \in DOMAIN s : k \in places => bits[k] \in {Bits(item[k], p[item[k]].bits), <<>>, NilArgs}
  PROVE  GoodParts(p, parts)
<1> DEFINE r == Sift(s, places)
<1>1. Len(s) \in Nat /\ DOMAIN s = 1..Len(s)
  BY SeqFacts
<1>2. PICK from : Lists(r, from, Len(s), s, places)
  BY <1>1, SiftLists
<1> HIDE DEF r
<1>3. \A k \in DOMAIN r : from[k] \in DOMAIN s /\ from[k] \in places /\ r[k] = s[from[k]]
  BY <1>1, <1>2 DEF Lists
<1>4. \A j, k \in DOMAIN r : j < k => from[j] < from[k]
  BY <1>2 DEF Lists
<1>5. \A j \in CallPlaces(parts) : /\ j \in DOMAIN r /\ parts[j].item = item[from[j]]
                                   /\ parts[j].bits = bits[from[j]]
  BY <1>3 DEF r, CallPlaces
<1> QED
  BY <1>3, <1>4, <1>5 DEF GoodParts

\* Nothing that should be listed is missing.
LEMMA SiftHas ==
  ASSUME NEW s, IsSeq(s), NEW places, NEW k \in DOMAIN s, k \in places
  PROVE  \E j \in DOMAIN Sift(s, places) : Sift(s, places)[j] = s[k]
<1>1. Len(s) \in Nat /\ DOMAIN s = 1..Len(s)
  BY SeqFacts
<1>2. PICK from : Lists(Sift(s, places), from, Len(s), s, places)
  BY <1>1, SiftLists
<1> QED
  BY <1>1, <1>2 DEF Lists

\* What PlansAssumption says of the plan at hand.
LEMMA PlanFacts ==
  ASSUME plan \in Plans
  PROVE  Len(plan) \in Nat /\ Items = 1..Len(plan) /\ \A i \in Items : plan[i].bits \in Nat
BY PlansAssumption DEF Items

\* What was said of an item that is closed is all of it.
LEMMA ClosedIsSaid ==
  ASSUME plan \in Plans, NEW i \in Items, Closed(i), sent[i] \in Int
  PROVE  SaidOf(i) = Bits(i, plan[i].bits) /\ SaidIn(plan, sent, i) = SaidOf(i) /\ sent[i] >= 0
<1>1. plan[i].bits \in Nat
  BY PlanFacts
<1>2. sent[i] >= plan[i].bits
  BY <1>1 DEF Closed
<1> QED
  BY <1>1, <1>2 DEF SaidOf, SaidIn

\* The calls chat assembles.
LEMMA ChatCallsAreGood ==
  ASSUME plan \in Plans, Gathered
  PROVE  GoodParts(plan, ChatCalls) /\ ((\A i \in Items : Closed(i)) => HasAll(plan, ChatCalls))
<1> DEFINE places == {k \in DOMAIN acc : ~Unparseable(acc[k].item, acc[k].bits)}
           kept == Sift(acc, places)
           item == [k \in DOMAIN acc |-> acc[k].item]
           bits == [k \in DOMAIN acc |-> Args(acc[k].item, acc[k].bits)]
<1>1. IsSeq(acc) /\ \A j, k \in DOMAIN acc : item[j] \in Int /\ (j < k => item[j] < item[k])
  BY PlanFacts DEF Gathered
<1>2. \A k \in DOMAIN acc : bits[k] \in {Bits(item[k], plan[item[k]].bits), <<>>, NilArgs}
  BY ArgsAre
<1>3. ChatCalls = [k \in DOMAIN kept |-> Part(kept[k].item, Args(kept[k].item, kept[k].bits))]
  BY DEF ChatCalls
<1> DEFINE parts == ChatCalls
<1>4. DOMAIN parts = DOMAIN kept /\ \A j \in DOMAIN kept :
        /\ parts[j].item = kept[j].item /\ parts[j].bits = Args(kept[j].item, kept[j].bits)
        /\ parts[j].kind = plan[kept[j].item].kind
  BY <1>3 DEF Part
<1>5. \A k \in DOMAIN acc, j \in DOMAIN parts :
        kept[j] = acc[k] => parts[j].item = item[k] /\ parts[j].bits = bits[k]
  BY <1>4
<1>6. GoodParts(plan, parts)
  <2> HIDE DEF parts, item, bits, places
  <2> QED
    BY <1>1, <1>2, <1>4, <1>5, ListedParts
<1>7. ASSUME \A i \in Items : Closed(i), NEW i \in Items, IsCall(i), plan[i].json
      PROVE  \E j \in CallPlaces(parts) : parts[j].item = i /\ parts[j].bits = Bits(i, plan[i].bits)
  <2>1. SaidIn(plan, sent, i) = Bits(i, plan[i].bits) /\ sent[i] >= 0
    BY <1>7, ClosedIsSaid DEF Gathered
  <2>2. PICK k \in DOMAIN acc : acc[k].item = i /\ acc[k].bits = Bits(i, plan[i].bits)
    BY <1>7, <2>1 DEF Gathered
  <2>3. k \in places
    BY <1>7, <2>2, WholeArgs
  <2>4. PICK j \in DOMAIN kept : kept[j] = acc[k]
    <3> HIDE DEF places
    <3> QED
      BY <1>1, <2>3, SiftHas
  <2>5. parts[j].item = i /\ parts[j].bits = Bits(i, plan[i].bits) /\ parts[j].kind = "call"
    BY <1>4, <1>7, <2>2, <2>4, WholeArgs DEF IsCall
  <2> QED
    BY <1>4, <2>4, <2>5 DEF CallPlaces
<1>8. (\A i \in Items : Closed(i)) => HasAll(plan, parts)
  BY <1>7 DEF HasAll, Items, IsCall
<1> QED
  BY <1>6, <1>8

\* The blocks of messages.
LEMMA MessagePartsAreGood ==
  ASSUME plan \in Plans, Gathered
  PROVE  GoodParts(plan, MessageParts) /\ ((\A i \in Items : Closed(i)) => HasAll(plan, MessageParts))
<1> DEFINE places == {k \in DOMAIN acc : plan[acc[k].item].kind # "text" \/ acc[k].bits # <<>>}
           kept == Sift(acc, places)
           item == [k \in DOMAIN acc |-> acc[k].item]
           bits == [k \in DOMAIN acc |-> Args(acc[k].item, acc[k].bits)]
           parts == MessageParts
<1>1. IsSeq(acc) /\ \A j, k \in DOMAIN acc : item[j] \in Int /\ (j < k => item[j] < item[k])
  BY PlanFacts DEF Gathered
<1>2. \A k \in DOMAIN acc : bits[k] \in {Bits(item[k], plan[item[k]].bits), <<>>, NilArgs}
  BY ArgsAre
<1>3. parts = [k \in DOMAIN kept |-> Part(kept[k].item, IF IsCall(kept[k].item) THEN Args(kept[k].item, kept[k].bits) ELSE kept[k].bits)]
  BY DEF MessageParts
<1>4. DOMAIN parts = DOMAIN kept /\ \A j \in DOMAIN kept :
        /\ parts[j].item = kept[j].item
        /\ IsCall(kept[j].item) => parts[j].bits = Args(kept[j].item, kept[j].bits)
        /\ parts[j].kind = plan[kept[j].item].kind
  BY <1>3 DEF Part
<1>5. \A k \in DOMAIN acc, j \in DOMAIN parts :
        kept[j] = acc[k] => parts[j].item = item[k] /\ (parts[j].kind = "call" => parts[j].bits = bits[k])
  BY <1>4 DEF IsCall
<1>6. GoodParts(plan, parts)
  <2> HIDE DEF parts, item, bits, places
  <2> QED
    BY <1>1, <1>2, <1>4, <1>5, ListedParts
<1>7. ASSUME \A i \in Items : Closed(i), NEW i \in Items, IsCall(i), plan[i].json
      PROVE  \E j \in CallPlaces(parts) : parts[j].item = i /\ parts[j].bits = Bits(i, plan[i].bits)
  <2>1. SaidIn(plan, sent, i) = Bits(i, plan[i].bits) /\ sent[i] >= 0
    BY <1>7, ClosedIsSaid DEF Gathered
  <2>2. PICK k \in DOMAIN acc : acc[k].item = i /\ acc[k].bits = Bits(i, plan[i].bits)
    BY <1>7, <2>1 DEF Gathered
  <2>3. k \in places
    BY <1>7, <2>2 DEF IsCall
  <2>4. PICK j \in DOMAIN kept : kept[j] = acc[k]
    <3> HIDE DEF places
    <3> QED
      BY <1>1, <2>3, SiftHas
  <2>5. parts[j].item = i /\ parts[j].bits = Bits(i, plan[i].bits) /\ parts[j].kind = "call"
    <3>1. kept[j].item = i /\ kept[j].bits = Bits(i, plan[i].bits)
      BY <2>2, <2>4
    <3>2. parts[j].item = i /\ parts[j].bits = Args(i, Bits(i, plan[i].bits)) /\ parts[j].kind = "call"
      BY <1>4, <1>7, <3>1 DEF IsCall
    <3> QED
      BY <1>7, <3>2, WholeArgs
  <2> QED
    BY <1>4, <2>4, <2>5 DEF CallPlaces
<1>8. (\A i \in Items : Closed(i)) => HasAll(plan, parts)
  BY <1>7 DEF HasAll, Items, IsCall
<1> QED
  BY <1>6, <1>8

\* The parts of the response object of the responses API.
LEMMA OutputPartsAreGood ==
  ASSUME plan \in Plans, Gathered
  PROVE  GoodParts(plan, OutputParts) /\ ((\A i \in Items : Closed(i)) => HasAll(plan, OutputParts))
<1> DEFINE s == [i \in Items |-> i]
           places == {i \in Items : sent[i] > 0 \/ (sent[i] = 0 /\ plan[i].kind # "thought")}
           kept == Sift(s, places)
           item == [i \in Items |-> i]
           bits == [i \in Items |-> IF SaidOf(i) # <<>> THEN Args(i, SaidOf(i)) ELSE SaidOf(i)]
           parts == OutputParts
<1>1. IsSeq(s) /\ DOMAIN s = Items /\ \A j, k \in DOMAIN s : item[j] \in Int /\ (j < k => item[j] < item[k])
  <2>1. IsSeq(s)
    BY PlanFacts, FunctionIsSeq
  <2> QED
    BY <2>1, PlanFacts
<1>2. \A k \in DOMAIN s : bits[k] \in {Bits(item[k], plan[item[k]].bits), <<>>, NilArgs}
  BY ArgsAre
<1>3. parts = [k \in DOMAIN kept |->
                 Part(kept[k], IF IsCall(kept[k]) /\ SaidOf(kept[k]) # <<>> THEN Args(kept[k], SaidOf(kept[k])) ELSE SaidOf(kept[k]))]
  BY DEF OutputParts
<1>4. DOMAIN parts = DOMAIN kept /\ \A j \in DOMAIN kept :
        /\ parts[j].item = kept[j]
        /\ kept[j] \in Items /\ IsCall(kept[j]) => parts[j].bits = bits[kept[j]]
        /\ parts[j].kind = plan[kept[j]].kind
  BY <1>3 DEF Part
<1>5. \A k \in DOMAIN s, j \in DOMAIN parts :
        kept[j] = s[k] => parts[j].item = item[k] /\ (parts[j].kind = "call" => parts[j].bits = bits[k])
  BY <1>1, <1>4 DEF IsCall
<1>6. GoodParts(plan, parts)
  <2> HIDE DEF parts, s, item, bits, places
  <2> QED
    BY <1>1, <1>2, <1>4, <1>5, ListedParts
<1>7. ASSUME \A i \in Items : Closed(i), NEW i \in Items, IsCall(i), plan[i].json
      PROVE  \E j \in CallPlaces(parts) : parts[j].item = i /\ parts[j].bits = Bits(i, plan[i].bits)
  <2>1. SaidOf(i) = Bits(i, plan[i].bits) /\ sent[i] >= 0 /\ sent[i] \in Int
    BY <1>7, ClosedIsSaid DEF Gathered
  <2>2. i \in places
    BY <1>7, <2>1 DEF IsCall
  <2>3. bits[i] = Bits(i, plan[i].bits)
    BY <1>7, <2>1, WholeArgs
  <2>4. PICK j \in DOMAIN kept : kept[j] = i
    <3>1. s[i] = i
      OBVIOUS
    <3> HIDE DEF places, s
    <3> QED
      BY <1>1, <2>2, <3>1, SiftHas
  <2>5. parts[j].item = i /\ parts[j].bits = Bits(i, plan[i].bits) /\ parts[j].kind = "call"
    BY <1>4, <1>7, <2>3, <2>4 DEF IsCall
  <2> QED
    BY <1>4, <2>4, <2>5 DEF CallPlaces
<1>8. (\A i \in Items : Closed(i)) => HasAll(plan, parts)
  BY <1>7 DEF HasAll, Items, IsCall
<1> QED
  BY <1>6, <1>8

\* An unstreamed answer has every item.
LEMMA WholePartIs ==
  ASSUME plan \in Plans, NEW i \in Items
  PROVE  /\ WholePart(i).item = i /\ WholePart(i).kind = plan[i].kind
         /\ IsCall(i) => /\ WholePart(i).bits \in {Bits(i, plan[i].bits), <<>>, NilArgs}
                         /\ plan[i].json => WholePart(i).bits = Bits(i, plan[i].bits)
BY ArgsAre, WholeArgs DEF WholePart, Part

\* The whole answer of responses and of messages.
LEMMA WholePartsAreGood ==
  ASSUME plan \in Plans
  PROVE  GoodParts(plan, [i \in Items |-> WholePart(i)]) /\ HasAll(plan, [i \in Items |-> WholePart(i)])
<1> DEFINE parts == [i \in Items |-> WholePart(i)]
<1>1. \A i \in Items : /\ parts[i].item = i /\ parts[i].kind = plan[i].kind
                       /\ IsCall(i) => /\ parts[i].bits \in {Bits(i, plan[i].bits), <<>>, NilArgs}
                                       /\ plan[i].json => parts[i].bits = Bits(i, plan[i].bits)
  BY WholePartIs
<1>2. DOMAIN parts = Items
  OBVIOUS
<1> HIDE DEF parts
<1>3. \A j \in CallPlaces(parts) : j \in Items /\ IsCall(j) /\ parts[j].item = j
  BY <1>1, <1>2 DEF CallPlaces, IsCall
<1>4. GoodParts(plan, parts)
  BY <1>1, <1>3 DEF GoodParts
<1>5. HasAll(plan, parts)
  BY <1>1, <1>2 DEF HasAll, CallPlaces, Items, IsCall
<1> QED
  BY <1>4, <1>5 DEF parts

\* chat puts the calls behind the rest.
LEMMA ChatAnswerIsGood ==
  ASSUME plan \in Plans, NEW all, all = [i \in Items |-> WholePart(i)],
         NEW calls, calls = {i \in Items : IsCall(i)}
  PROVE  LET parts == Sift(all, Items \ calls) \o Sift(all, calls)
         IN  GoodParts(plan, parts) /\ HasAll(plan, parts)
<1> DEFINE a == Sift(all, Items \ calls)
           b == Sift(all, calls)
           parts == a \o b
<1>1. IsSeq(all) /\ Len(all) = Len(plan) /\ Len(all) \in Nat /\ Items = 1..Len(all) /\ DOMAIN all = Items
  BY PlanFacts, FunctionIsSeq
<1>2. \A i \in Items : /\ all[i].item = i /\ all[i].kind = plan[i].kind
                       /\ IsCall(i) => /\ all[i].bits \in {Bits(i, plan[i].bits), <<>>, NilArgs}
                                       /\ plan[i].json => all[i].bits = Bits(i, plan[i].bits)
  BY WholePartIs
<1>3. PICK from : Lists(a, from, Len(all), all, Items \ calls)
  BY <1>1, SiftLists
<1>4. PICK to : Lists(b, to, Len(all), all, calls)
  BY <1>1, SiftLists
<1> HIDE DEF a, b
<1>5. \A k \in DOMAIN a : a[k].kind # "call"
  BY <1>1, <1>2, <1>3 DEF Lists, IsCall
<1>6. \A k \in DOMAIN b : /\ to[k] \in Items /\ b[k].kind = "call" /\ b[k].item = to[k]
                          /\ b[k].bits \in {Bits(b[k].item, plan[b[k].item].bits), <<>>, NilArgs}
  BY <1>1, <1>2, <1>4 DEF Lists, IsCall
<1>7. /\ Len(a) \in Nat /\ Len(b) \in Nat /\ DOMAIN a = 1..Len(a) /\ DOMAIN b = 1..Len(b)
      /\ DOMAIN parts = 1..(Len(a) + Len(b))
      /\ \A k \in DOMAIN a : parts[k] = a[k]
      /\ \A k \in DOMAIN b : parts[Len(a) + k] = b[k]
  <2> DEFINE W == {a[i] : i \in DOMAIN a} \cup {b[i] : i \in DOMAIN b}
  <2>1. IsSeq(a) /\ IsSeq(b)
    BY <1>3, <1>4 DEF Lists
  <2>2. Len(a) \in Nat /\ Len(b) \in Nat /\ DOMAIN a = 1..Len(a) /\ DOMAIN b = 1..Len(b)
    BY <2>1, SeqFacts
  <2>3. a \in Seq(W) /\ b \in Seq(W)
    <3>1. {a[i] : i \in DOMAIN a} \subseteq W /\ {b[i] : i \in DOMAIN b} \subseteq W
      OBVIOUS
    <3> HIDE DEF W
    <3> QED
      BY <2>1, <3>1 DEF IsSeq
  <2> HIDE DEF W
  <2> QED
    BY <2>2, <2>3
<1> HIDE DEF parts
<1>8. \A j \in CallPlaces(parts) : j - Len(a) \in DOMAIN b /\ parts[j] = b[j - Len(a)]
  <2> SUFFICES ASSUME NEW j \in CallPlaces(parts)
               PROVE  j - Len(a) \in DOMAIN b /\ parts[j] = b[j - Len(a)]
    OBVIOUS
  <2>1. j \in 1..(Len(a) + Len(b)) /\ j \notin DOMAIN a
    BY <1>5, <1>7 DEF CallPlaces
  <2>2. j - Len(a) \in DOMAIN b /\ Len(a) + (j - Len(a)) = j
    BY <1>7, <2>1
  <2> QED
    BY <1>7, <2>2
<1>9. GoodParts(plan, parts)
  <2>1. ASSUME NEW j \in CallPlaces(parts), NEW k \in CallPlaces(parts), j < k
        PROVE  parts[j].item < parts[k].item
    <3>1. j - Len(a) < k - Len(a)
      BY <1>7, <1>8, <2>1 DEF CallPlaces
    <3> QED
      BY <1>4, <1>6, <1>8, <3>1 DEF Lists
  <2> QED
    BY <1>6, <1>8, <2>1 DEF GoodParts
<1>10. ASSUME NEW i \in Items, IsCall(i), plan[i].json
       PROVE  \E j \in CallPlaces(parts) : parts[j].item = i /\ parts[j].bits = Bits(i, plan[i].bits)
  <2>1. PICK k \in DOMAIN b : to[k] = i
    BY <1>1, <1>4, <1>10 DEF Lists
  <2>2. b[k] = all[i]
    BY <1>4, <2>1 DEF Lists
  <2>3. Len(a) + k \in DOMAIN parts /\ parts[Len(a) + k] = all[i]
    BY <1>7, <2>2
  <2> QED
    BY <1>2, <1>10, <2>3 DEF CallPlaces, IsCall
<1>11. HasAll(plan, parts)
  BY <1>10 DEF HasAll, Items, IsCall
<1> QED
  BY <1>9, <1>11 DEF parts, a, b

-----------------------------------------------------------------------------
(* A line gathered.                                                        *)

\* What the provider says next, of one item.
LEMMA SaidNext ==
  ASSUME plan \in Plans, sent \in [Items -> Int], NEW i \in Items, Moves(i)
  PROVE  /\ UNCHANGED <<api, plan, finish>> /\ Items' = Items
         /\ sent' \in [Items -> Int] /\ sent'[i] = sent[i] + 1
         /\ \A j \in Items : j # i => sent'[j] = sent[j] /\ SaidIn(plan', sent', j) = SaidIn(plan, sent, j)
         /\ sent[i] = -1 => SaidIn(plan', sent', i) = <<>>
         /\ sent[i] \in 0..(plan[i].bits - 1) => SaidIn(plan', sent', i) = Append(SaidIn(plan, sent, i), <<i, sent[i] + 1>>)
         /\ sent[i] = plan[i].bits => SaidIn(plan', sent', i) = SaidIn(plan, sent, i)
<1>1. UNCHANGED <<api, plan, finish>> /\ Items' = Items
  BY DEF Moves, Items
<1>2. /\ sent' \in [Items -> Int] /\ sent'[i] = sent[i] + 1
      /\ \A j \in Items : j # i => sent'[j] = sent[j]
  BY DEF Moves
<1>3. \A j \in Items : j # i => SaidIn(plan', sent', j) = SaidIn(plan, sent, j)
  BY <1>1, <1>2 DEF SaidIn
<1>4. plan[i].bits \in Nat
  BY PlanFacts
<1>5. ASSUME sent[i] = -1 PROVE SaidIn(plan', sent', i) = <<>>
  <2>1. SaidIn(plan', sent', i) = Bits(i, 0)
    BY <1>1, <1>2, <1>4, <1>5 DEF SaidIn
  <2> QED
    BY <2>1 DEF Bits
<1>6. ASSUME sent[i] \in 0..(plan[i].bits - 1)
      PROVE  SaidIn(plan', sent', i) = Append(SaidIn(plan, sent, i), <<i, sent[i] + 1>>)
  <2> DEFINE n == sent[i]
             s == Bits(i, n)
             a == Append(s, <<i, n + 1>>)
             b == Bits(i, n + 1)
  <2>1. SaidIn(plan', sent', i) = b /\ SaidIn(plan, sent, i) = s /\ n \in Nat
    BY <1>1, <1>2, <1>4, <1>6 DEF SaidIn
  <2> HIDE DEF n
  <2>2. IsSeq(s) /\ Len(s) = n
    BY <2>1, FunctionIsSeq DEF Bits
  <2>3. /\ IsSeq(a) /\ Len(a) = n + 1 /\ a[n + 1] = <<i, n + 1>>
        /\ \A k \in DOMAIN s : a[k] = s[k]
    <3> HIDE DEF s
    <3> QED
      BY <2>2, AppendIsSeq
  <2>4. a = [k \in 1..(n + 1) |-> a[k]]
    <3> HIDE DEF a
    <3> QED
      BY <2>3, SeqFacts DEF IsSeq
  <2>5. \A k \in 1..(n + 1) : a[k] = <<i, k>>
    <3> HIDE DEF a
    <3>1. \A k \in 1..n : k \in DOMAIN s /\ s[k] = <<i, k>>
      BY DEF Bits
    <3>2. \A k \in 1..(n + 1) : k \in 1..n \/ k = n + 1
      BY <2>1
    <3> QED
      BY <2>3, <3>1, <3>2
  <2>6. a = b
    <3> HIDE DEF a
    <3> QED
      BY <2>4, <2>5 DEF Bits
  <2> QED
    BY <2>1, <2>6 DEF n
<1>7. ASSUME sent[i] = plan[i].bits PROVE SaidIn(plan', sent', i) = SaidIn(plan, sent, i)
  BY <1>1, <1>2, <1>4, <1>7 DEF SaidIn
<1> QED
  BY <1>1, <1>2, <1>3, <1>5, <1>6, <1>7

\* Item i starts: its accumulator comes last.
LEMMA StartKeeps ==
  ASSUME plan \in Plans, Gathered, NEW i \in Items, MayStart(i), Moves(i),
         NewAccumulator(i) \/ (api # "messages" /\ ~IsCall(i) /\ UNCHANGED acc)
  PROVE  Gathered'
<1>1. /\ UNCHANGED <<api, plan, finish>> /\ Items' = Items /\ Items = 1..Len(plan) /\ Len(plan) \in Nat
      /\ \A j \in Items : IsCall(j)' = IsCall(j)
  BY PlanFacts, SaidNext DEF Gathered, IsCall
<1>2. /\ sent[i] = -1 /\ ~Finished' /\ \A j \in 1..(i - 1) : sent[j] >= 0
  <2>1. ASSUME NEW j \in 1..(i - 1), Closed(j) PROVE sent[j] >= 0
    BY <1>1, <2>1, ClosedIsSaid DEF Gathered
  <2> QED
    BY <1>1, <2>1 DEF MayStart, Finished, WholeReasons
<1>3. /\ sent' \in [Items -> Int] /\ sent'[i] = 0 /\ SaidIn(plan', sent', i) = <<>>
      /\ \A j \in Items : j # i => sent'[j] = sent[j] /\ SaidIn(plan', sent', j) = SaidIn(plan, sent, j)
  <2>1. sent \in [Items -> Int]
    BY DEF Gathered
  <2> QED
    BY <1>2, <2>1, SaidNext
<1>4. /\ \A j \in Items : sent'[j] >= -1
      /\ \A j, k \in Items : j < k /\ sent'[k] >= 0 => sent'[j] >= 0
  <2>1. \A j, k \in Items : j < k /\ sent[k] >= 0 => sent[j] >= 0
    BY DEF Gathered
  <2>2. \A j \in Items : sent[j] >= 0 => sent'[j] >= 0
    BY <1>2, <1>3
  <2>3. \A j \in Items : j < i => sent[j] >= 0
    BY <1>1, <1>2
  <2> QED
    BY <1>3, <2>1, <2>2, <2>3 DEF Gathered
<1>5. \A k \in DOMAIN acc : /\ acc[k] = [item |-> acc[k].item, bits |-> acc[k].bits]
                            /\ acc[k].item \in Items /\ acc[k].item # i /\ acc[k].item < i
                            /\ sent'[acc[k].item] >= 0 /\ acc[k].bits = SaidIn(plan', sent', acc[k].item)
  <2> SUFFICES ASSUME NEW k \in DOMAIN acc
               PROVE  /\ acc[k] = [item |-> acc[k].item, bits |-> acc[k].bits]
                      /\ acc[k].item \in Items /\ acc[k].item # i /\ acc[k].item < i
                      /\ sent'[acc[k].item] >= 0 /\ acc[k].bits = SaidIn(plan', sent', acc[k].item)
    OBVIOUS
  <2>1. /\ acc[k] = [item |-> acc[k].item, bits |-> acc[k].bits] /\ acc[k].item \in Items
        /\ sent[acc[k].item] >= 0 /\ acc[k].bits = SaidIn(plan, sent, acc[k].item)
    BY DEF Gathered
  <2>2. ~(i < acc[k].item)
    BY <1>2, <2>1 DEF Gathered
  <2> QED
    BY <1>1, <1>2, <1>3, <2>1, <2>2
<1>6. /\ IsSeq(acc) /\ (\A j, k \in DOMAIN acc : j < k => acc[j].item < acc[k].item)
      /\ \A j \in Items : sent[j] >= 0 /\ (IsCall(j) \/ api = "messages") => \E k \in DOMAIN acc : acc[k].item = j
  BY DEF Gathered
<1>7. CASE NewAccumulator(i)
  <2> DEFINE e == [item |-> i, bits |-> <<>>]
  <2>1. /\ IsSeq(acc') /\ DOMAIN acc' = DOMAIN acc \cup {Len(acc) + 1} /\ acc'[Len(acc) + 1] = e
        /\ \A k \in DOMAIN acc : acc'[k] = acc[k]
    <3> DEFINE a == Append(acc, e)
    <3>1. acc' = a
      BY <1>7 DEF NewAccumulator
    <3>2. /\ IsSeq(a) /\ DOMAIN a = DOMAIN acc \cup {Len(acc) + 1} /\ a[Len(acc) + 1] = e
          /\ \A k \in DOMAIN acc : a[k] = acc[k]
      BY <1>6, AppendIsSeq
    <3> HIDE DEF a
    <3> QED
      BY <3>1, <3>2, Zenon
  <2>2. Len(acc) \in Nat /\ DOMAIN acc = 1..Len(acc)
    BY <1>6, SeqFacts
  <2>3. \A j, k \in DOMAIN acc' : j < k => acc'[j].item < acc'[k].item
    BY <1>5, <1>6, <2>1, <2>2
  <2>4. \A k \in DOMAIN acc' : /\ acc'[k] = [item |-> acc'[k].item, bits |-> acc'[k].bits]
                               /\ acc'[k].item \in Items
                               /\ sent'[acc'[k].item] >= 0 /\ acc'[k].bits = SaidIn(plan', sent', acc'[k].item)
    BY <1>3, <1>5, <2>1
  <2>5. \A j \in Items : sent'[j] >= 0 /\ (IsCall(j) \/ api = "messages") => \E k \in DOMAIN acc' : acc'[k].item = j
    BY <1>3, <1>6, <2>1
  <2> QED
    BY <1>1, <1>2, <1>3, <1>4, <2>1, <2>3, <2>4, <2>5 DEF Gathered
<1>8. CASE api # "messages" /\ ~IsCall(i) /\ UNCHANGED acc
  <2>1. \A j \in Items : sent'[j] >= 0 /\ (IsCall(j) \/ api = "messages") => \E k \in DOMAIN acc : acc[k].item = j
    BY <1>3, <1>6, <1>8
  <2> QED
    BY <1>1, <1>2, <1>3, <1>4, <1>5, <1>6, <1>8, <2>1 DEF Gathered
<1> QED
  BY <1>7, <1>8

\* A bit of item i joins its accumulator; or item i closes.
LEMMA BitKeeps ==
  ASSUME plan \in Plans, Gathered, NEW i \in Items, Moves(i),
         \/ MaySay(i) /\ Accumulate(i, <<i, sent[i] + 1>>)
         \/ MayClose(i) /\ UNCHANGED acc
  PROVE  Gathered'
<1>1. /\ UNCHANGED <<api, plan, finish>> /\ Items' = Items /\ Items = 1..Len(plan) /\ Len(plan) \in Nat
      /\ plan[i].bits \in Nat /\ \A j \in Items : IsCall(j)' = IsCall(j)
  BY PlanFacts, SaidNext DEF Gathered, IsCall
<1>2. sent[i] >= 0 /\ ~Finished'
  <2>1. finish = "" /\ (sent[i] \in 0..(plan[i].bits - 1) \/ sent[i] = plan[i].bits)
    BY DEF MaySay, MayClose
  <2>2. sent[i] >= 0
    <3>1. CASE sent[i] \in 0..(plan[i].bits - 1)
      <4>1. \A b \in Nat : sent[i] \in 0..(b - 1) => sent[i] >= 0
        OBVIOUS
      <4> QED
        BY <1>1, <3>1, <4>1
    <3>2. CASE sent[i] = plan[i].bits
      BY <1>1, <3>2
    <3> QED
      BY <2>1, <3>1, <3>2
  <2>3. finish' = ""
    BY <1>1, <2>1
  <2>4. ~Finished'
    BY <2>3 DEF Finished, WholeReasons
  <2> QED
    BY <2>2, <2>4
<1>3. /\ sent' \in [Items -> Int] /\ sent'[i] = sent[i] + 1
      /\ \A j \in Items : j # i => sent'[j] = sent[j] /\ SaidIn(plan', sent', j) = SaidIn(plan, sent, j)
      /\ sent[i] \in 0..(plan[i].bits - 1) => SaidIn(plan', sent', i) = Append(SaidIn(plan, sent, i), <<i, sent[i] + 1>>)
      /\ sent[i] = plan[i].bits => SaidIn(plan', sent', i) = SaidIn(plan, sent, i)
  <2>1. sent \in [Items -> Int]
    BY DEF Gathered
  <2> QED
    BY <2>1, SaidNext
<1>4. \A j \in Items : sent'[j] >= -1 /\ (sent'[j] >= 0 <=> sent[j] >= 0)
  <2>1. \A j \in Items : sent[j] \in Int /\ sent[j] >= -1
    BY DEF Gathered
  <2> QED
    BY <1>2, <1>3, <2>1
<1>5. /\ IsSeq(acc) /\ (\A j, k \in DOMAIN acc : j < k => acc[j].item < acc[k].item)
      /\ \A j \in Items : sent[j] >= 0 /\ (IsCall(j) \/ api = "messages") => \E k \in DOMAIN acc : acc[k].item = j
  BY DEF Gathered
<1>6. \A k \in DOMAIN acc : /\ acc[k] = [item |-> acc[k].item, bits |-> acc[k].bits]
                            /\ acc[k].item \in Items /\ sent[acc[k].item] >= 0 /\ acc[k].bits = SaidIn(plan, sent, acc[k].item)
  BY DEF Gathered
<1>7. /\ DOMAIN acc' = DOMAIN acc /\ IsSeq(acc')
      /\ \A k \in DOMAIN acc : /\ acc'[k] = [item |-> acc[k].item, bits |-> acc'[k].bits]
                               /\ acc'[k].bits = SaidIn(plan', sent', acc[k].item)
  <2>1. CASE MaySay(i) /\ Accumulate(i, <<i, sent[i] + 1>>)
    <3>1. acc' = [k \in DOMAIN acc |-> Gather(acc[k], i, <<i, sent[i] + 1>>)]
      BY <2>1 DEF Accumulate
    <3>2. IsSeq(acc') /\ DOMAIN acc' = DOMAIN acc
      <4>1. Len(acc) \in Nat /\ DOMAIN acc = 1..Len(acc)
        BY <1>5, SeqFacts
      <4>2. acc' = [k \in 1..Len(acc) |-> acc'[k]]
        BY <3>1, <4>1
      <4> QED
        BY <3>1, <4>1, <4>2, FunctionIsSeq
    <3>3. SaidIn(plan', sent', i) = Append(SaidIn(plan, sent, i), <<i, sent[i] + 1>>)
      BY <1>3, <2>1 DEF MaySay
    <3>4. ASSUME NEW k \in DOMAIN acc
          PROVE  /\ acc'[k] = [item |-> acc[k].item, bits |-> acc'[k].bits]
                 /\ acc'[k].bits = SaidIn(plan', sent', acc[k].item)
      <4> DEFINE e == acc[k]
      <4>1. acc'[k] = Gather(e, i, <<i, sent[i] + 1>>)
        BY <3>1
      <4>2. e = [item |-> e.item, bits |-> e.bits] /\ e.item \in Items /\ e.bits = SaidIn(plan, sent, e.item)
        BY <1>6
      <4>3. CASE e.item = i
        <5>1. acc'[k] = [e EXCEPT !.bits = Append(@, <<i, sent[i] + 1>>)]
          BY <4>1, <4>3 DEF Gather
        <5>2. acc'[k] = [item |-> e.item, bits |-> Append(e.bits, <<i, sent[i] + 1>>)]
          <6> HIDE DEF e
          <6> QED
            BY <4>2, <5>1
        <5> QED
          BY <3>3, <4>2, <4>3, <5>2
      <4>4. CASE e.item # i
        <5>1. acc'[k] = e
          BY <4>1, <4>4 DEF Gather
        <5> QED
          BY <1>3, <4>2, <4>4, <5>1
      <4> QED
        BY <4>3, <4>4
    <3> QED
      BY <3>2, <3>4
  <2>2. CASE MayClose(i) /\ UNCHANGED acc
    BY <1>3, <1>5, <1>6, <2>2 DEF MayClose
  <2> QED
    BY <2>1, <2>2
<1>8. \A k \in DOMAIN acc : acc'[k].item = acc[k].item
  BY <1>7
<1>9. /\ \A j, k \in DOMAIN acc' : j < k => acc'[j].item < acc'[k].item
      /\ \A k \in DOMAIN acc' : /\ acc'[k] = [item |-> acc'[k].item, bits |-> acc'[k].bits]
                                /\ acc'[k].item \in Items
                                /\ sent'[acc'[k].item] >= 0 /\ acc'[k].bits = SaidIn(plan', sent', acc'[k].item)
      /\ \A j \in Items : sent'[j] >= 0 /\ (IsCall(j) \/ api = "messages") => \E k \in DOMAIN acc' : acc'[k].item = j
  BY <1>4, <1>5, <1>6, <1>7, <1>8
<1>10. \A j, k \in Items : j < k /\ sent'[k] >= 0 => sent'[j] >= 0
  BY <1>4 DEF Gathered
<1> QED
  BY <1>1, <1>2, <1>3, <1>4, <1>7, <1>9, <1>10 DEF Gathered

\* The provider ends its answer, or something else is read.
LEMMA EndKeeps ==
  ASSUME Gathered, UNCHANGED <<api, plan, sent, acc>>,
         UNCHANGED finish \/ \E why \in Reasons : MayFinish(why) /\ finish' = why
  PROVE  Gathered'
<1>1. Finished' => \A i \in Items : Closed(i)
  BY DEF Finished, MayFinish, Gathered
<1>2. Items' = Items /\ \A i \in Items : /\ Closed(i)' = Closed(i) /\ IsCall(i)' = IsCall(i) /\ SaidIn(plan', sent', i) = SaidIn(plan, sent, i)
  BY DEF Items, Closed, IsCall, SaidIn
<1> QED
  BY <1>1, <1>2 DEF Gathered

\* A line read, or the end of the body: the reason the provider gave stays, a response is
\* yielded or none is, and a closing one ends the reading.
LEMMA ReadStep ==
  ASSUME StreamIInv, Reading, UNCHANGED <<api, plan>>, finish' \in {""} \cup Reasons,
         finish' = finish \/ finish = "" \/ got = <<>>,
         \/ UNCHANGED got
         \/ \E r : got' = Append(got, r) /\ Accounted(r, finish') /\ (r.flag \in Terminal => pc' = "done")
  PROVE  StreamIInv'
<1>1. finish' \in {""} \cup Reasons'
  BY DEF Reasons, HasCall, IsCall, Items
<1>2. IsSeq(got) /\ \A k \in DOMAIN got : Accounted(got[k], finish) /\ got[k].flag \notin Terminal
  BY DEF StreamIInv, Reading
<1>3. ASSUME NEW k \in DOMAIN got PROVE Accounted(got[k], finish')
  <2>1. got # <<>>
    BY EmptyIsSeq, Zenon
  <2> QED
    BY <1>2, <2>1 DEF Accounted
<1>4. CASE UNCHANGED got
  BY <1>1, <1>2, <1>3, <1>4 DEF StreamIInv
<1>5. CASE \E r : got' = Append(got, r) /\ Accounted(r, finish') /\ (r.flag \in Terminal => pc' = "done")
  <2>1. PICK r : got' = Append(got, r) /\ Accounted(r, finish') /\ (r.flag \in Terminal => pc' = "done")
    BY <1>5
  <2>2. /\ IsSeq(got') /\ Len(got') = Len(got) + 1 /\ DOMAIN got' = DOMAIN got \cup {Len(got) + 1}
        /\ got'[Len(got) + 1] = r /\ \A k \in DOMAIN got : got'[k] = got[k]
    <3> DEFINE a == Append(got, r)
    <3>1. /\ IsSeq(a) /\ Len(a) = Len(got) + 1 /\ DOMAIN a = DOMAIN got \cup {Len(got) + 1}
          /\ a[Len(got) + 1] = r /\ \A k \in DOMAIN got : a[k] = got[k]
      BY <1>2, AppendIsSeq
    <3>2. got' = a
      BY <2>1
    <3> HIDE DEF a
    <3> QED
      BY <3>1, <3>2, Zenon
  <2>3. ASSUME NEW k \in DOMAIN got'
        PROVE  Accounted(got'[k], finish') /\ (got'[k].flag \in Terminal => pc' = "done" /\ k = Len(got'))
    BY <1>2, <1>3, <2>1, <2>2
  <2> QED
    BY <1>1, <2>2, <2>3 DEF StreamIInv
<1> QED
  BY <1>4, <1>5

\* Before anything is yielded.
LEMMA EmptyAnswer ==
  ASSUME got' = <<>>, finish' = ""
  PROVE  StreamIInv'
<1>1. IsSeq(got') /\ DOMAIN got' = {}
  BY EmptyIsSeq, Zenon
<1> QED
  BY <1>1 DEF StreamIInv

\* The provider's reasons, as the adapters translate them: only one for a whole answer is STOP.
LEMMA FinishReasons ==
  ASSUME NEW why \in Reasons
  PROVE  /\ why # ""
         /\ api = "chat" => (ChatFinishReason[why] = "STOP" => why \in WholeReasons)
         /\ api = "responses" => (ResponsesFinishReason[why] = "STOP" => why \in WholeReasons)
         /\ api = "messages" => (MessagesFinishReason[why] = "STOP" => why \in WholeReasons)
<1>1. CASE api = "chat"
  <2>1. why \in {"tool_calls", "stop", "length", "content_filter"}
    BY <1>1 DEF Reasons
  <2>2. ChatFinishReason["length"] = "MAX_TOKENS" /\ ChatFinishReason["content_filter"] = "SAFETY"
    BY DEF ChatFinishReason
  <2> QED
    BY <1>1, <2>1, <2>2 DEF WholeReasons
<1>2. CASE api = "responses"
  <2>1. why \in {"none", "max_output_tokens", "content_filter"}
    BY <1>2 DEF Reasons
  <2>2. /\ ResponsesFinishReason["max_output_tokens"] = "MAX_TOKENS"
        /\ ResponsesFinishReason["content_filter"] = "SAFETY"
    BY DEF ResponsesFinishReason
  <2> QED
    BY <1>2, <2>1, <2>2 DEF WholeReasons
<1>3. CASE api \notin {"chat", "responses"}
  <2>1. why \in {"tool_use", "end_turn", "max_tokens", "refusal"}
    BY <1>3 DEF Reasons
  <2>2. MessagesFinishReason["max_tokens"] = "MAX_TOKENS" /\ MessagesFinishReason["refusal"] = "SAFETY"
    BY DEF MessagesFinishReason
  <2> QED
    BY <1>3, <2>1, <2>2 DEF WholeReasons
<1> QED
  BY <1>1, <1>2, <1>3

-----------------------------------------------------------------------------
(* Each line a parser reads.                                               *)

LEMMA QuietLine ==
  ASSUME StreamIInv, Reading, UNCHANGED <<api, plan, finish>>,
         UNCHANGED got \/ \E parts : got' = Append(got, Delta(parts))
  PROVE  StreamIInv'
<1>1. \A parts : Accounted(Delta(parts), finish') /\ Delta(parts).flag \notin Terminal
  BY DEF Accounted, Delta, Response, Terminal
<1> QED
  BY <1>1, ReadStep DEF StreamIInv

\* The line with the reason; chat yields its calls with it.
LEMMA ReasonLine ==
  ASSUME StreamIInv, Reading, UNCHANGED <<api, plan>>, NEW why \in Reasons, MayFinish(why), finish' = why,
         \/ UNCHANGED got
         \/ api = "chat" /\ \E parts : got' = Append(got, Response("final", parts, ChatFinishReason[why]))
  PROVE  StreamIInv'
<1>1. finish = ""
  BY DEF MayFinish
<1>2. ASSUME api = "chat", NEW parts
      PROVE  LET r == Response("final", parts, ChatFinishReason[why])
             IN  Accounted(r, finish') /\ r.flag \notin Terminal
  BY <1>2, FinishReasons DEF Accounted, Response, Terminal
<1> QED
  BY <1>1, <1>2, ReadStep

\* The closing response, and the reason it gives when it is a complete one.
LEMMA ClosingLine ==
  ASSUME StreamIInv, Reading, UNCHANGED <<api, plan>>, NEW r, YieldLast(r), Accounted(r, finish'),
         finish' \in Reasons \cup {""}, finish' = finish \/ got = <<>>
  PROVE  StreamIInv'
<1>1. UNCHANGED got \/ (got' = Append(got, r) /\ pc' = "done")
  BY DEF YieldLast
<1> QED
  BY <1>1, ReadStep

\* The lines of chat.
LEMMA ChatSteps ==
  ASSUME StreamIInv, Chat
  PROVE  StreamIInv'
<1>1. ASSUME NEW i \in Items, ChatStart(i) \/ ChatBit(i) PROVE StreamIInv'
  BY <1>1, QuietLine DEF ChatStart, ChatBit, Live, Moves, Yield, YieldTo
<1>2. ASSUME NEW why \in Reasons, ChatFinish(why) PROVE StreamIInv'
  BY <1>2, ReasonLine DEF ChatFinish, Live, Yield, YieldTo
<1>3. CASE ChatDone
  <2>1. Accounted(Response("complete", <<>>, ""), finish)
    BY <1>3 DEF ChatDone, Accounted, Response
  <2> QED
    BY <1>3, <2>1, ClosingLine DEF ChatDone, Live, StreamIInv
<1>4. CASE AnswerChat
  <2>1. PICK parts : YieldLast(Response("complete", parts, ChatFinishReason[finish']))
    BY <1>4 DEF AnswerChat
  <2>2. finish' \in Reasons \cap WholeReasons /\ finish' # ""
    BY <1>4, FinishReasons DEF AnswerChat, AllSaid
  <2>3. Accounted(Response("complete", parts, ChatFinishReason[finish']), finish')
    BY <2>2 DEF Accounted
  <2> QED
    BY <1>4, <2>1, <2>2, <2>3, ClosingLine DEF AnswerChat, Live, Unasked
<1> QED
  BY <1>1, <1>2, <1>3, <1>4 DEF Chat

\* The lines of responses.
LEMMA ResponsesSteps ==
  ASSUME StreamIInv, Responses
  PROVE  StreamIInv'
<1>1. ASSUME NEW i \in Items, ItemAdded(i) \/ ResponsesBit(i) \/ ItemDone(i) PROVE StreamIInv'
  BY <1>1, QuietLine DEF ItemAdded, ResponsesBit, ItemDone, Live, Moves, Yield, YieldTo, Silent
<1>2. ASSUME NEW why \in Reasons, ResponseFinished(why) PROVE StreamIInv'
  BY <1>2, ReasonLine DEF ResponseFinished, Live, Silent
<1>3. CASE ResponsesEof
  <2>1. CASE finish # ""
    <3>1. api = "responses" /\ finish \in Reasons
      BY <1>3, <2>1 DEF ResponsesEof, StreamIInv
    <3>2. Accounted(Output, finish)
      BY <2>1, <3>1, FinishReasons DEF Output, Accounted, Response, Error, Finished
    <3> QED
      BY <1>3, <2>1, <3>1, <3>2, ClosingLine DEF ResponsesEof
  <2>2. CASE finish = ""
    BY <1>3, <2>2, QuietLine DEF ResponsesEof
  <2> QED
    BY <2>1, <2>2
<1>4. CASE ResponseFailed
  <2>1. Accounted(Error, finish)
    BY DEF Accounted, Error, Response
  <2> QED
    BY <1>4, <2>1, ClosingLine DEF ResponseFailed, Live, StreamIInv
<1>5. CASE AnswerResponses
  <2>1. finish' \in Reasons \cap WholeReasons /\ finish' # ""
    BY <1>5, FinishReasons DEF AnswerResponses, AllSaid
  <2>2. PICK r : YieldLast(r) /\ Accounted(r, finish')
    BY <1>5, <2>1 DEF AnswerResponses, Accounted
  <2> QED
    BY <1>5, <2>1, <2>2, ClosingLine DEF AnswerResponses, Live, Unasked
<1> QED
  BY <1>1, <1>2, <1>3, <1>4, <1>5 DEF Responses

\* The lines of messages.
LEMMA MessagesSteps ==
  ASSUME StreamIInv, Messages
  PROVE  StreamIInv'
<1>1. ASSUME NEW i \in Items, BlockStart(i) \/ BlockDelta(i) \/ BlockStop(i) PROVE StreamIInv'
  BY <1>1, QuietLine DEF BlockStart, BlockDelta, BlockStop, Live, Moves, YieldUnseen, YieldTo, Silent
<1>2. ASSUME NEW why \in Reasons, MessageDelta(why) PROVE StreamIInv'
  BY <1>2, ReasonLine DEF MessageDelta, Live, Silent
<1>3. CASE MessageStop
  <2>1. api = "messages" /\ finish # "" /\ finish \in Reasons
    BY <1>3 DEF MessageStop, Live, StreamIInv
  <2>2. Accounted(Response("complete", MessageParts, MessagesFinishReason[finish]), finish)
    BY <2>1, FinishReasons DEF Accounted, Response
  <2> QED
    BY <1>3, <2>1, <2>2, ClosingLine DEF MessageStop, Live
<1>4. CASE AnswerMessages
  <2>1. PICK parts : YieldLast(Response("complete", parts, MessagesFinishReason[finish']))
    BY <1>4 DEF AnswerMessages
  <2>2. finish' \in Reasons \cap WholeReasons /\ finish' # ""
    BY <1>4, FinishReasons DEF AnswerMessages, AllSaid
  <2>3. Accounted(Response("complete", parts, MessagesFinishReason[finish']), finish')
    BY <2>2 DEF Accounted
  <2> QED
    BY <1>4, <2>1, <2>2, <2>3, ClosingLine DEF AnswerMessages, Live, Unasked
<1> QED
  BY <1>1, <1>2, <1>3, <1>4 DEF Messages

\* Any line of the three.
LEMMA StreamSteps ==
  ASSUME StreamIInv, Stream
  PROVE  StreamIInv'
<1>1. Accounted(Error, finish) /\ Accounted(Interrupted, finish)
  BY DEF Accounted, Error, Interrupted, Response
<1>2. CASE Broken \/ ReadCancelled
  BY <1>1, <1>2, ClosingLine DEF Broken, ReadCancelled, StreamIInv
<1>3. CASE Eof \/ Cancel
  BY <1>3, QuietLine DEF Eof, Cancel
<1> QED
  BY <1>2, <1>3, ChatSteps, ResponsesSteps, MessagesSteps DEF Stream

-----------------------------------------------------------------------------
(* The conversation.                                                       *)

LEMMA SameStream ==
  ASSUME StreamIInv, UNCHANGED streamVars
  PROVE  StreamIInv'
BY DEF StreamIInv, streamVars, Reasons, HasCall, IsCall, Items

\* An answer is complete only when the provider said so, and is not taken for whole when it
\* was cut: the inductive invariant.
THEOREM StreamInvariant == Spec => []ConvIInv
<1>1. Init => ConvIInv
  BY EmptyIsSeq DEF Init, ConvIInv, StreamIInv
<1>2. ConvIInv /\ [Next]_vars => ConvIInv'
  <2> SUFFICES ASSUME ConvIInv, [Next]_vars PROVE ConvIInv'
    OBVIOUS
  <2>1. CASE Build
    <3>1. StreamIInv'
      BY <2>1, SameStream DEF Build, ConvIInv
    <3>2. UNCHANGED contents /\ (stage' = "send" => request'.cfg \in Configs /\ request'.api \in Apis
            /\ request'.built = RequestOf(request'.api, contents, request'.cfg))
      BY <2>1 DEF Build
    <3> QED
      BY <3>1, <3>2 DEF ConvIInv
  <2>2. CASE Send
    <3>1. StreamIInv'
      BY <2>2, SameStream, EmptyAnswer DEF Send, Begin, ConvIInv
    <3>2. stage' # "send"
      BY <2>2 DEF Send
    <3> QED
      BY <3>1, <3>2 DEF ConvIInv
  <2>3. CASE Consume
    BY <2>3, StreamSteps DEF Consume, ConvIInv, convVars
  <2>4. CASE RunTools
    <3>1. stage' # "send"
      BY <2>4 DEF RunTools
    <3> QED
      BY <2>4, <3>1, EmptyAnswer DEF RunTools, ConvIInv
  <2>5. CASE GiveUp
    BY <2>5, SameStream DEF GiveUp, ConvIInv
  <2>6. CASE UNCHANGED vars
    BY <2>6, SameStream DEF vars, convVars, ConvIInv
  <2> QED
    BY <2>1, <2>2, <2>3, <2>4, <2>5, <2>6 DEF Next
<1> QED
  BY <1>1, <1>2, PTL DEF Spec

\* Only an answer whose end the provider announced is reported complete, and one that was cut
\* never says STOP (the ends of the three stream parsers).
THEOREM CutAnswersAreNotComplete == Spec => []TruncatedIsNotComplete
<1>1. ConvIInv => TruncatedIsNotComplete
  BY DEF ConvIInv, StreamIInv, TruncatedIsNotComplete, Completed, Accounted, Terminal, Finished
<1> QED
  BY <1>1, StreamInvariant, PTL

\* Under no configuration does a request let the model call what the caller did not allow, where
\* the adapter forwards the names (the tool configs of the three translators).
THEOREM OffersAreRestricted == Spec => []OfferIsRestricted
<1>1. ConvIInv => OfferIsRestricted
  <2> SUFFICES ASSUME ConvIInv, stage = "send" PROVE OfferIsRestricted
    BY DEF OfferIsRestricted
  <2> DEFINE cfg == request.cfg
             r == request.built
  <2>1. cfg \in Configs /\ request.api \in Apis /\ r = RequestOf(request.api, contents, cfg)
    BY DEF ConvIInv
  <2>2. IsFiniteSet(cfg.allowed) /\ (cfg.allowed # {} => Cardinality(cfg.allowed) # 0)
        /\ Cardinality(cfg.allowed) \in Nat
    BY <2>1, ConfigsAssumption, FS_EmptySet, FS_CardinalityType
  <2>3. CASE request.api = "chat"
    <3>1. r.choice = ChatToolChoice(cfg)
      BY <2>1, <2>3 DEF RequestOf, BuildChatRequest
    <3> QED
      BY <2>3, <3>1 DEF OfferIsRestricted, Callable, ChatToolChoice
  <2>4. CASE request.api = "responses"
    <3>1. r.choice = ResponsesToolChoice(cfg)
      BY <2>1, <2>4 DEF RequestOf, BuildResponsesRequest
    <3> QED
      BY <2>4, <3>1 DEF OfferIsRestricted, Callable, ResponsesToolChoice
  <2>5. CASE request.api = "messages"
    <3>1. r.choice = MessagesToolChoice(cfg) /\ r.tools = Declared(cfg)
      BY <2>1, <2>5 DEF RequestOf, BuildMessageRequest
    <3> QED
      BY <2>2, <2>5, <3>1 DEF OfferIsRestricted, Callable, MessagesToolChoice, Declared
  <2> QED
    BY <2>1, <2>3, <2>4, <2>5, ConfigsAssumption
<1> QED
  BY <1>1, StreamInvariant, PTL

-----------------------------------------------------------------------------
(* A response yielded.                                                     *)

LEMMA DeltasAreNotKept == \A parts : Delta(parts).flag = "delta"
BY DEF Delta, Response

\* No parts, no calls.
LEMMA NoPartsAreGood == ASSUME NEW p PROVE GoodParts(p, <<>>)
BY EmptyIsSeq DEF GoodParts, CallPlaces

\* As long as the parser reads, nothing is complete.
LEMMA NotComplete ==
  ASSUME StreamIInv, Reading
  PROVE  ~Completed /\ IsSeq(got) /\ \A k \in DOMAIN got : got[k].flag \notin Terminal
BY DEF StreamIInv, Reading, Completed, Terminal

\* Nothing is yielded, or something that is not kept.
LEMMA NothingKept ==
  ASSUME StreamIInv, Answered, Reading, UNCHANGED <<api, plan>>,
         finish' = finish \/ api # "chat" \/ ~Reading',
         \/ UNCHANGED got
         \/ \E r : got' = Append(got, r) /\ r.flag \notin {"final", "complete"}
  PROVE  Answered'
<1>1. ~Completed /\ IsSeq(got)
  BY NotComplete
<1>2. KeptPlaces' = KeptPlaces /\ ~Completed' /\ \A k \in KeptPlaces : k \in DOMAIN got /\ got'[k] = got[k]
  <2>1. CASE UNCHANGED got
    BY <1>1, <2>1 DEF KeptPlaces, Completed
  <2>2. CASE \E r : got' = Append(got, r) /\ r.flag \notin {"final", "complete"}
    <3>1. PICK r : got' = Append(got, r) /\ r.flag \notin {"final", "complete"}
      BY <2>2
    <3> DEFINE a == Append(got, r)
    <3>2. DOMAIN a = DOMAIN got \cup {Len(got) + 1} /\ a[Len(got) + 1] = r /\ \A k \in DOMAIN got : a[k] = got[k]
      BY <1>1, AppendIsSeq
    <3>3. got' = a
      BY <3>1
    <3> HIDE DEF a
    <3>4. DOMAIN got' = DOMAIN got \cup {Len(got) + 1} /\ got'[Len(got) + 1] = r /\ \A k \in DOMAIN got : got'[k] = got[k]
      BY <3>2, <3>3, Zenon
    <3> QED
      BY <1>1, <3>1, <3>4 DEF KeptPlaces, Completed
  <2> QED
    BY <2>1, <2>2
<1>3. ASSUME Reading', NEW k \in KeptPlaces'
      PROVE  got'[k].flag = "final" /\ api' = "chat" /\ finish' # ""
  BY <1>2, <1>3 DEF Answered
<1>4. ASSUME Reading', api' = "chat", Finished'
      PROVE  \E k \in KeptPlaces' : HasAll(plan', got'[k].parts)
  <2>1. Finished
    BY <1>4 DEF Finished
  <2>2. PICK k \in KeptPlaces : HasAll(plan, got[k].parts)
    BY <1>4, <2>1 DEF Answered
  <2> QED
    BY <1>2, <2>2
<1>5. \A k \in KeptPlaces' : GoodParts(plan', got'[k].parts)
  BY <1>2 DEF Answered
<1>6. \A k, m \in KeptPlaces' : k # m => got'[k].parts = <<>> \/ got'[m].parts = <<>>
  <2>1. \A k, m \in KeptPlaces : k # m => got[k].parts = <<>> \/ got[m].parts = <<>>
    BY DEF Answered
  <2> QED
    BY <1>2, <2>1, Zenon
<1> QED
  BY <1>2, <1>3, <1>4, <1>5, <1>6 DEF Answered

\* A response is kept.
LEMMA OneKept ==
  ASSUME StreamIInv, Answered, Reading, UNCHANGED <<api, plan>>,
         NEW r, got' = Append(got, r), r.flag \in {"final", "complete"},
         GoodParts(plan, r.parts),
         KeptPlaces = {} \/ r.parts = <<>>,
         Reading' => r.flag = "final" /\ api = "chat" /\ finish' # "",
         Finished' => HasAll(plan, r.parts) \/ (\E k \in KeptPlaces : HasAll(plan, got[k].parts))
  PROVE  Answered'
<1>1. IsSeq(got) /\ Len(got) + 1 \notin DOMAIN got
  BY AppendIsSeq DEF StreamIInv
<1> DEFINE a == Append(got, r)
           n == Len(got) + 1
<1>2. DOMAIN a = DOMAIN got \cup {n} /\ a[n] = r /\ \A k \in DOMAIN got : a[k] = got[k]
  BY <1>1, AppendIsSeq
<1>3. got' = a
  OBVIOUS
<1> HIDE DEF a
<1>4. DOMAIN got' = DOMAIN got \cup {n} /\ got'[n] = r /\ \A k \in DOMAIN got : got'[k] = got[k]
  BY <1>2, <1>3, Zenon
<1> HIDE DEF n
<1>5. /\ KeptPlaces' = KeptPlaces \cup {n} /\ got'[n] = r
      /\ \A k \in KeptPlaces : got'[k] = got[k]
  BY <1>4 DEF KeptPlaces
<1>6. \A k \in KeptPlaces' : GoodParts(plan', got'[k].parts)
  BY <1>5 DEF Answered
<1>7. ASSUME NEW k \in KeptPlaces', NEW m \in KeptPlaces', k # m
      PROVE  got'[k].parts = <<>> \/ got'[m].parts = <<>>
  <2>1. \A x, y \in KeptPlaces : x # y => got[x].parts = <<>> \/ got[y].parts = <<>>
    BY DEF Answered
  <2>2. CASE k = n \/ m = n
    <3>1. r.parts = <<>> \/ k = m
      BY <1>5, <2>2
    <3> QED
      BY <1>5, <1>7, <2>2, <3>1
  <2>3. CASE k # n /\ m # n
    <3>1. k \in KeptPlaces /\ m \in KeptPlaces
      BY <1>5, <2>3
    <3> QED
      BY <1>5, <1>7, <2>1, <3>1
  <2> QED
    BY <2>2, <2>3
<1>8. ASSUME Reading', NEW k \in KeptPlaces'
      PROVE  got'[k].flag = "final" /\ api' = "chat" /\ finish' # ""
  BY <1>5, <1>8 DEF Answered
<1>9. ASSUME Finished' PROVE \E k \in KeptPlaces' : HasAll(plan', got'[k].parts)
  BY <1>5, <1>9
<1> QED
  BY <1>6, <1>7, <1>8, <1>9 DEF Answered

\* The closing response is a complete one, if the consumer does not make the runtime panic.
LEMMA LastKept ==
  ASSUME StreamIInv, Answered, Reading, UNCHANGED <<api, plan>>,
         NEW parts, NEW reason, YieldLast(Response("complete", parts, reason)),
         GoodParts(plan, parts),
         KeptPlaces = {} \/ parts = <<>>,
         Finished' => HasAll(plan, parts) \/ (\E k \in KeptPlaces : HasAll(plan, got[k].parts))
  PROVE  Answered'
<1> DEFINE r == Response("complete", parts, reason)
<1>1. r.flag = "complete" /\ r.parts = parts
  BY DEF Response
<1>2. ~Reading'
  BY DEF YieldLast, Reading
<1>3. UNCHANGED got \/ got' = Append(got, r)
  BY DEF YieldLast
<1> HIDE DEF r
<1>4. CASE UNCHANGED got
  BY <1>2, <1>4, NothingKept
<1>5. CASE got' = Append(got, r)
  BY <1>1, <1>2, <1>5, OneKept
<1> QED
  BY <1>3, <1>4, <1>5

\* The parts of an error or an interruption are not kept.
LEMMA LastNotKept ==
  ASSUME StreamIInv, Answered, Reading, UNCHANGED <<api, plan>>,
         NEW r, YieldLast(r), r.flag \notin {"final", "complete"}
  PROVE  Answered'
<1>1. ~Reading'
  BY DEF YieldLast, Reading
<1>2. UNCHANGED got \/ got' = Append(got, r)
  BY DEF YieldLast
<1> QED
  BY <1>1, <1>2, NothingKept

\* An unstreamed answer, when nothing has been read yet.
LEMMA UnaskedHasNothing ==
  ASSUME Unasked
  PROVE  KeptPlaces = {}
BY EmptyIsSeq DEF Unasked, KeptPlaces

\* The calls over the lines of chat.
LEMMA ChatCallSteps ==
  ASSUME StreamIInv, CallsIInv, Chat
  PROVE  CallsIInv'
<1>1. ASSUME NEW i \in Items, ChatStart(i) PROVE CallsIInv'
  <2>1. Reading /\ plan \in Plans /\ Gathered /\ UNCHANGED <<api, plan, finish>>
    BY <1>1 DEF ChatStart, Live, CallsIInv, Moves
  <2>2. Gathered'
    BY <1>1, <2>1, StartKeeps DEF ChatStart, Live
  <2>3. UNCHANGED got \/ \E r : got' = Append(got, r) /\ r.flag \notin {"final", "complete"}
    <3>1. PICK r : Yield(r) /\ r.flag \notin {"final", "complete"}
      BY <1>1, DeltasAreNotKept DEF ChatStart
    <3> QED
      BY <3>1 DEF Yield, YieldTo
  <2>4. Answered'
    BY <2>1, <2>3, NothingKept DEF CallsIInv
  <2> QED
    BY <2>1, <2>2, <2>4 DEF CallsIInv
<1>2. ASSUME NEW i \in Items, ChatBit(i) PROVE CallsIInv'
  <2>1. Reading /\ plan \in Plans /\ Gathered /\ UNCHANGED <<api, plan, finish>>
    BY <1>2 DEF ChatBit, Live, CallsIInv, Moves
  <2>2. Gathered'
    BY <1>2, <2>1, BitKeeps DEF ChatBit
  <2>3. UNCHANGED got \/ \E r : got' = Append(got, r) /\ r.flag \notin {"final", "complete"}
    <3>1. PICK r : Yield(r) /\ r.flag \notin {"final", "complete"}
      BY <1>2, DeltasAreNotKept DEF ChatBit
    <3> QED
      BY <3>1 DEF Yield, YieldTo
  <2>4. Answered'
    BY <2>1, <2>3, NothingKept DEF CallsIInv
  <2> QED
    BY <2>1, <2>2, <2>4 DEF CallsIInv
<1>3. ASSUME NEW why \in Reasons, ChatFinish(why) PROVE CallsIInv'
  <2>1. Reading /\ plan \in Plans /\ Gathered /\ UNCHANGED <<api, plan, sent, acc>> /\ api = "chat"
    BY <1>3 DEF ChatFinish, Live, CallsIInv
  <2>2. finish = "" /\ finish' = why /\ why # ""
    BY <1>3, FinishReasons DEF ChatFinish, MayFinish
  <2>3. Gathered'
    BY <1>3, <2>1, EndKeeps DEF ChatFinish
  <2>4. KeptPlaces = {}
    BY <2>1, <2>2 DEF CallsIInv, Answered
  <2>5. Finished' => HasAll(plan, ChatCalls)
    BY <1>3, <2>1, <2>2, ChatCallsAreGood DEF ChatFinish, MayFinish, Finished
  <2> DEFINE r == Response("final", ChatCalls, ChatFinishReason[why])
  <2>6. r.flag = "final" /\ r.parts = ChatCalls
    BY DEF Response
  <2>7. (UNCHANGED got /\ ~Reading') \/ got' = Append(got, r)
    BY <1>3 DEF ChatFinish, Yield, YieldTo, Reading
  <2> HIDE DEF r
  <2>8. Answered'
    <3>1. CASE UNCHANGED got /\ ~Reading'
      BY <2>1, <3>1, NothingKept DEF CallsIInv
    <3>2. CASE got' = Append(got, r)
      BY <2>1, <2>2, <2>4, <2>5, <2>6, <3>2, OneKept, ChatCallsAreGood DEF CallsIInv
    <3> QED
      BY <2>7, <3>1, <3>2
  <2> QED
    BY <2>1, <2>3, <2>8 DEF CallsIInv
<1>4. CASE ChatDone
  <2>1. Reading /\ UNCHANGED <<api, plan, finish>> /\ api = "chat" /\ YieldLast(Response("complete", <<>>, ""))
    BY <1>4 DEF ChatDone, Live
  <2>2. Finished' => \E k \in KeptPlaces : HasAll(plan, got[k].parts)
    BY <2>1 DEF CallsIInv, Answered, Finished
  <2>3. Answered'
    BY <2>1, <2>2, NoPartsAreGood, LastKept DEF CallsIInv
  <2>4. ~Reading'
    BY <2>1 DEF YieldLast, Reading
  <2> QED
    BY <2>3, <2>4 DEF CallsIInv
<1>5. CASE AnswerChat
  <2> DEFINE all == [i \in Items |-> WholePart(i)]
             calls == {i \in Items : IsCall(i)}
             parts == Sift(all, Items \ calls) \o Sift(all, calls)
  <2>1. /\ Reading /\ plan \in Plans /\ UNCHANGED <<api, plan>> /\ Unasked
        /\ YieldLast(Response("complete", parts, ChatFinishReason[finish']))
    BY <1>5 DEF AnswerChat, Live, CallsIInv
  <2>2. GoodParts(plan, parts) /\ HasAll(plan, parts)
    BY <2>1, ChatAnswerIsGood
  <2> HIDE DEF parts
  <2>3. Answered'
    BY <2>1, <2>2, UnaskedHasNothing, LastKept DEF CallsIInv
  <2>4. ~Reading'
    BY <2>1 DEF YieldLast, Reading
  <2> QED
    BY <2>3, <2>4 DEF CallsIInv
<1> QED
  BY <1>1, <1>2, <1>3, <1>4, <1>5 DEF Chat

\* The calls over the lines of responses.
LEMMA ResponsesCallSteps ==
  ASSUME StreamIInv, CallsIInv, Responses
  PROVE  CallsIInv'
<1>1. ASSUME NEW i \in Items, ItemAdded(i) \/ ResponsesBit(i) \/ ItemDone(i) PROVE CallsIInv'
  <2>1. Reading /\ plan \in Plans /\ Gathered /\ UNCHANGED <<api, plan, finish>> /\ api = "responses"
    BY <1>1 DEF ItemAdded, ResponsesBit, ItemDone, Live, CallsIInv, Moves
  <2>2. Gathered'
    <3>1. CASE ItemAdded(i)
      BY <2>1, <3>1, StartKeeps DEF ItemAdded
    <3>2. CASE ResponsesBit(i)
      BY <2>1, <3>2, BitKeeps DEF ResponsesBit
    <3>3. CASE ItemDone(i)
      BY <2>1, <3>3, BitKeeps DEF ItemDone
    <3> QED
      BY <1>1, <3>1, <3>2, <3>3
  <2>3. UNCHANGED got \/ \E r : got' = Append(got, r) /\ r.flag \notin {"final", "complete"}
    <3>1. Silent \/ \E r : Yield(r) /\ r.flag \notin {"final", "complete"}
      BY <1>1, DeltasAreNotKept DEF ItemAdded, ResponsesBit, ItemDone
    <3> QED
      BY <3>1 DEF Silent, Yield, YieldTo
  <2>4. Answered'
    BY <2>1, <2>3, NothingKept DEF CallsIInv
  <2> QED
    BY <2>1, <2>2, <2>4 DEF CallsIInv
<1>2. ASSUME NEW why \in Reasons, ResponseFinished(why) PROVE CallsIInv'
  <2>1. Reading /\ plan \in Plans /\ Gathered /\ UNCHANGED <<api, plan, sent, acc, got>> /\ api = "responses"
    BY <1>2 DEF ResponseFinished, Live, CallsIInv, Silent
  <2>2. Gathered'
    BY <1>2, <2>1, EndKeeps DEF ResponseFinished
  <2>3. Answered'
    BY <2>1, NothingKept DEF CallsIInv
  <2> QED
    BY <2>1, <2>2, <2>3 DEF CallsIInv
<1>3. CASE ResponsesEof
  <2>1. Reading /\ plan \in Plans /\ Gathered /\ UNCHANGED <<api, plan, finish>> /\ api = "responses"
    BY <1>3 DEF ResponsesEof, CallsIInv
  <2>2. ~Reading'
    BY <1>3 DEF ResponsesEof, YieldLast, Reading
  <2>3. CASE finish = ""
    BY <1>3, <2>1, <2>2, <2>3, NothingKept DEF ResponsesEof, CallsIInv
  <2>4. CASE finish # "" /\ OutputRefused
    <3>1. YieldLast(Error) /\ Error.flag = "error"
      BY <1>3, <2>4 DEF ResponsesEof, Output, Error, Response
    <3>2. Answered'
      BY <2>1, <3>1, LastNotKept DEF CallsIInv
    <3> QED
      BY <2>2, <3>2 DEF CallsIInv
  <2>5. CASE finish # "" /\ ~OutputRefused
    <3>1. YieldLast(Response("complete", OutputParts, ResponsesFinishReason[finish]))
      BY <1>3, <2>5 DEF ResponsesEof, Output
    <3>2. KeptPlaces = {}
      BY <2>1 DEF CallsIInv, Answered
    <3>3. Finished' => HasAll(plan, OutputParts)
      BY <2>1, OutputPartsAreGood DEF Gathered, Finished
    <3>4. Answered'
      BY <2>1, <3>1, <3>2, <3>3, OutputPartsAreGood, LastKept DEF CallsIInv
    <3> QED
      BY <2>2, <3>4 DEF CallsIInv
  <2> QED
    BY <2>2, <2>3, <2>4, <2>5 DEF CallsIInv
<1>4. CASE ResponseFailed
  <2>1. Reading /\ UNCHANGED <<api, plan>> /\ YieldLast(Error) /\ Error.flag = "error"
    BY <1>4 DEF ResponseFailed, Live, Error, Response
  <2>2. Answered' /\ ~Reading'
    BY <2>1, LastNotKept DEF CallsIInv, YieldLast, Reading
  <2> QED
    BY <2>2 DEF CallsIInv
<1>5. CASE AnswerResponses
  <2> DEFINE parts == [i \in Items |-> WholePart(i)]
  <2>1. Reading /\ plan \in Plans /\ UNCHANGED <<api, plan>> /\ Unasked
    BY <1>5 DEF AnswerResponses, Live, CallsIInv
  <2>2. (YieldLast(Error) /\ Error.flag = "error") \/ YieldLast(Response("complete", parts, "STOP"))
    BY <1>5 DEF AnswerResponses, Error, Response
  <2>3. GoodParts(plan, parts) /\ HasAll(plan, parts)
    BY <2>1, WholePartsAreGood
  <2> HIDE DEF parts
  <2>4. Answered'
    BY <2>1, <2>2, <2>3, UnaskedHasNothing, LastKept, LastNotKept DEF CallsIInv
  <2>5. ~Reading'
    BY <2>2 DEF YieldLast, Reading
  <2> QED
    BY <2>4, <2>5 DEF CallsIInv
<1> QED
  BY <1>1, <1>2, <1>3, <1>4, <1>5 DEF Responses

\* The calls over the lines of messages.
LEMMA MessagesCallSteps ==
  ASSUME StreamIInv, CallsIInv, Messages
  PROVE  CallsIInv'
<1>1. ASSUME NEW i \in Items, BlockStart(i) \/ BlockDelta(i) \/ BlockStop(i) PROVE CallsIInv'
  <2>1. Reading /\ plan \in Plans /\ Gathered /\ UNCHANGED <<api, plan, finish>> /\ api = "messages"
    BY <1>1 DEF BlockStart, BlockDelta, BlockStop, Live, CallsIInv, Moves
  <2>2. Gathered'
    <3>1. CASE BlockStart(i)
      BY <2>1, <3>1, StartKeeps DEF BlockStart
    <3>2. CASE BlockDelta(i)
      BY <2>1, <3>2, BitKeeps DEF BlockDelta
    <3>3. CASE BlockStop(i)
      BY <2>1, <3>3, BitKeeps DEF BlockStop
    <3> QED
      BY <1>1, <3>1, <3>2, <3>3
  <2>3. UNCHANGED got \/ \E r : got' = Append(got, r) /\ r.flag \notin {"final", "complete"}
    <3>1. Silent \/ \E r : YieldUnseen(r) /\ r.flag \notin {"final", "complete"}
      BY <1>1, DeltasAreNotKept DEF BlockStart, BlockDelta, BlockStop
    <3> QED
      BY <3>1 DEF Silent, YieldUnseen, YieldTo
  <2>4. Answered'
    BY <2>1, <2>3, NothingKept DEF CallsIInv
  <2> QED
    BY <2>1, <2>2, <2>4 DEF CallsIInv
<1>2. ASSUME NEW why \in Reasons, MessageDelta(why) PROVE CallsIInv'
  <2>1. Reading /\ plan \in Plans /\ Gathered /\ UNCHANGED <<api, plan, sent, acc, got>> /\ api = "messages"
    BY <1>2 DEF MessageDelta, Live, CallsIInv, Silent
  <2>2. Gathered'
    BY <1>2, <2>1, EndKeeps DEF MessageDelta
  <2>3. Answered'
    BY <2>1, NothingKept DEF CallsIInv
  <2> QED
    BY <2>1, <2>2, <2>3 DEF CallsIInv
<1>3. CASE MessageStop
  <2>1. /\ Reading /\ plan \in Plans /\ Gathered /\ UNCHANGED <<api, plan, finish>> /\ api = "messages"
        /\ YieldLast(Response("complete", MessageParts, MessagesFinishReason[finish]))
    BY <1>3 DEF MessageStop, Live, CallsIInv
  <2>2. KeptPlaces = {}
    BY <2>1 DEF CallsIInv, Answered
  <2>3. Finished' => HasAll(plan, MessageParts)
    BY <2>1, MessagePartsAreGood DEF Gathered, Finished
  <2>4. Answered'
    BY <2>1, <2>2, <2>3, MessagePartsAreGood, LastKept DEF CallsIInv
  <2>5. ~Reading'
    BY <2>1 DEF YieldLast, Reading
  <2> QED
    BY <2>4, <2>5 DEF CallsIInv
<1>4. CASE AnswerMessages
  <2> DEFINE parts == [i \in Items |-> WholePart(i)]
  <2>1. /\ Reading /\ plan \in Plans /\ UNCHANGED <<api, plan>> /\ Unasked
        /\ YieldLast(Response("complete", parts, MessagesFinishReason[finish']))
    BY <1>4 DEF AnswerMessages, Live, CallsIInv
  <2>2. GoodParts(plan, parts) /\ HasAll(plan, parts)
    BY <2>1, WholePartsAreGood
  <2> HIDE DEF parts
  <2>3. Answered' /\ ~Reading'
    BY <2>1, <2>2, UnaskedHasNothing, LastKept DEF CallsIInv, YieldLast, Reading
  <2> QED
    BY <2>3 DEF CallsIInv
<1> QED
  BY <1>1, <1>2, <1>3, <1>4 DEF Messages

\* The calls over any line.
LEMMA StreamCallSteps ==
  ASSUME StreamIInv, CallsIInv, Stream
  PROVE  CallsIInv'
<1>1. CASE Broken \/ ReadCancelled
  <2>1. Error.flag = "error" /\ Interrupted.flag = "interrupted"
    BY DEF Error, Interrupted, Response
  <2>2. PICK r : Reading /\ UNCHANGED <<api, plan>> /\ YieldLast(r) /\ r.flag \notin {"final", "complete"}
    BY <1>1, <2>1 DEF Broken, ReadCancelled
  <2>3. Answered' /\ ~Reading'
    BY <2>2, LastNotKept DEF CallsIInv, YieldLast, Reading
  <2> QED
    BY <2>3 DEF CallsIInv
<1>2. CASE Eof \/ Cancel
  <2>1. Reading /\ UNCHANGED <<api, plan, sent, finish, acc, got>>
    BY <1>2 DEF Eof, Cancel
  <2>2. Answered' /\ Gathered' /\ plan' \in Plans
    BY <2>1, NothingKept, EndKeeps DEF CallsIInv
  <2> QED
    BY <2>2 DEF CallsIInv
<1> QED
  BY <1>1, <1>2, ChatCallSteps, ResponsesCallSteps, MessagesCallSteps DEF Stream

\* The conversation leaves the answer alone, or begins a new one.
LEMMA SameAnswer ==
  ASSUME CallsIInv, UNCHANGED streamVars
  PROVE  CallsIInv'
<1>1. UNCHANGED <<api, plan, sent, finish, acc, got, pc>>
  BY DEF streamVars
<1>2. /\ KeptPlaces' = KeptPlaces /\ (Reading' <=> Reading) /\ (Completed' <=> Completed)
      /\ (Finished' <=> Finished)
  BY <1>1 DEF KeptPlaces, Reading, Completed, Finished
<1>3. Answered'
  BY <1>1, <1>2 DEF CallsIInv, Answered
<1>4. Reading => Gathered'
  BY <1>1, EndKeeps DEF CallsIInv
<1> QED
  BY <1>1, <1>2, <1>3, <1>4 DEF CallsIInv

\* No answer yet.
LEMMA NoAnswer ==
  ASSUME got' = <<>>
  PROVE  KeptPlaces' = {} /\ ~Completed'
BY EmptyIsSeq DEF KeptPlaces, Completed

\* What a parser gathered is what was said, item by item, and what it handed over holds it
\* (accumulatedToolCall and its order, the item ids of responses, blockAcc).
THEOREM CallsInvariant == Spec => [](StreamIInv /\ CallsIInv)
<1>1. Init => CallsIInv
  <2> SUFFICES ASSUME Init PROVE CallsIInv
    OBVIOUS
  <2>1. KeptPlaces = {} /\ ~Completed /\ ~Reading
    BY EmptyIsSeq DEF Init, KeptPlaces, Completed, Reading
  <2> QED
    BY <2>1 DEF CallsIInv, Answered
<1>2. StreamIInv /\ CallsIInv /\ [Next]_vars => CallsIInv'
  <2> SUFFICES ASSUME StreamIInv, CallsIInv, [Next]_vars PROVE CallsIInv'
    OBVIOUS
  <2>1. CASE Consume
    BY <2>1, StreamCallSteps DEF Consume
  <2>2. CASE Build \/ GiveUp \/ UNCHANGED vars
    BY <2>2, SameAnswer DEF Build, GiveUp, vars
  <2>3. CASE Send
    <3>1. CASE UNCHANGED streamVars
      BY <3>1, SameAnswer
    <3>2. CASE \E p \in Plans : Begin(request.api, p)
      <4>1. PICK p \in Plans : Begin(request.api, p)
        BY <3>2
      <4>2. /\ plan' = p /\ sent' = [i \in DOMAIN p |-> -1] /\ finish' = "" /\ acc' = <<>> /\ got' = <<>>
        BY <4>1 DEF Begin
      <4>3. Answered'
        BY <4>2, NoAnswer DEF Answered, Finished, WholeReasons
      <4>4. IsSeq(acc') /\ DOMAIN acc' = {}
        BY <4>2, EmptyIsSeq, Zenon
      <4>5. Gathered'
        <5>1. /\ Items' = DOMAIN p /\ sent' \in [DOMAIN p -> Int] /\ \A i \in DOMAIN p : sent'[i] = -1
          <6>1. Items' = DOMAIN p
            BY <4>2 DEF Items
          <6>2. sent' = [i \in DOMAIN p |-> -1]
            BY <4>2, Zenon
          <6>3. -1 \in Int
            OBVIOUS
          <6> QED
            BY <6>1, <6>2, <6>3
        <5>2. ~Finished'
          BY <4>2 DEF Finished, WholeReasons
        <5> QED
          BY <4>4, <5>1, <5>2 DEF Gathered
      <4> QED
        BY <4>1, <4>2, <4>3, <4>5 DEF CallsIInv
    <3> QED
      BY <2>3, <3>1, <3>2 DEF Send
  <2>4. CASE RunTools
    <3>1. got' = <<>> /\ pc' = "idle"
      BY <2>4 DEF RunTools
    <3>2. ~Reading'
      BY <3>1 DEF Reading
    <3> QED
      BY <3>1, <3>2, NoAnswer DEF CallsIInv, Answered
  <2> QED
    BY <2>1, <2>2, <2>3, <2>4 DEF Next
<1>3. ConvIInv => StreamIInv
  BY DEF ConvIInv
<1> QED
  BY <1>1, <1>2, <1>3, StreamInvariant, PTL DEF Spec

\* However the fragments of parallel calls interleave, every call arrives once, in order, whole
\* or without its arguments, and none is missing from an answer that came to its end
\* (accumulatedToolCall, the final object of the responses API, blockAcc).
THEOREM CallsAlwaysArriveWhole == Spec => []CallsArriveWhole
<1>1. StreamIInv /\ CallsIInv => CallsArriveWhole
  <2> SUFFICES ASSUME StreamIInv, CallsIInv PROVE CallsArriveWhole
    OBVIOUS
  <2>1. \A a \in KeptCalls : /\ a[1] \in KeptPlaces /\ a[1] \in DOMAIN got /\ a[2] \in CallPlaces(got[a[1]].parts)
                             /\ got[a[1]].parts # <<>> /\ CallAt(a) = got[a[1]].parts[a[2]]
    BY EmptyIsSeq DEF KeptCalls, KeptPlaces, CallPlaces, CallAt
  <2>2. \A k \in DOMAIN got : k \in Nat
    <3>1. Len(got) \in Nat /\ DOMAIN got = 1..Len(got)
      BY SeqFacts DEF StreamIInv
    <3> QED
      BY <3>1
  <2>3. ASSUME NEW a \in KeptCalls, NEW b \in KeptCalls, Before(a, b)
        PROVE  CallAt(a).item < CallAt(b).item
    <3>1. a[1] = b[1]
      BY <2>1 DEF CallsIInv, Answered
    <3>2. a[2] < b[2]
      BY <2>1, <2>2, <2>3, <3>1 DEF Before
    <3> QED
      BY <2>1, <3>1, <3>2 DEF CallsIInv, Answered, GoodParts
  <2>4. ASSUME NEW a \in KeptCalls
        PROVE  CallAt(a).bits \in {Bits(CallAt(a).item, plan[CallAt(a).item].bits), <<>>, NilArgs}
    BY <2>1 DEF CallsIInv, Answered, GoodParts
  <2>5. ASSUME Completed, Finished, NEW i \in Items, IsCall(i), plan[i].json
        PROVE  \E a \in KeptCalls : CallAt(a).item = i /\ CallAt(a).bits = Bits(i, plan[i].bits)
    <3>1. PICK k \in KeptPlaces : HasAll(plan, got[k].parts)
      BY <2>5 DEF CallsIInv, Answered
    <3>2. PICK j \in CallPlaces(got[k].parts) :
            got[k].parts[j].item = i /\ got[k].parts[j].bits = Bits(i, plan[i].bits)
      BY <2>5, <3>1 DEF HasAll, Items, IsCall
    <3>3. <<k, j>> \in KeptCalls /\ CallAt(<<k, j>>) = got[k].parts[j]
      BY DEF KeptCalls, CallAt
    <3> QED
      BY <3>2, <3>3
  <2> QED
    BY <2>3, <2>4, <2>5 DEF CallsArriveWhole
<1> QED
  BY <1>1, CallsInvariant, PTL

Pairs == Nat \X Nat
ShownText == TextIn(got, {"delta"})
KeptText == TextIn(got, {"final", "complete"})
HasDelta == \E k \in DOMAIN got : got[k].flag = "delta"

\* What is shown of the text while it is said, and what is repeated of it at the end.
Heard ==
  /\ \A k \in DOMAIN got : TextOf(got[k].parts) \in Seq(Pairs)
  /\ IsPrefix(ShownText, SaidText)
  /\ Reading \/ (pc # "panicked" /\ HasDelta) => ShownText = SaidText
  /\ Reading => KeptText = <<>>
  /\ Completed /\ (api # "chat" \/ ~HasDelta) => KeptText = SaidText

\* Items are said in order, but for the calls, and messages keeps all of them in order.
InTurn ==
  /\ \A i, j \in Items : i < j /\ sent[j] >= 0 => Closed(i) \/ IsCall(i)
  /\ api = "messages" => \A k \in DOMAIN acc : acc[k].item = k
  /\ api # "messages" => \A k \in DOMAIN acc : IsCall(acc[k].item)

TextIInv == Heard /\ (Reading => InTurn)

-----------------------------------------------------------------------------
(* Sequences put together by FlattenSeq.                                   *)

\* The recursive function of FlattenSeq, as far as n.
IsFlattening(g, n, seqs) == g = [i \in 1..n |-> IF i = 1 THEN seqs[i] ELSE g[i - 1] \o seqs[i]]

\* There is one.
LEMMA FlatteningExists ==
  ASSUME NEW seqs, NEW n \in Nat
  PROVE  \E g : IsFlattening(g, n, seqs)
<1> DEFINE S == {m \in 0..n : \E g : IsFlattening(g, m, seqs)}
<1>1. 0 \in S
  <2> DEFINE g == [i \in 1..0 |-> seqs]
  <2>1. IsFlattening(g, 0, seqs)
    BY DEF IsFlattening
  <2> QED
    BY <2>1
<1>2. ASSUME NEW m \in 1..n, m - 1 \in S PROVE m \in S
  <2>1. m - 1 \in Nat /\ m \in Nat
    OBVIOUS
  <2>2. PICK f : IsFlattening(f, m - 1, seqs)
    BY <1>2
  <2> DEFINE next == IF m = 1 THEN seqs[m] ELSE f[m - 1] \o seqs[m]
             g == [i \in 1..m |-> IF i = m THEN next ELSE f[i]]
  <2>3. \A i \in 1..(m - 1) : f[i] = IF i = 1 THEN seqs[i] ELSE f[i - 1] \o seqs[i]
    BY <2>2 DEF IsFlattening
  <2>4. ASSUME NEW i \in 1..m
        PROVE  g[i] = IF i = 1 THEN seqs[i] ELSE g[i - 1] \o seqs[i]
    <3>1. CASE i = 1 /\ i # m
      <4>1. i \in 1..(m - 1)
        BY <2>1, <3>1
      <4> QED
        BY <2>3, <3>1, <4>1
    <3>2. CASE i # 1 /\ i # m
      <4>1. i \in 1..(m - 1) /\ i - 1 \in 1..m /\ i - 1 # m
        BY <2>1, <3>2
      <4> QED
        BY <2>3, <3>2, <4>1
    <3>3. CASE i = m
      <4>1. i # 1 => i - 1 \in 1..m /\ i - 1 # m
        BY <2>1, <3>3
      <4> QED
        BY <3>3, <4>1
    <3> QED
      BY <3>1, <3>2, <3>3
  <2>5. g = [i \in 1..m |-> g[i]]
    OBVIOUS
  <2> HIDE DEF g
  <2>6. IsFlattening(g, m, seqs)
    BY <2>4, <2>5 DEF IsFlattening
  <2> QED
    BY <2>6
<1> HIDE DEF S
<1>3. n \in S
  BY <1>1, <1>2, UpTo
<1> QED
  BY <1>3 DEF S

\* What FlattenSeq has after each of the sequences e.
Running(g, e) ==
  /\ g[0] = <<>>
  /\ \A n \in 0..Len(e) : g[n] \in Seq(Pairs)
  /\ \A n \in 1..Len(e) : g[n] = g[n - 1] \o e[n]

Rows(e) == Len(e) \in Nat /\ DOMAIN e = 1..Len(e) /\ \A n \in 1..Len(e) : e[n] \in Seq(Pairs)

\* FlattenSeq puts them together one after the other.
LEMMA FlattenRuns ==
  ASSUME NEW e, IsSeq(e), Rows(e)
  PROVE  \E g : Running(g, e) /\ FlattenSeq(e) = g[Len(e)]
<1> DEFINE h == CHOOSE h : h = [i \in 1..Len(e) |-> IF i = 1 THEN e[i] ELSE h[i - 1] \o e[i]]
<1>1. Len(e) \in Nat
  BY DEF Rows
<1>2. \E f : IsFlattening(f, Len(e), e)
  BY <1>1, FlatteningExists
<1>3. IsFlattening(h, Len(e), e)
  BY <1>2 DEF IsFlattening
<1>4. FlattenSeq(e) = IF Len(e) = 0 THEN e ELSE h[Len(e)]
  BY DEF FlattenSeq
<1> HIDE DEF h
<1>5. \A i \in 1..Len(e) : h[i] = IF i = 1 THEN e[i] ELSE h[i - 1] \o e[i]
  BY <1>3 DEF IsFlattening
<1> DEFINE g == [n \in 0..Len(e) |-> IF n = 0 THEN <<>> ELSE h[n]]
<1>6. g[0] = <<>>
  BY <1>1
<1>7. ASSUME NEW n \in 1..Len(e) PROVE g[n] = g[n - 1] \o e[n]
  <2>1. n \in 0..Len(e) /\ n - 1 \in 0..Len(e) /\ n # 0 /\ e[n] \in Seq(Pairs)
    BY DEF Rows
  <2>2. g[n] = h[n] /\ (n # 1 => g[n - 1] = h[n - 1])
    BY <2>1
  <2>3. CASE n = 1
    <3>1. h[1] = e[1]
      BY <1>5, <2>3
    <3>2. g[n - 1] = <<>> /\ <<>> \o e[n] = e[n]
      BY <1>6, <2>1, <2>3
    <3> QED
      BY <2>2, <2>3, <3>1, <3>2
  <2>4. CASE n # 1
    <3>1. h[n] = h[n - 1] \o e[n]
      BY <1>5, <2>4
    <3> QED
      BY <2>2, <2>4, <3>1
  <2> QED
    BY <2>3, <2>4
<1>8. Len(e) = 0 => e = <<>>
  BY DEF IsSeq
<1>9. FlattenSeq(e) = g[Len(e)]
  BY <1>1, <1>4, <1>6, <1>8
<1> HIDE DEF g
<1> DEFINE S == {n \in 0..Len(e) : g[n] \in Seq(Pairs)}
<1>10. ASSUME NEW m \in 0..Len(e) PROVE m \in S
  <2>1. m \in Nat /\ 0 \in S
    <3>1. g[0] \in Seq(Pairs)
      BY <1>6
    <3> QED
      BY <1>1, <3>1
  <2>2. ASSUME NEW n \in 1..m, n - 1 \in S PROVE n \in S
    <3>1. n \in 1..Len(e) /\ n \in 0..Len(e)
      BY <1>1
    <3>2. g[n] = g[n - 1] \o e[n] /\ g[n - 1] \in Seq(Pairs) /\ e[n] \in Seq(Pairs)
      BY <1>7, <2>2, <3>1 DEF Rows
    <3>3. g[n] \in Seq(Pairs)
      BY <3>2
    <3> QED
      BY <3>1, <3>3
  <2> HIDE DEF S
  <2> QED
    BY <2>1, <2>2, UpTo
<1>11. Running(g, e)
  BY <1>6, <1>7, <1>10 DEF Running
<1> QED
  BY <1>9, <1>11

\* What it puts together is a sequence of pairs.
LEMMA FlattenType ==
  ASSUME NEW e, IsSeq(e), Rows(e)
  PROVE  FlattenSeq(e) \in Seq(Pairs)
<1>1. Len(e) \in 0..Len(e)
  BY DEF Rows
<1> QED
  BY <1>1, FlattenRuns DEF Running

\* Nothing put together.
LEMMA FlattenNothing == FlattenSeq(<<>>) = <<>>
BY DEF FlattenSeq

\* Rows that agree up to m, and have nothing behind.
LEMMA FlattenAgrees ==
  ASSUME NEW e, IsSeq(e), Rows(e), NEW f, IsSeq(f), Rows(f),
         NEW m \in Nat, m <= Len(e), m <= Len(f), \A n \in 1..m : e[n] = f[n],
         \A n \in 1..Len(e) : n > m => e[n] = <<>>,
         \A n \in 1..Len(f) : n > m => f[n] = <<>>
  PROVE  FlattenSeq(e) = FlattenSeq(f)
<1>1. PICK g : Running(g, e) /\ FlattenSeq(e) = g[Len(e)]
  BY FlattenRuns
<1>2. PICK h : Running(h, f) /\ FlattenSeq(f) = h[Len(f)]
  BY FlattenRuns
<1>3. Len(e) \in Nat /\ Len(f) \in Nat
  BY DEF Rows
<1>4. g[m] = h[m]
  <2> DEFINE S == {n \in 0..m : g[n] = h[n]}
  <2>1. 0 \in S
    BY <1>1, <1>2 DEF Running
  <2>2. ASSUME NEW n \in 1..m, n - 1 \in S PROVE n \in S
    <3>1. n \in 1..Len(e) /\ n \in 1..Len(f)
      BY <1>3
    <3>2. g[n] = g[n - 1] \o e[n] /\ h[n] = h[n - 1] \o f[n]
      BY <1>1, <1>2, <3>1 DEF Running
    <3>3. g[n - 1] = h[n - 1] /\ e[n] = f[n] /\ n \in 0..m
      BY <2>2
    <3>4. g[n] = h[n]
      BY <3>2, <3>3, Zenon
    <3> QED
      BY <3>3, <3>4
  <2> HIDE DEF S
  <2>3. m \in S
    BY <2>1, <2>2, UpTo
  <2> QED
    BY <2>3 DEF S
<1>5. ASSUME NEW k, NEW s, Running(k, s), Len(s) \in Nat, m <= Len(s), \A n \in 1..Len(s) : n > m => s[n] = <<>>
      PROVE  k[Len(s)] = k[m]
  <2> DEFINE S == {n \in 0..Len(s) : n >= m => k[n] = k[m]}
  <2>1. 0 \in S
    OBVIOUS
  <2>2. ASSUME NEW n \in 1..Len(s), n - 1 \in S PROVE n \in S
    <3>1. CASE n <= m
      BY <3>1
    <3>2. CASE n > m
      <4>1. n - 1 >= m /\ n - 1 \in 0..Len(s) /\ k[n - 1] = k[m]
        BY <2>2, <3>2
      <4>2. k[n] = k[n - 1] \o <<>> /\ k[n - 1] \in Seq(Pairs)
        BY <1>5, <3>2, <4>1 DEF Running
      <4>3. k[n] = k[m]
        BY <4>1, <4>2
      <4> QED
        BY <4>3
    <3> QED
      BY <3>1, <3>2
  <2> HIDE DEF S
  <2>3. Len(s) \in S
    BY <1>5, <2>1, <2>2, UpTo
  <2> QED
    BY <1>5, <2>3 DEF S
<1>6. g[Len(e)] = g[m] /\ h[Len(f)] = h[m]
  BY <1>1, <1>2, <1>3, <1>5
<1> QED
  BY <1>1, <1>2, <1>4, <1>6

\* Concatenation is associative.
LEMMA JoinedInTurn ==
  ASSUME NEW s \in Seq(Pairs), NEW t \in Seq(Pairs), NEW u \in Seq(Pairs)
  PROVE  s \o (t \o u) = (s \o t) \o u
BY ConcatAssociative

\* One row grows by x, and those behind it have nothing.
LEMMA FlattenGrows ==
  ASSUME NEW e, IsSeq(e), Rows(e), NEW f, IsSeq(f), Rows(f), Len(f) = Len(e),
         NEW i \in 1..Len(e), NEW x \in Seq(Pairs), f[i] = e[i] \o x,
         \A n \in 1..Len(e) : n # i => f[n] = e[n],
         \A n \in 1..Len(e) : n > i => e[n] = <<>>
  PROVE  FlattenSeq(f) = FlattenSeq(e) \o x
<1>1. PICK g : Running(g, e) /\ FlattenSeq(e) = g[Len(e)]
  BY FlattenRuns
<1>2. PICK h : Running(h, f) /\ FlattenSeq(f) = h[Len(f)]
  BY FlattenRuns
<1>3. Len(e) \in Nat /\ \A n \in 1..Len(e) : e[n] \in Seq(Pairs)
  BY DEF Rows
<1> DEFINE S == {n \in 0..Len(e) : h[n] = IF n < i THEN g[n] ELSE g[n] \o x}
<1>4. 0 \in S
  BY <1>1, <1>2 DEF Running
<1>5. ASSUME NEW n \in 1..Len(e), n - 1 \in S PROVE n \in S
  <2>1. /\ n - 1 \in 0..Len(e) /\ n \in 0..Len(e) /\ g[n] = g[n - 1] \o e[n] /\ h[n] = h[n - 1] \o f[n]
        /\ g[n - 1] \in Seq(Pairs) /\ h[n - 1] \in Seq(Pairs)
    <3>1. n \in 1..Len(f) /\ n - 1 \in 0..Len(e) /\ n \in 0..Len(e)
      BY <1>3
    <3> QED
      BY <1>1, <1>2, <3>1 DEF Running
  <2>2. CASE n < i
    <3>1. h[n - 1] = g[n - 1] /\ f[n] = e[n]
      BY <1>3, <1>5, <2>2
    <3>2. h[n] = g[n]
      BY <2>1, <3>1
    <3> QED
      BY <1>3, <2>1, <2>2, <3>2
  <2>3. CASE n = i
    <3>1. h[n - 1] = g[n - 1]
      BY <1>3, <1>5, <2>3
    <3>2. g[n - 1] \o (e[n] \o x) = (g[n - 1] \o e[n]) \o x
      <4>1. e[n] \in Seq(Pairs) /\ g[n - 1] \in Seq(Pairs)
        BY <1>3, <2>1
      <4> HIDE DEF S
      <4> QED
        BY <4>1, JoinedInTurn
    <3>3. h[n] = g[n] \o x
      BY <2>1, <2>3, <3>1, <3>2
    <3>4. ~(n < i)
      BY <1>3, <2>3
    <3> QED
      BY <2>1, <3>3, <3>4
  <2>4. CASE n > i
    <3>1. h[n - 1] = g[n - 1] \o x /\ f[n] = <<>> /\ e[n] = <<>>
      <4>1. ~(n - 1 < i) /\ n # i
        BY <1>3, <2>4
      <4>2. e[n] = <<>> /\ f[n] = e[n]
        BY <2>4, <4>1
      <4> QED
        BY <1>5, <4>1, <4>2
    <3>2. h[n] = h[n - 1] /\ g[n] = g[n - 1]
      BY <2>1, <3>1
    <3>3. h[n] = g[n] \o x
      BY <3>1, <3>2
    <3>4. ~(n < i)
      BY <1>3, <2>4
    <3> QED
      BY <2>1, <3>3, <3>4
  <2> QED
    BY <2>2, <2>3, <2>4
<1> HIDE DEF S
<1>6. Len(e) \in S
  BY <1>3, <1>4, <1>5, UpTo
<1>7. h[Len(e)] = g[Len(e)] \o x
  <2>1. ~(Len(e) < i)
    BY <1>3
  <2> QED
    BY <1>6, <2>1 DEF S
<1> QED
  BY <1>1, <1>2, <1>7

\* One row more.
LEMMA FlattenAppends ==
  ASSUME NEW e, IsSeq(e), Rows(e), NEW x \in Seq(Pairs)
  PROVE  IsSeq(Append(e, x)) /\ Rows(Append(e, x)) /\ FlattenSeq(Append(e, x)) = FlattenSeq(e) \o x
<1> DEFINE a == Append(e, x)
           b == Append(e, <<>>)
<1>1. /\ IsSeq(a) /\ Len(a) = Len(e) + 1 /\ DOMAIN a = DOMAIN e \cup {Len(e) + 1}
      /\ a[Len(e) + 1] = x /\ \A i \in DOMAIN e : a[i] = e[i]
  BY AppendIsSeq
<1>2. /\ IsSeq(b) /\ Len(b) = Len(e) + 1 /\ DOMAIN b = DOMAIN e \cup {Len(e) + 1}
      /\ b[Len(e) + 1] = <<>> /\ \A i \in DOMAIN e : b[i] = e[i]
  BY AppendIsSeq
<1>3. Len(e) \in Nat /\ DOMAIN e = 1..Len(e) /\ DOMAIN a = 1..(Len(e) + 1) /\ DOMAIN b = 1..(Len(e) + 1)
  BY <1>1, <1>2, SeqFacts
<1> HIDE DEF a, b
<1>4. Rows(a) /\ Rows(b)
  <2>1. \A n \in 1..(Len(e) + 1) : n \in DOMAIN e \/ n = Len(e) + 1
    BY <1>3
  <2>2. \A n \in DOMAIN e : e[n] \in Seq(Pairs)
    BY DEF Rows
  <2>3. ASSUME NEW n \in 1..(Len(e) + 1) PROVE a[n] \in Seq(Pairs) /\ b[n] \in Seq(Pairs)
    <3>1. CASE n \in DOMAIN e
      BY <1>1, <1>2, <2>2, <3>1
    <3>2. CASE n = Len(e) + 1
      <4>1. <<>> \in Seq(Pairs)
        OBVIOUS
      <4> QED
        BY <1>1, <1>2, <3>2, <4>1
    <3> QED
      BY <2>1, <3>1, <3>2
  <2>4. Len(a) \in Nat /\ Len(b) \in Nat
    BY <1>1, <1>2, <1>3
  <2> QED
    BY <1>1, <1>2, <1>3, <2>3, <2>4 DEF Rows
<1>5. FlattenSeq(e) = FlattenSeq(b)
  <2>1. Len(e) <= Len(b) /\ (\A n \in 1..Len(e) : e[n] = b[n]) /\ \A n \in 1..Len(b) : n > Len(e) => b[n] = <<>>
    BY <1>2, <1>3
  <2> QED
    BY <1>2, <1>3, <1>4, <2>1, FlattenAgrees
<1>6. FlattenSeq(a) = FlattenSeq(b) \o x
  <2> DEFINE i == Len(e) + 1
  <2>1. /\ i \in 1..Len(b) /\ a[i] = b[i] \o x /\ Len(a) = Len(b)
        /\ \A n \in 1..Len(b) : n # i => a[n] = b[n]
        /\ \A n \in 1..Len(b) : n > i => b[n] = <<>>
    BY <1>1, <1>2, <1>3
  <2> HIDE DEF i
  <2> QED
    BY <1>1, <1>2, <1>4, <2>1, FlattenGrows
<1> QED
  BY <1>1, <1>4, <1>5, <1>6 DEF a

\* The rows listed, where those that are not have nothing.
LEMMA FlattenSifts ==
  ASSUME NEW r, NEW from, NEW s, NEW places, NEW n \in Nat, Lists(r, from, n, s, places),
         NEW e, IsSeq(e), Rows(e), Len(e) = Len(r),
         NEW f, IsSeq(f), Rows(f), Len(f) = n,
         \A j \in DOMAIN r : e[j] = f[from[j]],
         \A k \in 1..n : k \notin places => f[k] = <<>>
  PROVE  FlattenSeq(e) = FlattenSeq(f)
<1>1. PICK g : Running(g, e) /\ FlattenSeq(e) = g[Len(e)]
  BY FlattenRuns
<1>2. PICK h : Running(h, f) /\ FlattenSeq(f) = h[Len(f)]
  BY FlattenRuns
<1>3. /\ Len(r) \in Nat /\ DOMAIN r = 1..Len(r)
      /\ \A k \in DOMAIN r : from[k] \in 1..n /\ from[k] \in places
      /\ \A j, k \in DOMAIN r : j < k => from[j] < from[k]
      /\ \A i \in 1..n : i \in places => \E k \in DOMAIN r : from[k] = i
  BY SeqFacts DEF Lists
<1> DEFINE S == {k \in 0..n : \E c \in 0..Len(r) : h[k] = g[c] /\ \A j \in DOMAIN r : from[j] <= k <=> j <= c}
<1>4. 0 \in S
  <2>1. h[0] = g[0]
    BY <1>1, <1>2 DEF Running
  <2>2. \A j \in DOMAIN r : ~(from[j] <= 0) /\ ~(j <= 0)
    BY <1>3
  <2>3. 0 \in 0..Len(r) /\ 0 \in 0..n
    BY <1>3
  <2> QED
    BY <2>1, <2>2, <2>3
<1>5. ASSUME NEW k \in 1..n, k - 1 \in S PROVE k \in S
  <2>1. PICK c \in 0..Len(r) : h[k - 1] = g[c] /\ \A j \in DOMAIN r : from[j] <= k - 1 <=> j <= c
    BY <1>5
  <2>2. h[k] = h[k - 1] \o f[k] /\ h[k - 1] \in Seq(Pairs)
    BY <1>2 DEF Running
  <2>3. CASE k \in places
    <3>1. PICK j \in DOMAIN r : from[j] = k
      BY <1>3, <2>3
    <3>2. j = c + 1
      <4>1. ~(j <= c)
        BY <2>1, <3>1
      <4>2. CASE c + 1 < j
        <5>1. c + 1 \in DOMAIN r /\ c \in Nat
          BY <1>3, <4>2
        <5>2. from[c + 1] < k /\ from[c + 1] \in Nat
          BY <1>3, <3>1, <4>2, <5>1
        <5>3. from[c + 1] <= k - 1
          BY <5>2
        <5> QED
          BY <2>1, <5>1, <5>3
      <4> QED
        BY <1>3, <4>1, <4>2
    <3>3. c + 1 \in 1..Len(e) /\ c + 1 \in 0..Len(r) /\ (c + 1) - 1 = c
      BY <1>3, <3>1, <3>2
    <3>4. g[c + 1] = g[(c + 1) - 1] \o e[c + 1]
      BY <1>1, <3>3 DEF Running
    <3>5. e[c + 1] = f[k]
      BY <3>1, <3>2
    <3>6. h[k] = g[c + 1]
      BY <2>1, <2>2, <3>3, <3>4, <3>5
    <3>7. ASSUME NEW i \in DOMAIN r PROVE from[i] <= k <=> i <= c + 1
      <4>1. i \in Nat /\ j \in Nat /\ from[i] \in Nat /\ from[j] \in Nat
        BY <1>3
      <4>2. (i < j => from[i] < from[j]) /\ (j < i => from[j] < from[i])
        BY <1>3
      <4> QED
        BY <3>1, <3>2, <4>1, <4>2
    <3> QED
      BY <3>3, <3>6, <3>7
  <2>4. CASE k \notin places
    <3>1. h[k] = h[k - 1]
      BY <2>2, <2>4
    <3>2. ASSUME NEW j \in DOMAIN r PROVE from[j] <= k <=> j <= c
      <4>1. from[j] # k /\ from[j] \in Nat
        BY <1>3, <2>4
      <4>2. from[j] <= k <=> from[j] <= k - 1
        BY <4>1
      <4> QED
        BY <2>1, <4>2
    <3> QED
      BY <2>1, <3>1, <3>2
  <2> QED
    BY <2>3, <2>4
<1> HIDE DEF S
<1>6. n \in S
  BY <1>4, <1>5, UpTo
<1>7. PICK c \in 0..Len(r) : h[n] = g[c] /\ \A j \in DOMAIN r : from[j] <= n <=> j <= c
  BY <1>6 DEF S
<1>8. c = Len(r)
  <2>1. CASE c < Len(r)
    <3>1. Len(r) \in DOMAIN r /\ ~(Len(r) <= c)
      BY <1>3, <2>1
    <3>2. from[Len(r)] <= n
      BY <1>3, <3>1
    <3> QED
      BY <1>7, <3>1, <3>2
  <2> QED
    BY <1>3, <2>1
<1> QED
  BY <1>1, <1>2, <1>7, <1>8

-----------------------------------------------------------------------------
(* The text of parts, of responses and of the provider.                    *)

\* What the provider said of each text.
SaidTexts(p, said) == [i \in DOMAIN p |-> IF p[i].kind = "text" THEN SaidIn(p, said, i) ELSE <<>>]

\* SaidText, over the texts.
LEMMA SaidTextIs == SaidText = FlattenSeq(SaidTexts(plan, sent))
BY DEF SaidText, SaidTexts, SaidOf, SaidIn, Items

\* Bits are a sequence of pairs.
LEMMA BitsType ==
  ASSUME NEW i \in Nat, NEW n \in Int
  PROVE  IsSeq(Bits(i, n)) /\ Bits(i, n) \in Seq(Pairs)
<1> DEFINE b == Bits(i, n)
<1>1. PICK m \in Nat : b = [k \in 1..m |-> <<i, k>>]
  <2>1. CASE n \in Nat
    BY <2>1 DEF Bits
  <2>2. CASE n < 0
    <3>1. 1..n = 1..0
      BY <2>2
    <3> QED
      BY <3>1 DEF Bits
  <2> QED
    BY <2>1, <2>2
<1>2. b = [k \in 1..m |-> b[k]] /\ \A k \in 1..m : b[k] \in Pairs
  BY <1>1 DEF Pairs
<1> HIDE DEF b
<1>3. IsSeq(b)
  BY <1>2, FunctionIsSeq
<1>4. b \in Seq(Pairs)
  BY <1>2
<1> QED
  BY <1>3, <1>4 DEF b

\* A function over 1..n to sequences of pairs is a sequence of rows.
LEMMA RowsOf ==
  ASSUME NEW n \in Nat, NEW e, e = [i \in 1..n |-> e[i]], \A i \in 1..n : e[i] \in Seq(Pairs)
  PROVE  IsSeq(e) /\ Rows(e) /\ Len(e) = n /\ DOMAIN e = 1..n
<1>1. IsSeq(e) /\ Len(e) = n
  BY FunctionIsSeq
<1>2. DOMAIN e = 1..n
  OBVIOUS
<1> QED
  BY <1>1, <1>2 DEF Rows

\* So is what the provider said of each text.
LEMMA SaidRows ==
  ASSUME NEW p \in Plans, NEW said \in [DOMAIN p -> Int]
  PROVE  /\ IsSeq(SaidTexts(p, said)) /\ Rows(SaidTexts(p, said)) /\ Len(SaidTexts(p, said)) = Len(p)
         /\ Len(p) \in Nat /\ DOMAIN p = 1..Len(p)
         /\ \A i \in DOMAIN p : SaidIn(p, said, i) \in Seq(Pairs)
<1>1. Len(p) \in Nat /\ DOMAIN p = 1..Len(p) /\ \A i \in DOMAIN p : p[i].bits \in Nat
  BY PlansAssumption
<1>2. ASSUME NEW i \in DOMAIN p PROVE SaidIn(p, said, i) \in Seq(Pairs)
  <2>1. i \in Nat /\ (IF said[i] > p[i].bits THEN p[i].bits ELSE said[i]) \in Int
    BY <1>1
  <2> QED
    BY <2>1, BitsType DEF SaidIn
<1> DEFINE e == SaidTexts(p, said)
<1>3. e = [i \in 1..Len(p) |-> e[i]] /\ \A i \in 1..Len(p) : e[i] \in Seq(Pairs)
  BY <1>1, <1>2 DEF SaidTexts
<1> HIDE DEF e
<1>4. IsSeq(e) /\ Rows(e) /\ Len(e) = Len(p)
  BY <1>1, <1>3, RowsOf
<1> QED
  BY <1>1, <1>2, <1>4 DEF e

\* The rows TextOf puts together.
TextRows(parts) == [j \in DOMAIN parts |-> IF parts[j].kind = "text" THEN parts[j].bits ELSE <<>>]

\* So is what TextOf puts together.
LEMMA TextRowsAre ==
  ASSUME NEW parts, IsSeq(parts), \A j \in DOMAIN parts : parts[j].kind = "text" => parts[j].bits \in Seq(Pairs)
  PROVE  /\ IsSeq(TextRows(parts)) /\ Rows(TextRows(parts)) /\ Len(TextRows(parts)) = Len(parts)
         /\ TextOf(parts) = FlattenSeq(TextRows(parts)) /\ TextOf(parts) \in Seq(Pairs)
<1>1. Len(parts) \in Nat /\ DOMAIN parts = 1..Len(parts)
  BY SeqFacts
<1> DEFINE e == TextRows(parts)
<1>2. e = [i \in 1..Len(parts) |-> e[i]] /\ \A i \in 1..Len(parts) : e[i] \in Seq(Pairs)
  BY <1>1 DEF TextRows
<1>3. TextOf(parts) = FlattenSeq(e)
  BY DEF TextOf, TextRows
<1> HIDE DEF e
<1>4. IsSeq(e) /\ Rows(e) /\ Len(e) = Len(parts)
  BY <1>1, <1>2, RowsOf
<1>5. FlattenSeq(e) \in Seq(Pairs)
  BY <1>4, FlattenType
<1> QED
  BY <1>3, <1>4, <1>5 DEF e

\* Parts without a text.
LEMMA NoText ==
  ASSUME NEW parts, IsSeq(parts), \A j \in DOMAIN parts : parts[j].kind # "text"
  PROVE  TextOf(parts) = <<>>
<1>1. Len(parts) \in Nat /\ DOMAIN parts = 1..Len(parts)
  BY SeqFacts
<1> DEFINE e == TextRows(parts)
<1>2. IsSeq(e) /\ Rows(e) /\ Len(e) = Len(parts) /\ TextOf(parts) = FlattenSeq(e)
  BY TextRowsAre
<1>3. \A n \in 1..Len(parts) : e[n] = <<>>
  BY <1>1 DEF TextRows
<1> HIDE DEF e
<1>4. IsSeq(<<>>) /\ Rows(<<>>) /\ Len(<<>>) = 0
  BY EmptyIsSeq DEF Rows
<1>5. FlattenSeq(e) = FlattenSeq(<<>>)
  BY <1>1, <1>2, <1>3, <1>4, FlattenAgrees
<1> QED
  BY <1>2, <1>5, FlattenNothing

\* No parts, no text.
LEMMA NoPartsNoText == TextOf(<<>>) = <<>>
BY EmptyIsSeq, NoText

\* A single text.
LEMMA OneText ==
  ASSUME NEW q, q.kind = "text", q.bits \in Seq(Pairs)
  PROVE  TextOf(<<q>>) = q.bits
<1> DEFINE x == q.bits
<1>1. TextOf(<<q>>) = FlattenSeq(TextRows(<<q>>))
  BY DEF TextOf, TextRows
<1>2. TextRows(<<q>>) = Append(<<>>, x)
  BY DEF TextRows
<1>3. IsSeq(<<>>) /\ Rows(<<>>)
  BY EmptyIsSeq DEF Rows
<1>4. FlattenSeq(Append(<<>>, x)) = FlattenSeq(<<>>) \o x
  BY <1>3, FlattenAppends
<1>5. <<>> \o x = x
  OBVIOUS
<1> QED
  BY <1>1, <1>2, <1>4, <1>5, FlattenNothing

\* A single part that is no text.
LEMMA OneOther ==
  ASSUME NEW q, q.kind # "text"
  PROVE  TextOf(<<q>>) = <<>>
<1>1. IsSeq(<<q>>) /\ \A j \in DOMAIN <<q>> : <<q>>[j].kind # "text"
  BY DEF IsSeq
<1> QED
  BY <1>1, NoText

\* One response more.
LEMMA TextInMore ==
  ASSUME NEW rs, IsSeq(rs), \A k \in DOMAIN rs : TextOf(rs[k].parts) \in Seq(Pairs),
         NEW r, TextOf(r.parts) \in Seq(Pairs), NEW flags
  PROVE  /\ TextIn(rs, flags) \in Seq(Pairs)
         /\ TextIn(Append(rs, r), flags) =
              IF r.flag \in flags THEN TextIn(rs, flags) \o TextOf(r.parts) ELSE TextIn(rs, flags)
<1> DEFINE e == [k \in DOMAIN rs |-> IF rs[k].flag \in flags THEN TextOf(rs[k].parts) ELSE <<>>]
           x == IF r.flag \in flags THEN TextOf(r.parts) ELSE <<>>
           a == Append(rs, r)
           f == [k \in DOMAIN a |-> IF a[k].flag \in flags THEN TextOf(a[k].parts) ELSE <<>>]
           b == Append(e, x)
<1>1. Len(rs) \in Nat /\ DOMAIN rs = 1..Len(rs)
  BY SeqFacts
<1>2. e = [k \in 1..Len(rs) |-> e[k]] /\ \A k \in 1..Len(rs) : e[k] \in Seq(Pairs)
  BY <1>1
<1>3. IsSeq(e) /\ Rows(e) /\ Len(e) = Len(rs) /\ DOMAIN e = 1..Len(rs)
  <2> HIDE DEF e
  <2> QED
    BY <1>1, <1>2, RowsOf
<1>4. x \in Seq(Pairs)
  OBVIOUS
<1>5. /\ IsSeq(a) /\ Len(a) = Len(rs) + 1 /\ DOMAIN a = 1..(Len(rs) + 1) /\ a[Len(rs) + 1] = r
      /\ \A k \in 1..Len(rs) : a[k] = rs[k]
  <2>1. /\ IsSeq(a) /\ Len(a) = Len(rs) + 1 /\ a[Len(rs) + 1] = r /\ \A k \in DOMAIN rs : a[k] = rs[k]
    BY AppendIsSeq
  <2> HIDE DEF a
  <2> QED
    BY <1>1, <2>1, SeqFacts
<1>6. /\ IsSeq(b) /\ DOMAIN b = 1..(Len(rs) + 1) /\ b[Len(rs) + 1] = x /\ \A k \in 1..Len(rs) : b[k] = e[k]
  <2> HIDE DEF e, x
  <2>1. IsSeq(b) /\ Len(b) = Len(e) + 1 /\ b[Len(e) + 1] = x /\ \A k \in DOMAIN e : b[k] = e[k]
    BY <1>3, AppendIsSeq
  <2> HIDE DEF b
  <2> QED
    BY <1>3, <2>1, SeqFacts
<1>7. f = b
  <2>1. DOMAIN f = 1..(Len(rs) + 1) /\ f[Len(rs) + 1] = x /\ \A k \in 1..Len(rs) : f[k] = e[k]
    <3> HIDE DEF a
    <3> QED
      BY <1>1, <1>5
  <2>2. f = [k \in 1..(Len(rs) + 1) |-> f[k]]
    BY <2>1
  <2>3. b = [k \in 1..(Len(rs) + 1) |-> b[k]]
    <3> HIDE DEF b
    <3> QED
      BY <1>6 DEF IsSeq
  <2>4. \A k \in 1..(Len(rs) + 1) : f[k] = b[k]
    <3> HIDE DEF f, b, e, x
    <3>1. \A k \in 1..(Len(rs) + 1) : k \in 1..Len(rs) \/ k = Len(rs) + 1
      BY <1>1
    <3> QED
      BY <1>6, <2>1, <3>1
  <2> HIDE DEF f, b
  <2> QED
    BY <2>2, <2>3, <2>4
<1>8. TextIn(rs, flags) = FlattenSeq(e) /\ TextIn(a, flags) = FlattenSeq(f)
  BY DEF TextIn
<1> HIDE DEF e, f, a
<1>9. FlattenSeq(b) = FlattenSeq(e) \o x /\ FlattenSeq(e) \in Seq(Pairs)
  BY <1>3, <1>4, FlattenAppends, FlattenType
<1>10. TextIn(a, flags) = TextIn(rs, flags) \o x /\ TextIn(rs, flags) \in Seq(Pairs)
  BY <1>7, <1>8, <1>9
<1>11. TextIn(rs, flags) \o <<>> = TextIn(rs, flags)
  BY <1>10
<1> QED
  BY <1>10, <1>11 DEF a

\* No responses, no text.
LEMMA TextInNothing == ASSUME NEW flags PROVE TextIn(<<>>, flags) = <<>>
<1>1. TextIn(<<>>, flags) = FlattenSeq(<<>>)
  BY DEF TextIn
<1> QED
  BY <1>1, FlattenNothing

\* Responses none of which has one of the flags.
LEMMA NoneFlagged ==
  ASSUME NEW rs, IsSeq(rs), NEW flags, \A k \in DOMAIN rs : rs[k].flag \notin flags
  PROVE  TextIn(rs, flags) = <<>>
<1> DEFINE e == [k \in DOMAIN rs |-> IF rs[k].flag \in flags THEN TextOf(rs[k].parts) ELSE <<>>]
<1>1. Len(rs) \in Nat /\ DOMAIN rs = 1..Len(rs)
  BY SeqFacts
<1>2. e = [k \in 1..Len(rs) |-> e[k]] /\ \A k \in 1..Len(rs) : e[k] = <<>> /\ e[k] \in Seq(Pairs)
  BY <1>1
<1>3. TextIn(rs, flags) = FlattenSeq(e)
  BY DEF TextIn
<1> HIDE DEF e
<1>4. IsSeq(e) /\ Rows(e) /\ Len(e) = Len(rs)
  BY <1>1, <1>2, RowsOf
<1>5. IsSeq(<<>>) /\ Rows(<<>>) /\ Len(<<>>) = 0
  BY EmptyIsSeq DEF Rows
<1>6. FlattenSeq(e) = FlattenSeq(<<>>)
  BY <1>1, <1>2, <1>4, <1>5, FlattenAgrees
<1> QED
  BY <1>3, <1>6, FlattenNothing

\* The rows e are those of f at the places listed; the others have nothing.
SameRows(r, from, n, s, places, e, f) ==
  /\ n \in Nat /\ Lists(r, from, n, s, places)
  /\ IsSeq(e) /\ Rows(e) /\ Len(e) = Len(r) /\ IsSeq(f) /\ Rows(f) /\ Len(f) = n
  /\ \A j \in DOMAIN r : e[j] = f[from[j]]
  /\ \A k \in 1..n : k \notin places => f[k] = <<>>

\* FlattenSifts of such rows.
LEMMA SameRowsFlatten ==
  ASSUME NEW r, NEW from, NEW n, NEW s, NEW places, NEW e, NEW f, SameRows(r, from, n, s, places, e, f)
  PROVE  FlattenSeq(e) = FlattenSeq(f)
<1>1. n \in Nat
  BY DEF SameRows
<1>2. /\ Lists(r, from, n, s, places) /\ IsSeq(e) /\ Rows(e) /\ Len(e) = Len(r) /\ IsSeq(f) /\ Rows(f) /\ Len(f) = n
  BY DEF SameRows
<1>3. \A j \in DOMAIN r : e[j] = f[from[j]]
  BY DEF SameRows
<1>4. \A k \in 1..n : k \notin places => f[k] = <<>>
  BY DEF SameRows
<1> QED
  BY <1>1, <1>2, <1>3, <1>4, FlattenSifts

\* Parts listed by Sift, their text row by row: what is left out has none.
LEMMA SiftedText ==
  ASSUME NEW s, IsSeq(s), NEW places, NEW parts, DOMAIN parts = DOMAIN Sift(s, places),
         NEW rows, rows = [k \in DOMAIN s |-> rows[k]], \A k \in DOMAIN s : rows[k] \in Seq(Pairs),
         \A k \in DOMAIN s, j \in DOMAIN parts :
            k \in places /\ Sift(s, places)[j] = s[k] =>
               IF parts[j].kind = "text" THEN parts[j].bits = rows[k] ELSE rows[k] = <<>>,
         \A k \in DOMAIN s : k \notin places => rows[k] = <<>>,
         parts = [j \in DOMAIN parts |-> parts[j]]
  PROVE  IsSeq(parts) /\ TextOf(parts) = FlattenSeq(rows) /\ TextOf(parts) \in Seq(Pairs)
<1> DEFINE r == Sift(s, places)
           e == TextRows(parts)
<1>1. Len(s) \in Nat /\ DOMAIN s = 1..Len(s)
  BY SeqFacts
<1>2. PICK from : Lists(r, from, Len(s), s, places)
  BY <1>1, SiftLists
<1>3. Len(r) \in Nat /\ DOMAIN r = 1..Len(r) /\ DOMAIN parts = DOMAIN r
  BY <1>2, SeqFacts DEF Lists
<1> HIDE DEF r
<1>4. \A j \in DOMAIN r : from[j] \in DOMAIN s /\ from[j] \in places /\ r[j] = s[from[j]]
  BY <1>1, <1>2 DEF Lists
<1>5. IsSeq(parts) /\ Len(parts) = Len(r)
  BY <1>3, FunctionIsSeq
<1>6. \A j \in DOMAIN r : IF parts[j].kind = "text" THEN parts[j].bits = rows[from[j]] ELSE rows[from[j]] = <<>>
  BY <1>3, <1>4 DEF r
<1>7. \A j \in DOMAIN parts : parts[j].kind = "text" => parts[j].bits \in Seq(Pairs)
  BY <1>3, <1>4, <1>6
<1>8. /\ IsSeq(e) /\ Rows(e) /\ Len(e) = Len(r)
      /\ TextOf(parts) = FlattenSeq(e) /\ TextOf(parts) \in Seq(Pairs)
  BY <1>5, <1>7, TextRowsAre
<1>9. \A j \in DOMAIN r : e[j] = rows[from[j]]
  BY <1>3, <1>6 DEF TextRows
<1>10. IsSeq(rows) /\ Rows(rows) /\ Len(rows) = Len(s)
  <2>1. rows = [k \in 1..Len(s) |-> rows[k]] /\ \A k \in 1..Len(s) : rows[k] \in Seq(Pairs)
    BY <1>1
  <2> QED
    BY <1>1, <2>1, RowsOf
<1> HIDE DEF e
<1>11. \A k \in 1..Len(s) : k \notin places => rows[k] = <<>>
  BY <1>1
<1>12. FlattenSeq(e) = FlattenSeq(rows)
  <2>1. SameRows(r, from, Len(s), s, places, e, rows)
    BY <1>1, <1>2, <1>8, <1>9, <1>10, <1>11 DEF SameRows
  <2> QED
    BY <2>1, SameRowsFlatten
<1> QED
  BY <1>5, <1>8, <1>12

\* The parts of s at the places listed show the rows.
ShowsRows(s, places, parts, rows) ==
  /\ IsSeq(s) /\ parts = Sift(s, places) /\ IsSeq(parts)
  /\ rows = [k \in DOMAIN s |-> rows[k]] /\ \A k \in DOMAIN s : rows[k] \in Seq(Pairs)
  /\ \A k \in DOMAIN s : IF s[k].kind = "text" THEN s[k].bits = rows[k] ELSE rows[k] = <<>>
  /\ \A k \in DOMAIN s : k \notin places => rows[k] = <<>>

\* SiftedText of such parts.
LEMMA ShowsRowsText ==
  ASSUME NEW s, NEW places, NEW parts, NEW rows, ShowsRows(s, places, parts, rows)
  PROVE  TextOf(parts) = FlattenSeq(rows) /\ TextOf(parts) \in Seq(Pairs)
<1>1. /\ IsSeq(s) /\ parts = Sift(s, places) /\ IsSeq(parts)
      /\ rows = [k \in DOMAIN s |-> rows[k]]
  BY DEF ShowsRows
<1>2. \A k \in DOMAIN s : rows[k] \in Seq(Pairs)
  BY DEF ShowsRows
<1>3. \A k \in DOMAIN s : IF s[k].kind = "text" THEN s[k].bits = rows[k] ELSE rows[k] = <<>>
  BY DEF ShowsRows
<1>4. \A k \in DOMAIN s : k \notin places => rows[k] = <<>>
  BY DEF ShowsRows
<1>5. parts = [j \in DOMAIN parts |-> parts[j]]
  BY <1>1 DEF IsSeq
<1>6. \A k \in DOMAIN s, j \in DOMAIN parts :
        k \in places /\ Sift(s, places)[j] = s[k] =>
          IF parts[j].kind = "text" THEN parts[j].bits = rows[k] ELSE rows[k] = <<>>
  BY <1>1, <1>3
<1>7. DOMAIN parts = DOMAIN Sift(s, places)
  BY <1>1
<1> QED
  BY <1>1, <1>2, <1>4, <1>5, <1>6, <1>7, SiftedText

\* The calls chat assembles are no text.
LEMMA ChatCallsHaveNoText ==
  ASSUME plan \in Plans, Gathered, InTurn, api = "chat"
  PROVE  TextOf(ChatCalls) = <<>>
<1> DEFINE places == {k \in DOMAIN acc : ~Unparseable(acc[k].item, acc[k].bits)}
           kept == Sift(acc, places)
           parts == ChatCalls
<1>1. Len(acc) \in Nat /\ DOMAIN acc = 1..Len(acc)
  BY SeqFacts DEF Gathered
<1>2. PICK from : Lists(kept, from, Len(acc), acc, places)
  BY <1>1, SiftLists
<1>3. parts = [k \in DOMAIN kept |-> Part(kept[k].item, Args(kept[k].item, kept[k].bits))]
  BY DEF ChatCalls
<1> HIDE DEF kept, parts, places
<1>4. Len(kept) \in Nat /\ DOMAIN kept = 1..Len(kept)
  BY <1>2, SeqFacts DEF Lists
<1>5. IsSeq(parts)
  <2>1. parts = [k \in 1..Len(kept) |-> parts[k]]
    BY <1>3, <1>4
  <2> QED
    BY <1>4, <2>1, FunctionIsSeq
<1>6. ASSUME NEW j \in DOMAIN parts PROVE parts[j].kind # "text"
  <2>1. j \in DOMAIN kept /\ parts[j].kind = plan[kept[j].item].kind
    BY <1>3 DEF Part
  <2>2. from[j] \in DOMAIN acc /\ kept[j] = acc[from[j]]
    BY <1>1, <1>2, <2>1 DEF Lists
  <2>3. IsCall(acc[from[j]].item)
    BY <2>2 DEF InTurn
  <2> QED
    BY <2>1, <2>2, <2>3 DEF IsCall
<1> QED
  BY <1>5, <1>6, NoText DEF parts

\* The response object repeats the text.
LEMMA OutputTextIs ==
  ASSUME plan \in Plans, Gathered
  PROVE  TextOf(OutputParts) = SaidText /\ TextOf(OutputParts) \in Seq(Pairs)
<1> DEFINE s == [i \in Items |-> i]
           places == {i \in Items : sent[i] > 0 \/ (sent[i] = 0 /\ plan[i].kind # "thought")}
           kept == Sift(s, places)
           parts == OutputParts
           rows == SaidTexts(plan, sent)
<1>1. sent \in [Items -> Int] /\ \A i \in Items : sent[i] >= -1
  BY DEF Gathered
<1>2. /\ Rows(rows) /\ Items = 1..Len(plan) /\ Len(rows) = Len(plan) /\ Len(plan) \in Nat
      /\ \A i \in Items : SaidIn(plan, sent, i) \in Seq(Pairs) /\ plan[i].bits \in Nat
  BY <1>1, SaidRows, PlanFacts DEF Items
<1>3. IsSeq(s) /\ DOMAIN s = Items
  BY <1>2, FunctionIsSeq
<1>4. parts = [k \in DOMAIN kept |->
                 Part(kept[k], IF IsCall(kept[k]) /\ SaidOf(kept[k]) # <<>> THEN Args(kept[k], SaidOf(kept[k])) ELSE SaidOf(kept[k]))]
  BY DEF OutputParts
<1>5. rows = [i \in Items |-> rows[i]] /\ \A i \in Items : rows[i] \in Seq(Pairs)
  BY <1>2 DEF SaidTexts, Items
<1>6. \A i \in Items : rows[i] = IF plan[i].kind = "text" THEN SaidOf(i) ELSE <<>>
  BY DEF SaidTexts, Items, SaidOf, SaidIn
<1>7. ASSUME NEW k \in Items, NEW j \in DOMAIN parts, kept[j] = s[k]
      PROVE  IF parts[j].kind = "text" THEN parts[j].bits = rows[k] ELSE rows[k] = <<>>
  <2>1. kept[j] = k /\ j \in DOMAIN kept
    BY <1>4, <1>7
  <2>2. /\ parts[j].kind = plan[k].kind
        /\ parts[j].bits = IF IsCall(k) /\ SaidOf(k) # <<>> THEN Args(k, SaidOf(k)) ELSE SaidOf(k)
    <3>1. parts[j] = Part(k, IF IsCall(k) /\ SaidOf(k) # <<>> THEN Args(k, SaidOf(k)) ELSE SaidOf(k))
      BY <1>4, <2>1
    <3> QED
      BY <3>1 DEF Part
  <2> HIDE DEF parts, rows
  <2> QED
    BY <1>6, <2>2 DEF IsCall
<1>8. ASSUME NEW k \in Items, k \notin places PROVE rows[k] = <<>>
  <2>1. plan[k].kind = "text" => sent[k] = -1
    BY <1>1, <1>8
  <2>2. sent[k] = -1 => SaidOf(k) = Bits(k, -1)
    BY <1>2 DEF SaidOf
  <2>3. Bits(k, -1) = <<>>
    BY DEF Bits
  <2> HIDE DEF rows
  <2> QED
    BY <1>6, <2>1, <2>2, <2>3
<1>9. parts = [j \in DOMAIN parts |-> parts[j]] /\ DOMAIN parts = DOMAIN kept
  BY <1>4
<1> HIDE DEF parts, rows, s, places
<1>10. TextOf(parts) = FlattenSeq(rows) /\ TextOf(parts) \in Seq(Pairs)
  BY <1>3, <1>5, <1>7, <1>8, <1>9, SiftedText
<1> QED
  BY <1>10, SaidTextIs DEF parts, rows

\* So does the last response of messages.
LEMMA MessageTextIs ==
  ASSUME plan \in Plans, Gathered, InTurn, api = "messages"
  PROVE  TextOf(MessageParts) = SaidText /\ TextOf(MessageParts) \in Seq(Pairs)
<1> DEFINE places == {k \in DOMAIN acc : plan[acc[k].item].kind # "text" \/ acc[k].bits # <<>>}
           kept == Sift(acc, places)
           parts == MessageParts
           said == SaidTexts(plan, sent)
           rows == [k \in DOMAIN acc |-> said[k]]
<1>1. sent \in [Items -> Int] /\ \A i \in Items : sent[i] >= -1
  BY DEF Gathered
<1>2. /\ IsSeq(said) /\ Rows(said) /\ Items = 1..Len(plan) /\ Len(said) = Len(plan) /\ Len(plan) \in Nat
      /\ \A i \in Items : SaidIn(plan, sent, i) \in Seq(Pairs) /\ plan[i].bits \in Nat
  BY <1>1, SaidRows, PlanFacts DEF Items
<1>3. /\ IsSeq(acc) /\ Len(acc) \in Nat /\ DOMAIN acc = 1..Len(acc)
      /\ \A k \in DOMAIN acc : acc[k].item = k /\ k \in Items /\ acc[k].bits = SaidIn(plan, sent, k)
  BY SeqFacts DEF Gathered, InTurn
<1>4. parts = [k \in DOMAIN kept |-> Part(kept[k].item, IF IsCall(kept[k].item) THEN Args(kept[k].item, kept[k].bits) ELSE kept[k].bits)]
  BY DEF MessageParts
<1>5. \A i \in Items : said[i] = (IF plan[i].kind = "text" THEN SaidIn(plan, sent, i) ELSE <<>>) /\ said[i] \in Seq(Pairs)
  BY <1>2 DEF SaidTexts, Items
<1>6. rows = [k \in DOMAIN acc |-> rows[k]] /\ \A k \in DOMAIN acc : rows[k] = said[k] /\ rows[k] \in Seq(Pairs)
  BY <1>3, <1>5
<1>7. ASSUME NEW k \in DOMAIN acc, NEW j \in DOMAIN parts, kept[j] = acc[k]
      PROVE  IF parts[j].kind = "text" THEN parts[j].bits = rows[k] ELSE rows[k] = <<>>
  <2>1. kept[j].item = k /\ kept[j].bits = SaidIn(plan, sent, k) /\ j \in DOMAIN kept
    BY <1>3, <1>4, <1>7
  <2>2. /\ parts[j].kind = plan[k].kind
        /\ parts[j].bits = IF IsCall(k) THEN Args(k, SaidIn(plan, sent, k)) ELSE SaidIn(plan, sent, k)
    <3>1. parts[j] = Part(k, IF IsCall(k) THEN Args(k, SaidIn(plan, sent, k)) ELSE SaidIn(plan, sent, k))
      BY <1>4, <2>1
    <3> QED
      BY <3>1 DEF Part
  <2> HIDE DEF parts, rows, said
  <2> QED
    BY <1>3, <1>5, <1>6, <2>2 DEF IsCall
<1>8. ASSUME NEW k \in DOMAIN acc, k \notin places PROVE rows[k] = <<>>
  <2>1. plan[k].kind = "text" /\ SaidIn(plan, sent, k) = <<>>
    BY <1>3, <1>8
  <2> HIDE DEF rows, said
  <2> QED
    BY <1>3, <1>5, <1>6, <2>1
<1>9. parts = [j \in DOMAIN parts |-> parts[j]] /\ DOMAIN parts = DOMAIN kept
  BY <1>4
<1>10. Len(acc) <= Len(plan)
  <2>1. Len(acc) # 0 => Len(acc) \in DOMAIN acc
    BY <1>3
  <2> QED
    BY <1>2, <1>3, <2>1
<1>11. ASSUME NEW n \in 1..Len(plan), n > Len(acc) PROVE said[n] = <<>>
  <2>1. n \in Items /\ n \notin DOMAIN acc
    BY <1>2, <1>3, <1>11
  <2>2. ~(sent[n] >= 0)
    <3>1. sent[n] >= 0 => \E k \in DOMAIN acc : acc[k].item = n
      BY <2>1 DEF Gathered
    <3> QED
      BY <1>3, <2>1, <3>1
  <2>3. sent[n] = -1
    BY <1>1, <2>1, <2>2
  <2>4. SaidIn(plan, sent, n) = Bits(n, -1)
    BY <1>2, <2>1, <2>3 DEF SaidIn
  <2>5. Bits(n, -1) = <<>>
    BY DEF Bits
  <2> HIDE DEF said
  <2> QED
    BY <1>5, <2>1, <2>4, <2>5
<1> HIDE DEF parts, rows, places, said
<1>12. TextOf(parts) = FlattenSeq(rows) /\ TextOf(parts) \in Seq(Pairs)
  BY <1>3, <1>6, <1>7, <1>8, <1>9, SiftedText
<1>13. IsSeq(rows) /\ Rows(rows) /\ Len(rows) = Len(acc)
  <2>1. rows = [k \in 1..Len(acc) |-> rows[k]] /\ \A k \in 1..Len(acc) : rows[k] \in Seq(Pairs)
    BY <1>3, <1>6
  <2> QED
    BY <1>3, <2>1, RowsOf
<1>14. FlattenSeq(rows) = FlattenSeq(said)
  <2>1. /\ \A n \in 1..Len(acc) : rows[n] = said[n]
        /\ \A n \in 1..Len(rows) : n > Len(acc) => rows[n] = <<>>
        /\ \A n \in 1..Len(said) : n > Len(acc) => said[n] = <<>>
    BY <1>2, <1>3, <1>6, <1>11, <1>13
  <2>2. Len(acc) <= Len(rows) /\ Len(acc) <= Len(said)
    BY <1>2, <1>3, <1>10, <1>13
  <2> QED
    BY <1>2, <1>3, <1>13, <2>1, <2>2, FlattenAgrees
<1> QED
  BY <1>12, <1>14, SaidTextIs DEF parts, said

\* An unstreamed answer has all of it.
LEMMA WholeTextIs ==
  ASSUME plan \in Plans, UNCHANGED plan, sent' = [i \in Items |-> plan[i].bits + 1]
  PROVE  /\ SaidText' = FlattenSeq([i \in Items |-> IF plan[i].kind = "text" THEN WholePart(i).bits ELSE <<>>])
         /\ \A i \in Items : plan[i].kind = "text" => WholePart(i).bits \in Seq(Pairs)
         /\ SaidText' \in Seq(Pairs)
<1>1. Len(plan) \in Nat /\ Items = 1..Len(plan) /\ \A i \in Items : plan[i].bits \in Nat
  BY PlanFacts
<1>2. \A i \in Items : sent'[i] = plan[i].bits + 1
  OBVIOUS
<1>3. sent' \in [DOMAIN plan -> Int]
  BY <1>1 DEF Items
<1>4. \A i \in Items : SaidIn(plan, sent', i) = Bits(i, plan[i].bits)
  BY <1>1, <1>2 DEF SaidIn
<1>5. SaidText' = FlattenSeq(SaidTexts(plan, sent'))
  BY DEF SaidText, SaidTexts, SaidOf, SaidIn, Items
<1>6. \A i \in Items : plan[i].kind = "text" => WholePart(i).bits = SaidIn(plan, sent', i)
  BY <1>4 DEF WholePart, Part, IsCall
<1>7. SaidTexts(plan, sent') = [i \in Items |-> IF plan[i].kind = "text" THEN WholePart(i).bits ELSE <<>>]
  BY <1>6 DEF SaidTexts, Items
<1>8. \A i \in Items : SaidIn(plan, sent', i) \in Seq(Pairs)
  BY <1>3, SaidRows DEF Items
<1>9. FlattenSeq(SaidTexts(plan, sent')) \in Seq(Pairs)
  BY <1>3, SaidRows, FlattenType
<1> QED
  BY <1>5, <1>6, <1>7, <1>8, <1>9

\* The parts of responses and messages, in the order of the answer.
LEMMA WholePartsText ==
  ASSUME plan \in Plans, UNCHANGED plan, sent' = [i \in Items |-> plan[i].bits + 1]
  PROVE  LET parts == [i \in Items |-> WholePart(i)]
         IN  TextOf(parts) = SaidText' /\ TextOf(parts) \in Seq(Pairs)
<1> DEFINE parts == [i \in Items |-> WholePart(i)]
<1>1. \A i \in Items : parts[i].kind = plan[i].kind /\ parts[i].bits = WholePart(i).bits
  BY WholePartIs
<1>2. TextRows(parts) = [i \in Items |-> IF plan[i].kind = "text" THEN WholePart(i).bits ELSE <<>>]
  BY <1>1 DEF TextRows
<1>3. TextOf(parts) = FlattenSeq(TextRows(parts))
  BY DEF TextOf, TextRows
<1> HIDE DEF parts
<1> QED
  BY <1>2, <1>3, WholeTextIs DEF parts

\* The parts of chat, the texts before the calls.
LEMMA ChatAnswerText ==
  ASSUME plan \in Plans, UNCHANGED plan, sent' = [i \in Items |-> plan[i].bits + 1],
         NEW all, all = [i \in Items |-> WholePart(i)],
         NEW calls, calls = {i \in Items : IsCall(i)}
  PROVE  LET parts == Sift(all, Items \ calls) \o Sift(all, calls)
         IN  TextOf(parts) = SaidText' /\ TextOf(parts) \in Seq(Pairs)
<1> DEFINE a == Sift(all, Items \ calls)
           b == Sift(all, calls)
           parts == a \o b
           rows == [i \in Items |-> IF plan[i].kind = "text" THEN WholePart(i).bits ELSE <<>>]
           kinds == [i \in Items |-> plan[i].kind]
<1>1. IsSeq(all) /\ Len(all) = Len(plan) /\ Len(all) \in Nat /\ Items = 1..Len(all) /\ DOMAIN all = Items
  BY PlanFacts, FunctionIsSeq
<1>2. \A i \in Items : all[i].kind = plan[i].kind /\ all[i].item = i /\ all[i].bits = WholePart(i).bits
  BY WholePartIs
<1>3. /\ SaidText' = FlattenSeq(rows) /\ SaidText' \in Seq(Pairs)
      /\ rows = [i \in Items |-> rows[i]]
      /\ \A i \in Items : /\ rows[i] \in Seq(Pairs)
                          /\ rows[i] = IF plan[i].kind = "text" THEN all[i].bits ELSE <<>>
  BY <1>2, WholeTextIs
<1> HIDE DEF rows
<1>4. PICK from : Lists(a, from, Len(all), all, Items \ calls)
  BY <1>1, SiftLists
<1>5. PICK to : Lists(b, to, Len(all), all, calls)
  BY <1>1, SiftLists
<1>6. IsSeq(a) /\ Len(a) \in Nat /\ DOMAIN a = 1..Len(a) /\ IsSeq(b) /\ Len(b) \in Nat /\ DOMAIN b = 1..Len(b)
  BY <1>4, <1>5, SeqFacts DEF Lists
<1> HIDE DEF a, b
<1>7. ASSUME NEW k \in Items, NEW j \in DOMAIN a, a[j] = all[k]
      PROVE  IF a[j].kind = "text" THEN a[j].bits = rows[k] ELSE rows[k] = <<>>
  <2>1. a[j].kind = plan[k].kind /\ a[j].bits = all[k].bits
    BY <1>2, <1>7
  <2> QED
    BY <1>3, <2>1
<1>8. \A k \in Items : k \notin Items \ calls => rows[k] = <<>>
  BY <1>3 DEF IsCall
<1>10. TextOf(a) = FlattenSeq(rows) /\ TextOf(a) \in Seq(Pairs)
  <2>1. ShowsRows(all, Items \ calls, a, rows)
    <3>1. \A k \in DOMAIN all : IF all[k].kind = "text" THEN all[k].bits = rows[k] ELSE rows[k] = <<>>
      BY <1>1, <1>2, <1>3
    <3>2. a = Sift(all, Items \ calls)
      BY DEF a
    <3> QED
      BY <1>1, <1>3, <1>6, <1>8, <3>1, <3>2 DEF ShowsRows
  <2> QED
    BY <2>1, ShowsRowsText
<1>11. \A j \in DOMAIN b : b[j].kind = "call"
  <2> SUFFICES ASSUME NEW j \in DOMAIN b PROVE b[j].kind = "call"
    OBVIOUS
  <2>1. to[j] \in Items /\ to[j] \in calls /\ b[j] = all[to[j]]
    BY <1>1, <1>5 DEF Lists
  <2>2. IsCall(to[j])
    BY <2>1
  <2> QED
    BY <1>2, <2>1, <2>2 DEF IsCall
<1>12. \A j \in DOMAIN a : a[j].kind = "text" => a[j].bits \in Seq(Pairs)
  <2> SUFFICES ASSUME NEW j \in DOMAIN a, a[j].kind = "text" PROVE a[j].bits \in Seq(Pairs)
    OBVIOUS
  <2>1. from[j] \in Items /\ a[j] = all[from[j]]
    BY <1>1, <1>4 DEF Lists
  <2>2. rows[from[j]] = a[j].bits
    BY <1>7, <2>1
  <2> QED
    BY <1>3, <2>1, <2>2
<1>13. /\ DOMAIN parts = 1..(Len(a) + Len(b)) /\ IsSeq(parts) /\ Len(parts) = Len(a) + Len(b)
       /\ \A k \in 1..Len(a) : parts[k] = a[k]
       /\ \A k \in 1..Len(b) : parts[Len(a) + k] = b[k]
  <2> DEFINE W == {a[i] : i \in DOMAIN a} \cup {b[i] : i \in DOMAIN b}
  <2>1. a \in Seq(W) /\ b \in Seq(W)
    <3>1. {a[i] : i \in DOMAIN a} \subseteq W /\ {b[i] : i \in DOMAIN b} \subseteq W
      OBVIOUS
    <3> HIDE DEF W
    <3> QED
      BY <1>6, <3>1 DEF IsSeq
  <2> HIDE DEF W
  <2>2. /\ DOMAIN parts = 1..(Len(a) + Len(b)) /\ parts \in Seq(W)
        /\ \A k \in 1..Len(a) : parts[k] = a[k]
        /\ \A k \in 1..Len(b) : parts[Len(a) + k] = b[k]
    BY <1>6, <2>1
  <2>3. parts = [k \in 1..(Len(a) + Len(b)) |-> parts[k]] /\ Len(a) + Len(b) \in Nat
    <3> HIDE DEF parts
    <3> QED
      BY <1>6, <2>2
  <2> HIDE DEF parts
  <2> QED
    BY <2>2, <2>3, FunctionIsSeq
<1> HIDE DEF parts
<1>14. \A k \in DOMAIN parts : k > Len(a) => parts[k].kind = "call"
  <2> SUFFICES ASSUME NEW k \in DOMAIN parts, k > Len(a) PROVE parts[k].kind = "call"
    OBVIOUS
  <2>1. k - Len(a) \in 1..Len(b) /\ Len(a) + (k - Len(a)) = k
    BY <1>6, <1>13
  <2> QED
    BY <1>6, <1>11, <1>13, <2>1
<1>15. \A k \in DOMAIN parts : k <= Len(a) => k \in 1..Len(a) /\ k \in DOMAIN a /\ parts[k] = a[k]
  BY <1>6, <1>13
<1>16. \A k \in DOMAIN parts : parts[k].kind = "text" => parts[k].bits \in Seq(Pairs)
  <2> SUFFICES ASSUME NEW k \in DOMAIN parts, parts[k].kind = "text" PROVE parts[k].bits \in Seq(Pairs)
    OBVIOUS
  <2>1. ~(k > Len(a))
    BY <1>14
  <2>2. k <= Len(a)
    BY <1>6, <1>13, <2>1
  <2> QED
    BY <1>12, <1>15, <2>2
<1> DEFINE e == TextRows(a)
           f == TextRows(parts)
<1>17. /\ IsSeq(e) /\ Rows(e) /\ Len(e) = Len(a) /\ TextOf(a) = FlattenSeq(e)
  BY <1>6, <1>12, TextRowsAre
<1>18. /\ IsSeq(f) /\ Rows(f) /\ Len(f) = Len(parts) /\ TextOf(parts) = FlattenSeq(f)
  BY <1>13, <1>16, TextRowsAre
<1>19. \A n \in 1..Len(a) : e[n] = f[n]
  BY <1>6, <1>13 DEF TextRows
<1>20. \A n \in 1..Len(f) : n > Len(a) => f[n] = <<>>
  BY <1>13, <1>14, <1>18 DEF TextRows
<1> HIDE DEF e, f
<1>21. FlattenSeq(e) = FlattenSeq(f)
  <2>1. Len(a) <= Len(e) /\ Len(a) <= Len(f) /\ \A n \in 1..Len(e) : n > Len(a) => e[n] = <<>>
    BY <1>6, <1>13, <1>17, <1>18
  <2> QED
    BY <1>6, <1>17, <1>18, <1>19, <1>20, <2>1, FlattenAgrees
<1> QED
  BY <1>3, <1>10, <1>17, <1>18, <1>21 DEF parts, a, b

-----------------------------------------------------------------------------
(* What the provider has said of its texts, and what the consumer heard.   *)

LEMMA SaidType ==
  ASSUME plan \in Plans, Gathered
  PROVE  SaidText \in Seq(Pairs)
<1>1. sent \in [DOMAIN plan -> Int]
  BY DEF Gathered, Items
<1>2. FlattenSeq(SaidTexts(plan, sent)) \in Seq(Pairs)
  BY <1>1, SaidRows, FlattenType
<1> QED
  BY <1>2, SaidTextIs

\* The same after a step.
LEMMA SaidTextNext == SaidText' = FlattenSeq(SaidTexts(plan', sent'))
BY DEF SaidText, SaidTexts, SaidOf, SaidIn, Items

\* An item starts, one closes, or a bit is said of what is no text.
LEMMA SaidStays ==
  ASSUME plan \in Plans, Gathered, NEW i \in Items, Moves(i),
         MayStart(i) \/ MayClose(i) \/ (MaySay(i) /\ plan[i].kind # "text")
  PROVE  UNCHANGED SaidText
<1>1. sent \in [Items -> Int] /\ plan[i].bits \in Nat
  BY PlanFacts DEF Gathered
<1>2. /\ UNCHANGED plan
      /\ \A j \in Items : j # i => SaidIn(plan', sent', j) = SaidIn(plan, sent, j)
      /\ sent[i] = -1 => SaidIn(plan', sent', i) = <<>>
      /\ sent[i] = plan[i].bits => SaidIn(plan', sent', i) = SaidIn(plan, sent, i)
  BY <1>1, SaidNext
<1>3. plan[i].kind = "text" => SaidIn(plan', sent', i) = SaidIn(plan, sent, i)
  <2>1. sent[i] = -1 => SaidIn(plan, sent, i) = Bits(i, -1)
    BY <1>1 DEF SaidIn
  <2>2. Bits(i, -1) = <<>>
    BY DEF Bits
  <2> QED
    BY <1>2, <2>1, <2>2 DEF MayStart, MayClose
<1>4. \A j \in Items : plan[j].kind = "text" => SaidIn(plan', sent', j) = SaidIn(plan, sent, j)
  BY <1>2, <1>3
<1>5. SaidTexts(plan', sent') = SaidTexts(plan, sent)
  BY <1>2, <1>4 DEF SaidTexts, Items
<1> QED
  BY <1>5, SaidTextIs, SaidTextNext

\* A bit of a text is said: nothing is said yet of the items behind it.
LEMMA SaidGrows ==
  ASSUME plan \in Plans, Gathered, InTurn, NEW i \in Items, Moves(i), MaySay(i), plan[i].kind = "text"
  PROVE  /\ SaidText' = SaidText \o << <<i, sent[i] + 1>> >>
         /\ << <<i, sent[i] + 1>> >> \in Seq(Pairs)
<1> DEFINE e == SaidTexts(plan, sent)
           f == SaidTexts(plan', sent')
           x == << <<i, sent[i] + 1>> >>
<1>1. /\ sent \in [Items -> Int] /\ plan[i].bits \in Nat /\ Items = 1..Len(plan) /\ Items = DOMAIN plan
      /\ \A j \in Items : sent[j] >= -1 /\ plan[j].bits \in Nat
  BY PlanFacts DEF Gathered, Items
<1>2. /\ UNCHANGED plan /\ sent' \in [Items -> Int]
      /\ \A j \in Items : j # i => SaidIn(plan', sent', j) = SaidIn(plan, sent, j)
      /\ SaidIn(plan', sent', i) = Append(SaidIn(plan, sent, i), <<i, sent[i] + 1>>)
  BY <1>1, SaidNext DEF MaySay
<1>3. sent[i] \in Nat /\ sent[i] < plan[i].bits
  <2>1. \A b \in Nat, n \in Int : n \in 0..(b - 1) => n \in Nat /\ n < b
    OBVIOUS
  <2> QED
    BY <1>1, <2>1 DEF MaySay
<1>4. x \in Seq(Pairs)
  <2>1. <<i, sent[i] + 1>> \in Pairs
    BY <1>1, <1>3 DEF Pairs
  <2> QED
    BY <2>1
<1>5. IsSeq(e) /\ Rows(e) /\ Len(e) = Len(plan) /\ \A j \in Items : SaidIn(plan, sent, j) \in Seq(Pairs)
  BY <1>1, SaidRows
<1>6. IsSeq(f) /\ Rows(f) /\ Len(f) = Len(plan)
  BY <1>1, <1>2, SaidRows
<1>7. \A j \in Items : e[j] = (IF plan[j].kind = "text" THEN SaidIn(plan, sent, j) ELSE <<>>)
  BY <1>1 DEF SaidTexts
<1>8. \A j \in Items : f[j] = (IF plan[j].kind = "text" THEN SaidIn(plan', sent', j) ELSE <<>>)
  BY <1>1, <1>2 DEF SaidTexts
<1>9. \A n \in 1..Len(e) : n > i => e[n] = <<>>
  <2> SUFFICES ASSUME NEW n \in Items, n > i PROVE e[n] = <<>>
    BY <1>1, <1>5
  <2>1. ~Closed(i) /\ ~IsCall(i)
    BY <1>1, <1>3 DEF Closed, IsCall
  <2>2. ~(sent[n] >= 0)
    BY <1>1, <2>1 DEF InTurn
  <2>3. sent[n] = -1 /\ plan[n].bits \in Nat
    BY <1>1, <2>2
  <2>4. SaidIn(plan, sent, n) = Bits(n, -1)
    BY <2>3 DEF SaidIn
  <2>5. Bits(n, -1) = <<>>
    BY DEF Bits
  <2> HIDE DEF e
  <2> QED
    BY <1>7, <2>4, <2>5
<1> HIDE DEF e, f
<1>10. f[i] = e[i] \o x
  <2>1. e[i] = SaidIn(plan, sent, i) /\ f[i] = Append(SaidIn(plan, sent, i), <<i, sent[i] + 1>>)
    BY <1>2, <1>7, <1>8
  <2>2. \A s \in Seq(Pairs) : Append(s, <<i, sent[i] + 1>>) = s \o << <<i, sent[i] + 1>> >>
    BY <1>4
  <2> QED
    BY <1>5, <2>1, <2>2
<1>11. \A n \in 1..Len(e) : n # i => f[n] = e[n]
  BY <1>1, <1>2, <1>5, <1>7, <1>8
<1>12. i \in 1..Len(e) /\ Len(f) = Len(e)
  BY <1>1, <1>5, <1>6
<1> HIDE DEF x
<1>13. FlattenSeq(f) = FlattenSeq(e) \o x
  BY <1>4, <1>5, <1>6, <1>9, <1>10, <1>11, <1>12, FlattenGrows
<1>14. SaidText = FlattenSeq(e) /\ SaidText' = FlattenSeq(f)
  BY SaidTextIs, SaidTextNext DEF e, f
<1> QED
  BY <1>4, <1>13, <1>14 DEF x

\* An item starts: it comes last.
LEMMA StartInTurn ==
  ASSUME plan \in Plans, Gathered, InTurn, NEW i \in Items, MayStart(i), Moves(i),
         \/ NewAccumulator(i) /\ (api = "messages" \/ IsCall(i))
         \/ api # "messages" /\ UNCHANGED acc
  PROVE  InTurn'
<1>1. /\ UNCHANGED <<api, plan>> /\ Items' = Items /\ Items = 1..Len(plan) /\ Len(plan) \in Nat
      /\ \A j \in Items : (IsCall(j)' <=> IsCall(j)) /\ plan[j].bits \in Nat
  BY PlanFacts, SaidNext DEF Gathered, IsCall
<1>2. sent \in [Items -> Int] /\ sent[i] = -1 /\ \A j \in 1..(i - 1) : Closed(j) \/ (sent[j] >= 0 /\ IsCall(j))
  BY DEF Gathered, MayStart
<1>3. sent' \in [Items -> Int] /\ sent'[i] = 0 /\ \A j \in Items : j # i => sent'[j] = sent[j]
  BY <1>2, SaidNext
<1>4. \A j \in Items : Closed(j) => Closed(j)'
  <2> SUFFICES ASSUME NEW j \in Items, Closed(j) PROVE Closed(j)'
    OBVIOUS
  <2>1. j # i
    BY <1>1, <1>2 DEF Closed
  <2> QED
    BY <1>1, <1>3, <2>1 DEF Closed
<1>5. ASSUME NEW h \in Items, NEW j \in Items, h < j, sent'[j] >= 0 PROVE Closed(h)' \/ IsCall(h)'
  <2>1. CASE j = i
    <3>1. h \in 1..(i - 1)
      BY <1>1, <1>5, <2>1
    <3> QED
      BY <1>1, <1>2, <1>4, <3>1
  <2>2. CASE j # i
    <3>1. sent[j] >= 0
      BY <1>3, <1>5, <2>2
    <3>2. Closed(h) \/ IsCall(h)
      BY <1>5, <3>1 DEF InTurn
    <3> QED
      BY <1>1, <1>4, <3>2
  <2> QED
    BY <2>1, <2>2
<1>6. /\ IsSeq(acc) /\ Len(acc) \in Nat /\ DOMAIN acc = 1..Len(acc)
      /\ \A k \in DOMAIN acc : acc[k].item \in Items /\ sent[acc[k].item] >= 0
  BY SeqFacts DEF Gathered
<1>7. api = "messages" => Len(acc) + 1 = i
  <2> SUFFICES ASSUME api = "messages" PROVE Len(acc) + 1 = i
    OBVIOUS
  <2>1. \A k \in DOMAIN acc : acc[k].item = k
    BY DEF InTurn
  <2>2. i \notin DOMAIN acc
    BY <1>2, <1>6, <2>1
  <2>3. \A j \in 1..(i - 1) : j \in DOMAIN acc
    <3> SUFFICES ASSUME NEW j \in 1..(i - 1) PROVE j \in DOMAIN acc
      OBVIOUS
    <3>1. j \in Items /\ sent[j] \in Int
      BY <1>1, <1>2
    <3>2. sent[j] >= 0
      BY <1>2, <3>1, ClosedIsSaid
    <3>3. PICK k \in DOMAIN acc : acc[k].item = j
      BY <3>1, <3>2 DEF Gathered
    <3> QED
      BY <2>1, <3>3
  <2>4. i \in Nat /\ i >= 1 /\ (i > 1 => i - 1 \in 1..(i - 1))
    BY <1>1
  <2>5. ~(i <= Len(acc))
    BY <1>6, <2>2, <2>4
  <2>6. i > 1 => i - 1 <= Len(acc)
    BY <1>6, <2>3, <2>4
  <2> QED
    BY <1>6, <2>4, <2>5, <2>6
<1>8. CASE NewAccumulator(i) /\ (api = "messages" \/ IsCall(i))
  <2> DEFINE e == [item |-> i, bits |-> <<>>]
             a == Append(acc, e)
  <2>1. acc' = a
    BY <1>8 DEF NewAccumulator
  <2>2. /\ DOMAIN a = DOMAIN acc \cup {Len(acc) + 1} /\ a[Len(acc) + 1] = e
        /\ \A k \in DOMAIN acc : a[k] = acc[k]
    BY <1>6, AppendIsSeq
  <2>3. e.item = i
    OBVIOUS
  <2> HIDE DEF a, e
  <2>4. api = "messages" => \A k \in DOMAIN acc' : acc'[k].item = k
    BY <1>7, <2>1, <2>2, <2>3 DEF InTurn
  <2>5. api # "messages" => \A k \in DOMAIN acc' : plan'[acc'[k].item].kind = "call"
    <3> SUFFICES ASSUME api # "messages", NEW k \in DOMAIN acc' PROVE plan'[acc'[k].item].kind = "call"
      OBVIOUS
    <3>1. CASE k \in DOMAIN acc
      <4>1. IsCall(acc[k].item) /\ acc[k].item \in Items /\ acc'[k] = acc[k]
        BY <1>6, <2>1, <2>2, <3>1 DEF InTurn
      <4> QED
        BY <1>1, <4>1 DEF IsCall
    <3>2. CASE k = Len(acc) + 1
      <4>1. acc'[k].item = i /\ IsCall(i)
        BY <1>8, <2>1, <2>2, <2>3, <3>2
      <4> QED
        BY <1>1, <4>1 DEF IsCall
    <3> QED
      BY <2>1, <2>2, <3>1, <3>2
  <2> QED
    BY <1>1, <1>5, <2>4, <2>5 DEF InTurn, IsCall
<1>9. CASE api # "messages" /\ UNCHANGED acc
  <2>1. \A k \in DOMAIN acc' : plan'[acc'[k].item].kind = "call"
    BY <1>1, <1>6, <1>9 DEF InTurn, IsCall
  <2> QED
    BY <1>1, <1>5, <1>9, <2>1 DEF InTurn, IsCall
<1> QED
  BY <1>8, <1>9

\* A bit, or a close, leaves the items where they are.
LEMMA BitInTurn ==
  ASSUME plan \in Plans, Gathered, InTurn, NEW i \in Items, Moves(i),
         \/ MaySay(i) /\ Accumulate(i, <<i, sent[i] + 1>>)
         \/ MayClose(i) /\ UNCHANGED acc
  PROVE  InTurn'
<1>1. /\ UNCHANGED <<api, plan>> /\ Items' = Items
      /\ \A j \in Items : (IsCall(j)' <=> IsCall(j)) /\ plan[j].bits \in Nat
  BY PlanFacts, SaidNext DEF Gathered, IsCall
<1>2. /\ sent \in [Items -> Int] /\ sent' \in [Items -> Int] /\ sent'[i] = sent[i] + 1
      /\ \A j \in Items : j # i => sent'[j] = sent[j]
  BY SaidNext DEF Gathered
<1>3. \A j \in Items : Closed(j) => Closed(j)'
  BY <1>1, <1>2 DEF Closed
<1>4. sent[i] >= 0
  <2>1. \A b \in Nat, n \in Int : n \in 0..(b - 1) \/ n = b => n >= 0
    OBVIOUS
  <2> QED
    BY <1>1, <1>2, <2>1 DEF MaySay, MayClose
<1>5. ASSUME NEW h \in Items, NEW j \in Items, h < j, sent'[j] >= 0 PROVE Closed(h)' \/ IsCall(h)'
  <2>1. sent[j] >= 0
    BY <1>2, <1>4, <1>5
  <2> QED
    BY <1>1, <1>3, <1>5, <2>1 DEF InTurn
<1>6. DOMAIN acc' = DOMAIN acc /\ \A k \in DOMAIN acc : acc'[k].item = acc[k].item /\ acc[k].item \in Items
  <2>1. \A k \in DOMAIN acc : acc[k] = [item |-> acc[k].item, bits |-> acc[k].bits] /\ acc[k].item \in Items
    BY DEF Gathered
  <2>2. CASE Accumulate(i, <<i, sent[i] + 1>>)
    <3>1. acc' = [k \in DOMAIN acc |-> Gather(acc[k], i, <<i, sent[i] + 1>>)]
      BY <2>2 DEF Accumulate
    <3>2. ASSUME NEW k \in DOMAIN acc PROVE Gather(acc[k], i, <<i, sent[i] + 1>>).item = acc[k].item
      <4> DEFINE e == acc[k]
      <4>1. e = [item |-> e.item, bits |-> e.bits]
        BY <2>1
      <4> HIDE DEF e
      <4>2. [e EXCEPT !.bits = Append(@, <<i, sent[i] + 1>>)].item = e.item
        BY <4>1
      <4>3. Gather(e, i, <<i, sent[i] + 1>>).item = e.item
        BY <4>2 DEF Gather
      <4> QED
        BY <4>3 DEF e
    <3> QED
      BY <2>1, <3>1, <3>2
  <2>3. CASE UNCHANGED acc
    BY <2>1, <2>3
  <2> QED
    BY <2>2, <2>3
<1>7. /\ api' = "messages" => \A k \in DOMAIN acc' : acc'[k].item = k
      /\ api' # "messages" => \A k \in DOMAIN acc' : plan'[acc'[k].item].kind = "call"
  BY <1>1, <1>6 DEF InTurn, IsCall
<1> QED
  BY <1>1, <1>5, <1>7 DEF InTurn, IsCall

\* A line that moves no item.
LEMMA SameTurn ==
  ASSUME InTurn, UNCHANGED <<api, plan, sent, acc>>
  PROVE  InTurn' /\ UNCHANGED SaidText
<1>1. Items' = Items /\ \A i \in Items : (Closed(i)' <=> Closed(i))
  BY DEF Items, Closed
<1>2. \A i : IsCall(i)' <=> IsCall(i)
  BY DEF IsCall
<1>3. InTurn'
  BY <1>1, <1>2 DEF InTurn
<1>4. SaidTexts(plan', sent') = SaidTexts(plan, sent)
  OBVIOUS
<1> QED
  BY <1>3, <1>4, SaidTextIs, SaidTextNext

-----------------------------------------------------------------------------
(* A response is heard.                                                    *)

LEMMA PrefixOfItself == ASSUME NEW s \in Seq(Pairs) PROVE IsPrefix(s, s)
BY DEF IsPrefix

\* Nothing is a prefix of everything.
LEMMA NothingIsPrefix == ASSUME NEW s \in Seq(Pairs) PROVE IsPrefix(<<>>, s)
<1>1. SubSeq(s, 1, 0) = <<>> /\ SubSeq(<<>>, 1, 0) = <<>> /\ Len(<<>>) = 0 /\ Len(s) >= 0
  OBVIOUS
<1> QED
  BY <1>1 DEF IsPrefix

\* What comes first is a prefix.
LEMMA PrefixOfMore ==
  ASSUME NEW s \in Seq(Pairs), NEW t \in Seq(Pairs)
  PROVE  IsPrefix(s, s \o t)
<1> DEFINE w == s \o t
<1>1. w \in Seq(Pairs) /\ Len(w) = Len(s) + Len(t) /\ \A k \in 1..Len(s) : w[k] = s[k]
  OBVIOUS
<1>2. Len(s) \in Nat /\ Len(t) \in Nat
  OBVIOUS
<1> HIDE DEF w
<1>3. SubSeq(w, 1, Len(s)) = SubSeq(s, 1, Len(s))
  BY <1>1, <1>2
<1> QED
  BY <1>1, <1>2, <1>3 DEF IsPrefix, w

\* One response more.
LEMMA GotOneMore ==
  ASSUME StreamIInv, Heard, Reading, NEW r, got' = Append(got, r), TextOf(r.parts) \in Seq(Pairs)
  PROVE  /\ \A k \in DOMAIN got' : TextOf(got'[k].parts) \in Seq(Pairs)
         /\ ShownText \in Seq(Pairs) /\ KeptText = <<>>
         /\ ShownText' = (IF r.flag = "delta" THEN ShownText \o TextOf(r.parts) ELSE ShownText)
         /\ KeptText' = (IF r.flag \in {"final", "complete"} THEN TextOf(r.parts) ELSE <<>>)
         /\ HasDelta' <=> HasDelta \/ r.flag = "delta"
         /\ Completed' <=> r.flag = "complete"
<1> DEFINE a == Append(got, r)
<1>1. ~Completed /\ IsSeq(got)
  BY NotComplete
<1>2. DOMAIN a = DOMAIN got \cup {Len(got) + 1} /\ a[Len(got) + 1] = r /\ \A k \in DOMAIN got : a[k] = got[k]
  BY <1>1, AppendIsSeq
<1>3. /\ \A flags : /\ TextIn(got, flags) \in Seq(Pairs)
                    /\ TextIn(a, flags) =
                         IF r.flag \in flags THEN TextIn(got, flags) \o TextOf(r.parts) ELSE TextIn(got, flags)
      /\ \A k \in DOMAIN got : TextOf(got[k].parts) \in Seq(Pairs)
  BY <1>1, TextInMore DEF Heard
<1>4. got' = a
  OBVIOUS
<1> HIDE DEF a
<1>5. ShownText' = TextIn(a, {"delta"}) /\ KeptText' = TextIn(a, {"final", "complete"})
  BY <1>4 DEF ShownText, KeptText
<1>6. KeptText = <<>>
  BY DEF Heard
<1>7. KeptText' = (IF r.flag \in {"final", "complete"} THEN TextOf(r.parts) ELSE <<>>)
  <2>1. <<>> \o TextOf(r.parts) = TextOf(r.parts)
    OBVIOUS
  <2> QED
    BY <1>3, <1>5, <1>6, <2>1 DEF KeptText
<1>8. ShownText' = (IF r.flag = "delta" THEN ShownText \o TextOf(r.parts) ELSE ShownText)
  BY <1>3, <1>5 DEF ShownText
<1>9. \A k \in DOMAIN got' : TextOf(got'[k].parts) \in Seq(Pairs)
  BY <1>2, <1>3, <1>4
<1>10. (HasDelta' <=> HasDelta \/ r.flag = "delta") /\ (Completed' <=> r.flag = "complete")
  BY <1>1, <1>2, <1>4 DEF HasDelta, Completed
<1> QED
  BY <1>3, <1>6, <1>7, <1>8, <1>9, <1>10 DEF ShownText

\* Nothing is heard, or nothing of the text.
LEMMA NothingHeard ==
  ASSUME StreamIInv, Heard, Reading, plan \in Plans, Gathered, UNCHANGED <<api, SaidText>>,
         \/ UNCHANGED got
         \/ \E r : got' = Append(got, r) /\ TextOf(r.parts) = <<>> /\ r.flag # "complete"
  PROVE  Heard'
<1>1. ~Completed /\ SaidText \in Seq(Pairs) /\ ShownText = SaidText /\ KeptText = <<>>
  BY NotComplete, SaidType DEF Heard
<1>2. IsPrefix(SaidText, SaidText)
  BY <1>1, PrefixOfItself
<1>3. CASE UNCHANGED got
  <2>1. UNCHANGED <<ShownText, KeptText, HasDelta, Completed>>
    BY <1>3 DEF ShownText, KeptText, HasDelta, Completed
  <2> QED
    BY <1>1, <1>2, <1>3, <2>1 DEF Heard
<1>4. CASE \E r : got' = Append(got, r) /\ TextOf(r.parts) = <<>> /\ r.flag # "complete"
  <2>1. PICK r : got' = Append(got, r) /\ TextOf(r.parts) = <<>> /\ r.flag # "complete"
    BY <1>4
  <2>2. <<>> \in Seq(Pairs) /\ \A s \in Seq(Pairs) : s \o <<>> = s
    OBVIOUS
  <2>3. /\ \A k \in DOMAIN got' : TextOf(got'[k].parts) \in Seq(Pairs)
        /\ ShownText' = ShownText /\ KeptText' = <<>> /\ ~Completed'
    BY <1>1, <2>1, <2>2, GotOneMore
  <2> QED
    BY <1>1, <1>2, <2>3 DEF Heard
<1> QED
  BY <1>3, <1>4

\* A delta of a text is heard; after the consumer has left, the runtime panics.
LEMMA DeltaHeard ==
  ASSUME StreamIInv, Heard, Reading, plan \in Plans, Gathered, UNCHANGED api,
         NEW x \in Seq(Pairs), SaidText' = SaidText \o x,
         \/ UNCHANGED got /\ pc' = "panicked"
         \/ \E r : got' = Append(got, r) /\ TextOf(r.parts) = x /\ r.flag = "delta"
  PROVE  Heard'
<1>1. ~Completed /\ SaidText \in Seq(Pairs) /\ ShownText = SaidText /\ KeptText = <<>>
  BY NotComplete, SaidType DEF Heard
<1>2. IsPrefix(SaidText, SaidText') /\ SaidText' \in Seq(Pairs)
  BY <1>1, PrefixOfMore
<1>3. CASE UNCHANGED got /\ pc' = "panicked"
  <2>1. UNCHANGED <<ShownText, KeptText, Completed>> /\ ~Reading'
    BY <1>3 DEF ShownText, KeptText, Completed, Reading
  <2>2. \A k \in DOMAIN got' : TextOf(got'[k].parts) \in Seq(Pairs)
    BY <1>3 DEF Heard
  <2> QED
    BY <1>1, <1>2, <1>3, <2>1, <2>2 DEF Heard
<1>4. CASE \E r : got' = Append(got, r) /\ TextOf(r.parts) = x /\ r.flag = "delta"
  <2>1. PICK r : got' = Append(got, r) /\ TextOf(r.parts) = x /\ r.flag = "delta"
    BY <1>4
  <2>2. /\ \A k \in DOMAIN got' : TextOf(got'[k].parts) \in Seq(Pairs)
        /\ ShownText' = ShownText \o x /\ KeptText' = <<>> /\ ~Completed'
    BY <2>1, GotOneMore
  <2>3. IsPrefix(SaidText', SaidText')
    BY <1>2, PrefixOfItself
  <2> QED
    BY <1>1, <2>2, <2>3 DEF Heard
<1> QED
  BY <1>3, <1>4

\* The closing response: the text said, as far as the api repeats it there, or none of it.
LEMMA LastHeard ==
  ASSUME StreamIInv, Heard, Reading, plan \in Plans, Gathered, UNCHANGED api, SaidText' \in Seq(Pairs),
         UNCHANGED SaidText \/ got = <<>>,
         NEW r, YieldLast(r), r.flag \in Terminal, TextOf(r.parts) \in Seq(Pairs),
         r.flag = "complete" => (api # "chat" \/ ~HasDelta => TextOf(r.parts) = SaidText')
  PROVE  Heard'
<1>1. ~Completed /\ SaidText \in Seq(Pairs) /\ ShownText = SaidText /\ KeptText = <<>>
  BY NotComplete, SaidType DEF Heard
<1>2. got = <<>> => ShownText = <<>> /\ ~HasDelta
  BY TextInNothing, EmptyIsSeq DEF ShownText, HasDelta
<1>3. IsPrefix(ShownText, SaidText')
  BY <1>1, <1>2, PrefixOfItself, NothingIsPrefix
<1>4. ~Reading' /\ ((UNCHANGED got /\ pc' = "panicked") \/ got' = Append(got, r))
  BY DEF YieldLast, Reading
<1>5. CASE UNCHANGED got /\ pc' = "panicked"
  <2>1. UNCHANGED <<ShownText, KeptText, Completed>>
    BY <1>5 DEF ShownText, KeptText, Completed
  <2>2. \A k \in DOMAIN got' : TextOf(got'[k].parts) \in Seq(Pairs)
    BY <1>5 DEF Heard
  <2> QED
    BY <1>1, <1>3, <1>4, <1>5, <2>1, <2>2 DEF Heard
<1>6. CASE got' = Append(got, r)
  <2>1. r.flag # "delta" /\ r.flag # "final"
    BY DEF Terminal
  <2>2. /\ \A k \in DOMAIN got' : TextOf(got'[k].parts) \in Seq(Pairs)
        /\ ShownText' = ShownText /\ KeptText' = (IF r.flag = "complete" THEN TextOf(r.parts) ELSE <<>>)
        /\ (HasDelta' <=> HasDelta) /\ (Completed' <=> r.flag = "complete")
    BY <1>6, <2>1, GotOneMore
  <2>3. HasDelta => ShownText' = SaidText'
    BY <1>1, <1>2, <2>2
  <2> QED
    BY <1>3, <1>4, <2>2, <2>3 DEF Heard
<1> QED
  BY <1>4, <1>5, <1>6

\* Errors and interruptions have no parts.
LEMMA FaultsHaveNoText ==
  /\ Error.flag \in Terminal /\ Error.flag # "complete" /\ TextOf(Error.parts) = <<>>
  /\ Interrupted.flag \in Terminal /\ Interrupted.flag # "complete" /\ TextOf(Interrupted.parts) = <<>>
BY NoPartsNoText DEF Error, Interrupted, Response, Terminal

\* A part shown as it is said.
LEMMA ShownPart ==
  ASSUME NEW i, NEW bit, << bit >> \in Seq(Pairs)
  PROVE  TextOf(<< Shown(i, bit) >>) = (IF plan[i].kind = "text" THEN << bit >> ELSE <<>>)
<1> DEFINE q == Shown(i, bit)
<1>1. q.kind = plan[i].kind /\ q.bits = << bit >>
  BY DEF Shown, Part
<1> HIDE DEF q
<1>2. TextOf(<< q >>) = (IF plan[i].kind = "text" THEN << bit >> ELSE <<>>)
  BY <1>1, OneText, OneOther
<1> QED
  BY <1>2 DEF q

\* A delta and its parts.
LEMMA DeltaIs == ASSUME NEW parts PROVE Delta(parts).flag = "delta" /\ Delta(parts).parts = parts
BY DEF Delta, Response

\* A response and its parts.
LEMMA ResponseIs ==
  ASSUME NEW flag, NEW parts, NEW reason
  PROVE  Response(flag, parts, reason).flag = flag /\ Response(flag, parts, reason).parts = parts
BY DEF Response

\* A closing response with parts, when the conversation streamed or when it did not.
LEMMA LastPartsHeard ==
  ASSUME StreamIInv, Heard, Reading, plan \in Plans, Gathered, UNCHANGED api, SaidText' \in Seq(Pairs),
         UNCHANGED SaidText \/ got = <<>>,
         NEW parts, NEW reason, YieldLast(Response("complete", parts, reason)), TextOf(parts) \in Seq(Pairs),
         api # "chat" \/ ~HasDelta => TextOf(parts) = SaidText'
  PROVE  Heard' /\ ~Reading'
<1> DEFINE r == Response("complete", parts, reason)
<1>1. r.flag = "complete" /\ r.parts = parts /\ r.flag \in Terminal
  BY ResponseIs DEF Terminal
<1>2. YieldLast(r) /\ ~Reading'
  BY DEF YieldLast, Reading
<1> HIDE DEF r
<1> QED
  BY <1>1, <1>2, LastHeard

\* An error or an interruption closes.
LEMMA LastFaultHeard ==
  ASSUME StreamIInv, Heard, Reading, plan \in Plans, Gathered, UNCHANGED api, SaidText' \in Seq(Pairs),
         UNCHANGED SaidText \/ got = <<>>,
         NEW r, r \in {Error, Interrupted}, YieldLast(r)
  PROVE  Heard' /\ ~Reading'
<1>1. r.flag \in Terminal /\ r.flag # "complete" /\ TextOf(r.parts) = <<>> /\ <<>> \in Seq(Pairs)
  BY FaultsHaveNoText
<1>2. ~Reading'
  BY DEF YieldLast, Reading
<1> QED
  BY <1>1, <1>2, LastHeard

\* What a bit makes heard: a text is shown, what is no text is passed over or shown as it is.
LEMMA BitHeard ==
  ASSUME StreamIInv, Heard, Reading, plan \in Plans, Gathered, InTurn, NEW i \in Items, Moves(i), MaySay(i),
         LET parts == <<Shown(i, <<i, sent[i] + 1>>)>>
         IN  \/ plan[i].kind # "text" /\ (UNCHANGED got \/ got' = Append(got, Delta(<<>>)))
             \/ got' = Append(got, Delta(parts))
             \/ UNCHANGED got /\ pc' = "panicked"
  PROVE  Heard'
<1> DEFINE x == << <<i, sent[i] + 1>> >>
           parts == <<Shown(i, <<i, sent[i] + 1>>)>>
           r == Delta(parts)
           none == Delta(<<>>)
<1>1. UNCHANGED api
  BY DEF Moves
<1>2. x \in Seq(Pairs)
  <2>1. sent[i] \in Int /\ plan[i].bits \in Nat /\ i \in Nat
    BY PlanFacts DEF Gathered
  <2>2. \A b \in Nat, n \in Int : n \in 0..(b - 1) => n + 1 \in Nat
    OBVIOUS
  <2>3. <<i, sent[i] + 1>> \in Pairs
    BY <2>1, <2>2 DEF MaySay, Pairs
  <2> QED
    BY <2>3
<1>3. r.flag = "delta" /\ TextOf(r.parts) = (IF plan[i].kind = "text" THEN x ELSE <<>>)
  BY <1>2, ShownPart, DeltaIs
<1>4. none.flag = "delta" /\ TextOf(none.parts) = <<>>
  BY NoPartsNoText, DeltaIs
<1>5. CASE plan[i].kind = "text"
  <2>1. SaidText' = SaidText \o x
    BY <1>5, SaidGrows
  <2>2. (UNCHANGED got /\ pc' = "panicked") \/ got' = Append(got, r)
    BY <1>5
  <2> HIDE DEF x, r, parts, none
  <2> QED
    BY <1>1, <1>2, <1>3, <1>5, <2>1, <2>2, DeltaHeard
<1>6. CASE plan[i].kind # "text"
  <2>1. UNCHANGED SaidText
    BY <1>6, SaidStays
  <2>2. UNCHANGED got \/ got' = Append(got, r) \/ got' = Append(got, none)
    OBVIOUS
  <2> HIDE DEF x, r, parts, none
  <2> QED
    BY <1>1, <1>3, <1>4, <1>6, <2>1, <2>2, NothingHeard
<1> QED
  BY <1>5, <1>6

\* What starting or closing an item makes heard.
LEMMA EdgeHeard ==
  ASSUME StreamIInv, Heard, Reading, plan \in Plans, Gathered, NEW i \in Items, Moves(i), MayStart(i) \/ MayClose(i),
         \/ UNCHANGED got
         \/ got' = Append(got, Delta(<<>>))
         \/ \E bits : IsCall(i) /\ got' = Append(got, Delta(<<Part(i, bits)>>))
  PROVE  Heard'
<1>1. UNCHANGED api /\ UNCHANGED SaidText
  BY SaidStays DEF Moves
<1>2. UNCHANGED got \/ \E r : got' = Append(got, r) /\ TextOf(r.parts) = <<>> /\ r.flag # "complete"
  <2>1. Delta(<<>>).flag # "complete" /\ TextOf(Delta(<<>>).parts) = <<>>
    BY NoPartsNoText, DeltaIs
  <2>2. ASSUME NEW bits, IsCall(i)
        PROVE  Delta(<<Part(i, bits)>>).flag # "complete" /\ TextOf(Delta(<<Part(i, bits)>>).parts) = <<>>
    <3> DEFINE q == Part(i, bits)
    <3>1. q.kind # "text"
      BY <2>2 DEF Part, IsCall
    <3> HIDE DEF q
    <3>2. TextOf(<<q>>) = <<>>
      BY <3>1, OneOther
    <3> QED
      BY <3>2, DeltaIs DEF q
  <2>3. CASE \E bits : IsCall(i) /\ got' = Append(got, Delta(<<Part(i, bits)>>))
    <3>1. PICK bits : IsCall(i) /\ got' = Append(got, Delta(<<Part(i, bits)>>))
      BY <2>3
    <3> DEFINE r == Delta(<<Part(i, bits)>>)
    <3>2. got' = Append(got, r) /\ TextOf(r.parts) = <<>> /\ r.flag # "complete"
      BY <2>2, <3>1
    <3> HIDE DEF r
    <3> QED
      BY <3>2
  <2>4. CASE got' = Append(got, Delta(<<>>))
    <3> DEFINE r == Delta(<<>>)
    <3>1. got' = Append(got, r) /\ TextOf(r.parts) = <<>> /\ r.flag # "complete"
      BY <2>1, <2>4
    <3> HIDE DEF r
    <3> QED
      BY <3>1
  <2> QED
    BY <2>3, <2>4
<1> QED
  BY <1>1, <1>2, NothingHeard

\* The text over the lines of chat.
LEMMA ChatTextSteps ==
  ASSUME StreamIInv, CallsIInv, TextIInv, Chat
  PROVE  TextIInv'
<1>1. /\ Reading /\ plan \in Plans /\ Gathered /\ Heard /\ InTurn /\ api = "chat" /\ UNCHANGED <<api, plan>>
      /\ SaidText \in Seq(Pairs)
  <2>1. Reading /\ api = "chat" /\ UNCHANGED <<api, plan>>
    BY DEF Chat, ChatStart, ChatBit, ChatFinish, ChatDone, AnswerChat, Live, Moves
  <2>2. plan \in Plans /\ Gathered /\ Heard /\ InTurn
    BY <2>1 DEF CallsIInv, TextIInv
  <2> QED
    BY <2>1, <2>2, SaidType
<1>2. ASSUME NEW i \in Items, ChatStart(i) PROVE TextIInv'
  <2>1. InTurn'
    BY <1>1, <1>2, StartInTurn DEF ChatStart
  <2>2. UNCHANGED got \/ got' = Append(got, Delta(<<>>))
    BY <1>2 DEF ChatStart, Yield, YieldTo
  <2>3. Heard'
    BY <1>1, <1>2, <2>2, EdgeHeard DEF ChatStart
  <2> QED
    BY <2>1, <2>3 DEF TextIInv
<1>3. ASSUME NEW i \in Items, ChatBit(i) PROVE TextIInv'
  <2> DEFINE bit == <<i, sent[i] + 1>>
  <2>1. InTurn'
    BY <1>1, <1>3, BitInTurn DEF ChatBit
  <2>2. Yield(Delta(IF IsCall(i) THEN <<>> ELSE <<Shown(i, bit)>>)) /\ MaySay(i) /\ Moves(i)
    BY <1>3 DEF ChatBit
  <2>3. CASE IsCall(i)
    <3>1. UNCHANGED got \/ got' = Append(got, Delta(<<>>))
      BY <2>2, <2>3 DEF Yield, YieldTo
    <3>2. plan[i].kind # "text"
      BY <2>3 DEF IsCall
    <3>3. Heard'
      BY <1>1, <2>2, <3>1, <3>2, BitHeard
    <3> QED
      BY <2>1, <3>3 DEF TextIInv
  <2>4. CASE ~IsCall(i)
    <3>1. (UNCHANGED got /\ pc' = "panicked") \/ got' = Append(got, Delta(<<Shown(i, bit)>>))
      BY <2>2, <2>4 DEF Yield, YieldTo
    <3>2. Heard'
      BY <1>1, <2>2, <3>1, BitHeard
    <3> QED
      BY <2>1, <3>2 DEF TextIInv
  <2> QED
    BY <2>3, <2>4
<1>4. ASSUME NEW why \in Reasons, ChatFinish(why) PROVE TextIInv'
  <2> DEFINE r == Response("final", ChatCalls, ChatFinishReason[why])
  <2>1. UNCHANGED <<sent, acc>> /\ (UNCHANGED got \/ got' = Append(got, r))
    BY <1>4 DEF ChatFinish, Yield, YieldTo
  <2>2. InTurn' /\ UNCHANGED SaidText
    BY <1>1, <2>1, SameTurn
  <2>3. r.flag # "complete" /\ TextOf(r.parts) = <<>>
    BY <1>1, ResponseIs, ChatCallsHaveNoText
  <2> HIDE DEF r
  <2>4. Heard'
    BY <1>1, <2>1, <2>2, <2>3, NothingHeard
  <2> QED
    BY <2>2, <2>4 DEF TextIInv
<1>5. CASE ChatDone
  <2>1. UNCHANGED <<sent, acc>> /\ YieldLast(Response("complete", <<>>, ""))
    BY <1>5 DEF ChatDone
  <2>2. UNCHANGED SaidText
    BY <1>1, <2>1, SameTurn
  <2>3. ~HasDelta => SaidText = <<>>
    <3>1. ~HasDelta => ShownText = <<>>
      <4>1. IsSeq(got)
        BY DEF StreamIInv
      <4>2. ~HasDelta => \A k \in DOMAIN got : got[k].flag \notin {"delta"}
        BY DEF HasDelta
      <4> QED
        BY <4>1, <4>2, NoneFlagged DEF ShownText
    <3> QED
      BY <1>1, <3>1 DEF Heard
  <2>4. TextOf(<<>>) = <<>> /\ <<>> \in Seq(Pairs)
    BY NoPartsNoText
  <2>5. Heard' /\ ~Reading'
    BY <1>1, <2>1, <2>2, <2>3, <2>4, LastPartsHeard
  <2> QED
    BY <2>5 DEF TextIInv
<1>6. CASE AnswerChat
  <2> DEFINE all == [i \in Items |-> WholePart(i)]
             calls == {i \in Items : IsCall(i)}
             parts == Sift(all, Items \ calls) \o Sift(all, calls)
  <2>1. /\ got = <<>> /\ sent' = [i \in Items |-> plan[i].bits + 1]
        /\ YieldLast(Response("complete", parts, ChatFinishReason[finish']))
    BY <1>6 DEF AnswerChat, Unasked, AllSaid
  <2>2. TextOf(parts) = SaidText' /\ TextOf(parts) \in Seq(Pairs)
    BY <1>1, <2>1, ChatAnswerText
  <2> HIDE DEF parts
  <2>3. Heard' /\ ~Reading'
    BY <1>1, <2>1, <2>2, LastPartsHeard
  <2> QED
    BY <2>3 DEF TextIInv
<1> QED
  BY <1>2, <1>3, <1>4, <1>5, <1>6 DEF Chat

\* The text over the lines of responses.
LEMMA ResponsesTextSteps ==
  ASSUME StreamIInv, CallsIInv, TextIInv, Responses
  PROVE  TextIInv'
<1>1. /\ Reading /\ plan \in Plans /\ Gathered /\ Heard /\ InTurn /\ api = "responses" /\ UNCHANGED <<api, plan>>
      /\ SaidText \in Seq(Pairs)
  <2>1. Reading /\ api = "responses" /\ UNCHANGED <<api, plan>>
    BY DEF Responses, ItemAdded, ResponsesBit, ItemDone, ResponseFinished, ResponsesEof, ResponseFailed, AnswerResponses, Live, Moves
  <2>2. plan \in Plans /\ Gathered /\ Heard /\ InTurn
    BY <2>1 DEF CallsIInv, TextIInv
  <2> QED
    BY <2>1, <2>2, SaidType
<1>2. ASSUME NEW i \in Items, ItemAdded(i) PROVE TextIInv'
  <2>1. InTurn'
    BY <1>1, <1>2, StartInTurn DEF ItemAdded
  <2>2. Heard'
    BY <1>1, <1>2, EdgeHeard DEF ItemAdded, Silent
  <2> QED
    BY <2>1, <2>2 DEF TextIInv
<1>3. ASSUME NEW i \in Items, ResponsesBit(i) PROVE TextIInv'
  <2> DEFINE bit == <<i, sent[i] + 1>>
  <2>1. InTurn'
    BY <1>1, <1>3, BitInTurn DEF ResponsesBit
  <2>2. MaySay(i) /\ Moves(i) /\ IF IsCall(i) THEN UNCHANGED got ELSE Yield(Delta(<<Shown(i, bit)>>))
    BY <1>3 DEF ResponsesBit, Silent
  <2>3. CASE IsCall(i)
    <3>1. plan[i].kind # "text"
      BY <2>3 DEF IsCall
    <3>2. Heard'
      BY <1>1, <2>2, <2>3, <3>1, BitHeard
    <3> QED
      BY <2>1, <3>2 DEF TextIInv
  <2>4. CASE ~IsCall(i)
    <3>1. (UNCHANGED got /\ pc' = "panicked") \/ got' = Append(got, Delta(<<Shown(i, bit)>>))
      BY <2>2, <2>4 DEF Yield, YieldTo
    <3>2. Heard'
      BY <1>1, <2>2, <3>1, BitHeard
    <3> QED
      BY <2>1, <3>2 DEF TextIInv
  <2> QED
    BY <2>3, <2>4
<1>4. ASSUME NEW i \in Items, ItemDone(i) PROVE TextIInv'
  <2>1. InTurn'
    BY <1>1, <1>4, BitInTurn DEF ItemDone
  <2>2. UNCHANGED got \/ \E bits : IsCall(i) /\ got' = Append(got, Delta(<<Part(i, bits)>>))
    <3> DEFINE bits == Args(i, SelectSeq(acc, LAMBDA e : e.item = i)[1].bits)
    <3>1. IF IsCall(i) THEN Yield(Delta(<<Part(i, bits)>>)) ELSE UNCHANGED got
      BY <1>4 DEF ItemDone, Silent
    <3> HIDE DEF bits
    <3> QED
      BY <3>1 DEF Yield, YieldTo
  <2>3. Heard'
    BY <1>1, <1>4, <2>2, EdgeHeard DEF ItemDone
  <2> QED
    BY <2>1, <2>3 DEF TextIInv
<1>5. ASSUME NEW why \in Reasons, ResponseFinished(why) PROVE TextIInv'
  <2>1. UNCHANGED <<sent, acc, got>>
    BY <1>5 DEF ResponseFinished, Silent
  <2>2. InTurn' /\ UNCHANGED SaidText
    BY <1>1, <2>1, SameTurn
  <2>3. Heard'
    BY <1>1, <2>1, <2>2, NothingHeard
  <2> QED
    BY <2>2, <2>3 DEF TextIInv
<1>6. CASE ResponsesEof
  <2>1. UNCHANGED <<sent, acc>>
    BY <1>6 DEF ResponsesEof
  <2>2. UNCHANGED SaidText
    BY <1>1, <2>1, SameTurn
  <2>3. CASE finish = ""
    <3>1. UNCHANGED got /\ ~Reading'
      BY <1>6, <2>3 DEF ResponsesEof, Reading
    <3>2. Heard'
      BY <1>1, <2>2, <3>1, NothingHeard
    <3> QED
      BY <3>1, <3>2 DEF TextIInv
  <2>4. CASE finish # "" /\ OutputRefused
    <3>1. YieldLast(Error)
      BY <1>6, <2>4 DEF ResponsesEof, Output
    <3>2. Heard' /\ ~Reading'
      BY <1>1, <2>2, <3>1, LastFaultHeard
    <3> QED
      BY <3>2 DEF TextIInv
  <2>5. CASE finish # "" /\ ~OutputRefused
    <3>1. YieldLast(Response("complete", OutputParts, ResponsesFinishReason[finish]))
      BY <1>6, <2>5 DEF ResponsesEof, Output
    <3>2. Heard' /\ ~Reading'
      BY <1>1, <2>2, <3>1, OutputTextIs, LastPartsHeard
    <3> QED
      BY <3>2 DEF TextIInv
  <2> QED
    BY <2>3, <2>4, <2>5
<1>7. CASE ResponseFailed
  <2>1. UNCHANGED <<sent, acc>> /\ YieldLast(Error)
    BY <1>7 DEF ResponseFailed
  <2>2. UNCHANGED SaidText
    BY <1>1, <2>1, SameTurn
  <2>3. Heard' /\ ~Reading'
    BY <1>1, <2>1, <2>2, LastFaultHeard
  <2> QED
    BY <2>3 DEF TextIInv
<1>8. CASE AnswerResponses
  <2> DEFINE parts == [i \in Items |-> WholePart(i)]
  <2>1. /\ got = <<>> /\ sent' = [i \in Items |-> plan[i].bits + 1]
        /\ YieldLast(Error) \/ YieldLast(Response("complete", parts, "STOP"))
    BY <1>8 DEF AnswerResponses, Unasked, AllSaid
  <2>2. TextOf(parts) = SaidText' /\ TextOf(parts) \in Seq(Pairs)
    BY <1>1, <2>1, WholePartsText
  <2> HIDE DEF parts
  <2>3. CASE YieldLast(Error)
    <3>1. Heard' /\ ~Reading'
      BY <1>1, <2>1, <2>2, <2>3, LastFaultHeard
    <3> QED
      BY <3>1 DEF TextIInv
  <2>4. CASE YieldLast(Response("complete", parts, "STOP"))
    <3>1. Heard' /\ ~Reading'
      BY <1>1, <2>1, <2>2, <2>4, LastPartsHeard
    <3> QED
      BY <3>1 DEF TextIInv
  <2> QED
    BY <2>1, <2>3, <2>4
<1> QED
  BY <1>2, <1>3, <1>4, <1>5, <1>6, <1>7, <1>8 DEF Responses

\* The text over the lines of messages.
LEMMA MessagesTextSteps ==
  ASSUME StreamIInv, CallsIInv, TextIInv, Messages
  PROVE  TextIInv'
<1>1. /\ Reading /\ plan \in Plans /\ Gathered /\ Heard /\ InTurn /\ api = "messages" /\ UNCHANGED <<api, plan>>
      /\ SaidText \in Seq(Pairs)
  <2>1. Reading /\ api = "messages" /\ UNCHANGED <<api, plan>>
    BY DEF Messages, BlockStart, BlockDelta, BlockStop, MessageDelta, MessageStop, AnswerMessages, Live, Moves
  <2>2. plan \in Plans /\ Gathered /\ Heard /\ InTurn
    BY <2>1 DEF CallsIInv, TextIInv
  <2> QED
    BY <2>1, <2>2, SaidType
<1>2. ASSUME NEW i \in Items, BlockStart(i) PROVE TextIInv'
  <2>1. InTurn'
    BY <1>1, <1>2, StartInTurn DEF BlockStart
  <2>2. Heard'
    BY <1>1, <1>2, EdgeHeard DEF BlockStart, Silent
  <2> QED
    BY <2>1, <2>2 DEF TextIInv
<1>3. ASSUME NEW i \in Items, BlockDelta(i) PROVE TextIInv'
  <2> DEFINE bit == <<i, sent[i] + 1>>
  <2>1. InTurn'
    BY <1>1, <1>3, BitInTurn DEF BlockDelta
  <2>2. MaySay(i) /\ Moves(i) /\ IF plan[i].kind = "text" THEN YieldUnseen(Delta(<<Shown(i, bit)>>)) ELSE UNCHANGED got
    BY <1>3 DEF BlockDelta, Silent
  <2>3. CASE plan[i].kind # "text"
    <3>1. Heard'
      BY <1>1, <2>2, <2>3, BitHeard
    <3> QED
      BY <2>1, <3>1 DEF TextIInv
  <2>4. CASE plan[i].kind = "text"
    <3>1. (UNCHANGED got /\ pc' = "panicked") \/ got' = Append(got, Delta(<<Shown(i, bit)>>))
      BY <2>2, <2>4 DEF YieldUnseen, YieldTo
    <3>2. Heard'
      BY <1>1, <2>2, <3>1, BitHeard
    <3> QED
      BY <2>1, <3>2 DEF TextIInv
  <2> QED
    BY <2>3, <2>4
<1>4. ASSUME NEW i \in Items, BlockStop(i) PROVE TextIInv'
  <2>1. InTurn'
    BY <1>1, <1>4, BitInTurn DEF BlockStop
  <2>2. Heard'
    BY <1>1, <1>4, EdgeHeard DEF BlockStop, Silent
  <2> QED
    BY <2>1, <2>2 DEF TextIInv
<1>5. ASSUME NEW why \in Reasons, MessageDelta(why) PROVE TextIInv'
  <2>1. UNCHANGED <<sent, acc, got>>
    BY <1>5 DEF MessageDelta, Silent
  <2>2. InTurn' /\ UNCHANGED SaidText
    BY <1>1, <2>1, SameTurn
  <2>3. Heard'
    BY <1>1, <2>1, <2>2, NothingHeard
  <2> QED
    BY <2>2, <2>3 DEF TextIInv
<1>6. CASE MessageStop
  <2>1. UNCHANGED <<sent, acc>> /\ YieldLast(Response("complete", MessageParts, MessagesFinishReason[finish]))
    BY <1>6 DEF MessageStop
  <2>2. UNCHANGED SaidText
    BY <1>1, <2>1, SameTurn
  <2>3. Heard' /\ ~Reading'
    BY <1>1, <2>1, <2>2, MessageTextIs, LastPartsHeard
  <2> QED
    BY <2>3 DEF TextIInv
<1>7. CASE AnswerMessages
  <2> DEFINE parts == [i \in Items |-> WholePart(i)]
  <2>1. /\ got = <<>> /\ sent' = [i \in Items |-> plan[i].bits + 1]
        /\ YieldLast(Response("complete", parts, MessagesFinishReason[finish']))
    BY <1>7 DEF AnswerMessages, Unasked, AllSaid
  <2>2. TextOf(parts) = SaidText' /\ TextOf(parts) \in Seq(Pairs)
    BY <1>1, <2>1, WholePartsText
  <2> HIDE DEF parts
  <2>3. Heard' /\ ~Reading'
    BY <1>1, <2>1, <2>2, LastPartsHeard
  <2> QED
    BY <2>3 DEF TextIInv
<1> QED
  BY <1>2, <1>3, <1>4, <1>5, <1>6, <1>7 DEF Messages

\* The text over any line.
LEMMA StreamTextSteps ==
  ASSUME StreamIInv, CallsIInv, TextIInv, Stream
  PROVE  TextIInv'
<1>1. CASE Broken \/ ReadCancelled \/ Eof \/ Cancel
  <2>1. Reading /\ UNCHANGED <<api, plan, sent, acc>>
    BY <1>1 DEF Broken, ReadCancelled, Eof, Cancel
  <2>2. plan \in Plans /\ Gathered /\ Heard /\ InTurn
    BY <2>1 DEF CallsIInv, TextIInv
  <2>3. InTurn' /\ UNCHANGED SaidText /\ SaidText \in Seq(Pairs)
    BY <2>1, <2>2, SameTurn, SaidType
  <2>4. CASE Broken \/ ReadCancelled
    <3>1. PICK r \in {Error, Interrupted} : YieldLast(r)
      BY <2>4 DEF Broken, ReadCancelled
    <3>2. Heard'
      BY <2>1, <2>2, <2>3, <3>1, LastFaultHeard
    <3> QED
      BY <2>3, <3>2 DEF TextIInv
  <2>5. CASE Eof \/ Cancel
    <3>1. UNCHANGED got
      BY <2>5 DEF Eof, Cancel
    <3>2. Heard'
      BY <2>1, <2>2, <2>3, <3>1, NothingHeard
    <3> QED
      BY <2>3, <3>2 DEF TextIInv
  <2> QED
    BY <1>1, <2>4, <2>5
<1> QED
  BY <1>1, ChatTextSteps, ResponsesTextSteps, MessagesTextSteps DEF Stream

\* The conversation leaves what was heard alone.
LEMMA SameText ==
  ASSUME TextIInv, UNCHANGED streamVars
  PROVE  TextIInv'
<1>1. UNCHANGED <<api, plan, sent, finish, acc, got, pc>>
  BY DEF streamVars
<1>2. UNCHANGED SaidText
  <2>1. SaidTexts(plan', sent') = SaidTexts(plan, sent)
    BY <1>1
  <2> QED
    BY <2>1, SaidTextIs, SaidTextNext
<1>3. UNCHANGED <<ShownText, KeptText, HasDelta, Completed, Reading>>
  BY <1>1 DEF ShownText, KeptText, HasDelta, Completed, Reading
<1>4. Heard'
  BY <1>1, <1>2, <1>3 DEF TextIInv, Heard
<1>5. Reading => InTurn'
  BY <1>1, SameTurn DEF TextIInv
<1> QED
  BY <1>3, <1>4, <1>5 DEF TextIInv

\* Nothing is heard yet, and nothing said.
LEMMA SilenceHeard ==
  ASSUME NEW g, g = <<>>
  PROVE  /\ \A flags : TextIn(g, flags) = <<>>
         /\ DOMAIN g = {}
BY TextInNothing, EmptyIsSeq

\* What was shown of the text is what was said of it, and items are said in turn, as long as a
\* parser reads (the deltas of all three parsers).
THEOREM TextInvariant == Spec => [](StreamIInv /\ CallsIInv /\ TextIInv)
<1>1. Init => TextIInv
  <2> SUFFICES ASSUME Init PROVE TextIInv
    OBVIOUS
  <2>1. got = <<>> /\ plan = <<>> /\ sent = <<>> /\ pc = "idle"
    BY DEF Init
  <2>2. ShownText = <<>> /\ KeptText = <<>> /\ DOMAIN got = {} /\ ~HasDelta /\ ~Completed /\ ~Reading
    BY <2>1, SilenceHeard DEF ShownText, KeptText, HasDelta, Completed, Reading
  <2>3. SaidTexts(plan, sent) = <<>>
    BY <2>1, EmptyIsSeq DEF SaidTexts
  <2>4. SaidText = <<>>
    BY <2>3, SaidTextIs, FlattenNothing
  <2>5. IsPrefix(<<>>, <<>>)
    <3>1. <<>> \in Seq(Pairs)
      OBVIOUS
    <3> QED
      BY <3>1, NothingIsPrefix
  <2> QED
    BY <2>2, <2>4, <2>5 DEF TextIInv, Heard
<1>2. StreamIInv /\ CallsIInv /\ TextIInv /\ [Next]_vars => TextIInv'
  <2> SUFFICES ASSUME StreamIInv, CallsIInv, TextIInv, [Next]_vars PROVE TextIInv'
    OBVIOUS
  <2>1. CASE Consume
    BY <2>1, StreamTextSteps DEF Consume
  <2>2. CASE Build \/ GiveUp \/ UNCHANGED vars
    BY <2>2, SameText DEF Build, GiveUp, vars
  <2>3. CASE Send
    <3>1. CASE UNCHANGED streamVars
      BY <3>1, SameText
    <3>2. CASE \E p \in Plans : Begin(request.api, p)
      <4>1. PICK p \in Plans : Begin(request.api, p)
        BY <3>2
      <4>2. /\ plan' = p /\ sent' = [i \in DOMAIN p |-> -1] /\ acc' = <<>> /\ got' = <<>>
        BY <4>1 DEF Begin
      <4>3. ShownText' = <<>> /\ KeptText' = <<>> /\ DOMAIN got' = {} /\ ~HasDelta' /\ ~Completed'
        BY <4>2, SilenceHeard DEF ShownText, KeptText, HasDelta, Completed
      <4>4. Items' = DOMAIN p /\ \A i \in DOMAIN p : sent'[i] = -1
        <5>1. Items' = DOMAIN p
          BY <4>2 DEF Items
        <5>2. sent' = [i \in DOMAIN p |-> -1]
          BY <4>2, Zenon
        <5> QED
          BY <5>1, <5>2
      <4>5. SaidText' = <<>>
        <5> DEFINE e == SaidTexts(plan', sent')
        <5>1. sent' \in [DOMAIN p -> Int]
          <6>1. sent' = [i \in DOMAIN p |-> -1]
            BY <4>2, Zenon
          <6> QED
            BY <6>1
        <5>2. IsSeq(e) /\ Rows(e) /\ Len(e) = Len(p) /\ Len(p) \in Nat /\ DOMAIN p = 1..Len(p)
          BY <4>2, <5>1, SaidRows
        <5>3. \A i \in 1..Len(e) : e[i] = <<>>
          <6> SUFFICES ASSUME NEW i \in DOMAIN p PROVE e[i] = <<>>
            BY <5>2
          <6>1. e[i] = (IF p[i].kind = "text" THEN SaidIn(p, sent', i) ELSE <<>>)
            BY <4>2 DEF SaidTexts
          <6>2. sent'[i] = -1 /\ p[i].bits \in Nat
            BY <4>4, PlansAssumption
          <6>3. SaidIn(p, sent', i) = Bits(i, -1)
            BY <6>2 DEF SaidIn
          <6>4. Bits(i, -1) = <<>>
            BY DEF Bits
          <6> HIDE DEF e
          <6> QED
            BY <6>1, <6>3, <6>4
        <5> HIDE DEF e
        <5>4. IsSeq(<<>>) /\ Rows(<<>>) /\ Len(<<>>) = 0
          BY EmptyIsSeq DEF Rows
        <5>5. FlattenSeq(e) = FlattenSeq(<<>>)
          BY <5>2, <5>3, <5>4, FlattenAgrees
        <5> QED
          BY <5>5, FlattenNothing, SaidTextNext DEF e
      <4>6. IsPrefix(<<>>, <<>>)
        <5>1. <<>> \in Seq(Pairs)
          OBVIOUS
        <5> QED
          BY <5>1, NothingIsPrefix
      <4>7. Heard'
        BY <4>3, <4>5, <4>6 DEF Heard
      <4>8. DOMAIN acc' = {}
        BY <4>2, SilenceHeard
      <4>9. InTurn'
        BY <4>4, <4>8 DEF InTurn
      <4> QED
        BY <4>7, <4>9 DEF TextIInv
    <3> QED
      BY <2>3, <3>1, <3>2 DEF Send
  <2>4. CASE RunTools
    <3>1. got' = <<>> /\ plan' = <<>> /\ sent' = <<>> /\ pc' = "idle"
      BY <2>4 DEF RunTools
    <3>2. ShownText' = <<>> /\ KeptText' = <<>> /\ DOMAIN got' = {} /\ ~HasDelta' /\ ~Completed' /\ ~Reading'
      BY <3>1, SilenceHeard DEF ShownText, KeptText, HasDelta, Completed, Reading
    <3>3. SaidTexts(plan', sent') = <<>>
      BY <3>1, EmptyIsSeq DEF SaidTexts
    <3>4. SaidText' = <<>>
      BY <3>3, SaidTextNext, FlattenNothing
    <3>5. IsPrefix(<<>>, <<>>)
      <4>1. <<>> \in Seq(Pairs)
        OBVIOUS
      <4> QED
        BY <4>1, NothingIsPrefix
    <3> QED
      BY <3>2, <3>4, <3>5 DEF TextIInv, Heard
  <2> QED
    BY <2>1, <2>2, <2>3, <2>4 DEF Next
<1> QED
  BY <1>1, <1>2, CallsInvariant, PTL DEF Spec

\* The text shown while it streams is what the provider said, each delta once and in order,
\* and the closing response repeats it where it does (singlePartResponse, the final object of
\* the responses API, the blocks of messages, and every unstreamed answer).
THEOREM TextIsShownOnce == Spec => []TextOnce
<1>1. TextIInv => TextOnce
  <2> SUFFICES ASSUME TextIInv PROVE TextOnce
    OBVIOUS
  <2>1. pc \in {"reading", "done"} => Reading \/ pc # "panicked"
    OBVIOUS
  <2> QED
    BY <2>1 DEF TextIInv, Heard, TextOnce, ShownText, KeptText, HasDelta
<1> QED
  BY <1>1, TextInvariant, PTL
=============================================================================
