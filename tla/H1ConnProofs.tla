------------------------------ MODULE H1ConnProofs ------------------------------
(***************************************************************************)
(* Proofs about H1Conn, for any requests, responses and limits, any cuts   *)
(* of the input and any handshake: the cursors into the input stay within  *)
(* it, responses are whole and in the order of their requests, and a 100   *)
(* comes in time.                                                          *)
(*                                                                         *)
(* The peer's bytes are laid out first: where each request begins in wire, *)
(* and what poll_request can see of the one at the front. Then what a      *)
(* sequence of frames is to the client, and how it stays so when a head, a *)
(* piece, the end of a body or a 100 is added. The invariant says it of    *)
(* all that was sent and waits to be sent, together with what the engine   *)
(* still owes.                                                             *)
(***************************************************************************)
EXTENDS H1Conn, FiniteSetTheorems, SequenceTheorems, WellFoundedInduction, TLAPS

\* A set of natural numbers that is not empty has a least element.
LEMMA LeastNat ==
    ASSUME NEW T, T \subseteq Nat, T # {}
    PROVE  \E n \in T : \A m \in T : n <= m
<1> DEFINE R == {p \in Nat \X Nat : p[1] < p[2]}
<1>1. IsWellFoundedOn(R, Nat)
  <2>1. IsWellFoundedOn(OpToRel(<, Nat), Nat)
    BY NatLessThanWellFounded
  <2>2. R \cap (Nat \X Nat) \subseteq OpToRel(<, Nat)
    BY DEF OpToRel
  <2>. QED BY <2>1, <2>2, IsWellFoundedOnSubrelation
<1>2. PICK n \in T : \A m \in T : ~(<<m, n>> \in R)
  <2>. HIDE DEF R
  <2>. QED BY <1>1, WFMin
<1>3. ASSUME NEW m \in T PROVE n <= m
  <2>1. <<m, n>> \notin R
    BY <1>2
  <2>. QED BY <2>1
<1>. QED BY <1>3

\* Induction on the natural numbers, as a statement about a set.
LEMMA SetInduction ==
    ASSUME NEW T, 0 \in T, \A n \in Nat : n \in T => n + 1 \in T
    PROVE  Nat \subseteq T
<1>. DEFINE U == {n \in Nat : n \notin T}
<1>. SUFFICES ASSUME U # {} PROVE FALSE
  OBVIOUS
<1>1. PICK n \in U : \A m \in U : n <= m
  <2>1. U \subseteq Nat OBVIOUS
  <2>. HIDE DEF U
  <2>. QED BY <2>1, LeastNat
<1>2. n # 0 /\ n - 1 \in Nat
  OBVIOUS
<1>3. n - 1 \notin U
  BY <1>1, <1>2
<1>. QED BY <1>2, <1>3

----------------------------------------------------------------------------
(* The peer's bytes: where each request begins.                             *)

Units == [req : Nat, part : {"handshake", "head", "blank", "body", "last"}]

Size(request) ==
    request.size + TermLen + request.body + (IF request.chunks THEN 1 ELSE 0)

\* The offsets at which the sequences begin that make up a longer one.
Offsets(start, seqs, n, whole) ==
    /\ start \in [0..n -> Nat] /\ start[0] = 0 /\ start[n] = Len(whole)
    /\ \A i \in 0..n : start[i] <= start[n]
    /\ \A i \in 1..n : start[i] = start[i - 1] + Len(seqs[i])
    /\ \A i \in 1..n : \A k \in 1..Len(seqs[i]) : whole[start[i - 1] + k] = seqs[i][k]

\* One more sequence comes behind the others.
LEMMA OffsetsAppend ==
    ASSUME NEW S, NEW seqs, NEW n \in Nat, NEW whole \in Seq(S), NEW start,
           Offsets(start, seqs, n, whole), \A i \in 1..n + 1 : seqs[i] \in Seq(S)
    PROVE  \E next : Offsets(next, seqs, n + 1, whole \o seqs[n + 1])
<1>. DEFINE s == seqs[n + 1]
            more == whole \o s
            next == [i \in 0..n + 1 |-> IF i <= n THEN start[i] ELSE Len(whole) + Len(s)]
<1>1. /\ Len(s) \in Nat /\ Len(whole) \in Nat /\ Len(more) = Len(whole) + Len(s)
      /\ \A i \in 1..Len(whole) + Len(s) :
            more[i] = IF i <= Len(whole) THEN whole[i] ELSE s[i - Len(whole)]
  BY ConcatProperties, LenProperties
<1>2. /\ start \in [0..n -> Nat] /\ start[0] = 0 /\ start[n] = Len(whole)
      /\ \A i \in 1..n : start[i] = start[i - 1] + Len(seqs[i])
      /\ \A i \in 1..n : \A k \in 1..Len(seqs[i]) : whole[start[i - 1] + k] = seqs[i][k]
  BY DEF Offsets
<1>3. \A i \in 0..n : next[i] = start[i] /\ start[i] \in Nat
  BY <1>2
<1>4. next[n + 1] = Len(whole) + Len(s)
  OBVIOUS
<1>5. next \in [0..n + 1 -> Nat] /\ next[0] = 0 /\ next[n + 1] = Len(more)
  BY <1>1, <1>2
<1>. HIDE DEF next, more
<1>6. ASSUME NEW i \in 1..n + 1 PROVE next[i] = next[i - 1] + Len(seqs[i])
  <2>1. CASE i = n + 1
    <3>1. next[i] = Len(whole) + Len(seqs[i]) /\ next[i - 1] = start[n]
      BY <2>1, <1>3, <1>4
    <3>. QED BY <3>1, <1>2
  <2>2. CASE i \in 1..n
    BY <2>2, <1>2, <1>3
  <2>. QED BY <2>1, <2>2
<1>7. \A i \in 0..n + 1 : next[i] <= next[n + 1]
  <2>1. \A i \in 0..n : start[i] <= Len(whole)
    BY <1>2 DEF Offsets
  <2>2. ASSUME NEW i \in 0..n + 1 PROVE next[i] <= next[n + 1]
    <3>1. CASE i = n + 1
      BY <3>1, <1>1, <1>4
    <3>2. CASE i \in 0..n
      BY <3>2, <2>1, <1>1, <1>3, <1>4
    <3>. QED BY <3>1, <3>2
  <2>. QED BY <2>2
<1>8. ASSUME NEW i \in 1..n + 1, NEW k \in 1..Len(seqs[i]) PROVE more[next[i - 1] + k] = seqs[i][k]
  <2>1. CASE i = n + 1
    <3>1. next[i - 1] = Len(whole) /\ k \in 1..Len(s) /\ seqs[i] = s
      <4>1. next[i - 1] = start[n]
        BY <2>1, <1>3
      <4>. QED BY <4>1, <2>1, <1>2
    <3>2. Len(whole) + k \in 1..Len(whole) + Len(s) /\ Len(whole) + k > Len(whole)
      BY <3>1, <1>1
    <3>. QED BY <3>1, <3>2, <1>1
  <2>2. CASE i \in 1..n
    <3>1. next[i - 1] = start[i - 1] /\ start[i - 1] \in Nat /\ start[i] \in Nat
      BY <2>2, <1>2, <1>3
    <3>0. Len(seqs[i]) \in Nat /\ start[i] = start[i - 1] + Len(seqs[i])
      BY <2>2, <1>2
    <3>2. start[i - 1] + k <= start[i] /\ start[i] <= Len(whole) /\ k \in Nat
      BY <2>2, <3>0, <3>1, <1>2 DEF Offsets
    <3>3. start[i - 1] + k \in 1..Len(whole)
      <4>1. start[i - 1] + k \in Nat /\ start[i - 1] + k >= 1
        BY <3>1, <3>2
      <4>. QED BY <4>1, <3>1, <3>2, <1>1
    <3>4. more[start[i - 1] + k] = whole[start[i - 1] + k]
      <4>1. start[i - 1] + k \in 1..Len(whole) + Len(s) /\ start[i - 1] + k <= Len(whole)
        BY <3>3, <1>1
      <4>. QED BY <4>1, <1>1
    <3>. QED BY <2>2, <3>1, <3>4, <1>2
  <2>. QED BY <2>1, <2>2
<1>9. Offsets(next, seqs, n + 1, more)
  BY <1>5, <1>6, <1>7, <1>8 DEF Offsets
<1>. QED BY <1>9 DEF more

\* A name for concatenation, so that what it does is not looked into.
Join(s, t) == s \o t

\* FlattenSeq puts the sequences one behind the other.
LEMMA Flattened ==
    ASSUME NEW S, NEW seqs \in Seq(Seq(S)), Len(seqs) > 0
    PROVE  FlattenSeq(seqs) \in Seq(S) /\ \E start : Offsets(start, seqs, Len(seqs), FlattenSeq(seqs))
<1>. DEFINE n == Len(seqs)
            Is(f, m) == f = [i \in 1..m |-> IF i = 1 THEN seqs[i] ELSE Join(f[i - 1], seqs[i])]
            T == {m \in Nat : \E f : Is(f, m)}
<1>0. n \in Nat /\ n > 0 /\ \A i \in 1..n : seqs[i] \in Seq(S)
  OBVIOUS
<1>1. 0 \in T
  <2>. Is([i \in 1..0 |-> 0], 0)
    OBVIOUS
  <2>. QED OBVIOUS
<1>2. ASSUME NEW m \in Nat, m \in T PROVE m + 1 \in T
  <2>1. PICK f : Is(f, m)
    BY <1>2
  <2>. DEFINE last == IF m = 0 THEN seqs[1] ELSE Join(f[m], seqs[m + 1])
              g == [i \in 1..m + 1 |-> IF i <= m THEN f[i] ELSE last]
  <2>2. ASSUME NEW i \in 1..m + 1
        PROVE  g[i] = IF i = 1 THEN seqs[i] ELSE Join(g[i - 1], seqs[i])
    BY <2>1
  <2>3. Is(g, m + 1)
    BY <2>2
  <2>4. \E h : Is(h, m + 1)
    <3>. HIDE DEF Is, g
    <3>. QED BY <2>3
  <2>5. m + 1 \in Nat
    OBVIOUS
  <2>. HIDE DEF Is
  <2>. QED BY <2>4, <2>5
<1>3. n \in T
  <2>. HIDE DEF T, n
  <2>. QED BY <1>0, <1>1, <1>2, SetInduction
<1>. DEFINE F == CHOOSE f : Is(f, n)
<1>4. Is(F, n)
  BY <1>3
<1>5. FlattenSeq(seqs) = F[n]
  BY <1>0 DEF FlattenSeq, Join
<1>. HIDE DEF F, n
<1>6. F[1] = seqs[1] /\ \A i \in 2..n : F[i] = F[i - 1] \o seqs[i]
  <2>1. \A i \in 1..n : F[i] = IF i = 1 THEN seqs[i] ELSE Join(F[i - 1], seqs[i])
    BY <1>4
  <2>2. 1 \in 1..n /\ \A i \in 2..n : i \in 1..n /\ i # 1
    BY <1>0
  <2>. HIDE DEF Is
  <2>3. F[1] = seqs[1] /\ \A i \in 2..n : F[i] = Join(F[i - 1], seqs[i])
    BY <2>1, <2>2
  <2>. QED BY <2>3 DEF Join
<1>. HIDE DEF Is, T
<1>. DEFINE Good(m) == F[m] \in Seq(S) /\ \E start : Offsets(start, seqs, m, F[m])
            U == {m \in Nat : m < n => Good(m + 1)}
<1>7. 0 \in U
  <2>. DEFINE start == [i \in 0..1 |-> IF i = 0 THEN 0 ELSE Len(seqs[1])]
  <2>1. F[0 + 1] = seqs[1] /\ seqs[1] \in Seq(S)
    BY <1>0, <1>6
  <2>2. Offsets(start, seqs, 0 + 1, seqs[1])
    BY <2>1 DEF Offsets
  <2>3. Good(0 + 1)
    <3>. HIDE DEF start
    <3>. QED BY <2>1, <2>2
  <2>. HIDE DEF Good
  <2>. QED BY <2>3
<1>8. ASSUME NEW m \in Nat, m \in U PROVE m + 1 \in U
  <2>. SUFFICES ASSUME m + 1 < n PROVE Good((m + 1) + 1)
    <3>. HIDE DEF Good
    <3>. QED OBVIOUS
  <2>1. PICK start : Offsets(start, seqs, m + 1, F[m + 1])
    BY <1>0, <1>8
  <2>2. F[m + 1] \in Seq(S) /\ \A i \in 1..(m + 1) + 1 : seqs[i] \in Seq(S)
    BY <1>0, <1>8
  <2>3. m + 1 \in Nat
    OBVIOUS
  <2>4. PICK next : Offsets(next, seqs, (m + 1) + 1, F[m + 1] \o seqs[(m + 1) + 1])
    BY ONLY <2>1, <2>2, <2>3, OffsetsAppend
  <2>5. F[(m + 1) + 1] = F[m + 1] \o seqs[(m + 1) + 1]
    <3>1. (m + 1) + 1 \in 2..n /\ ((m + 1) + 1) - 1 = m + 1
      BY <1>0
    <3>. QED BY <3>1, <1>6
  <2>6. F[m + 1] \o seqs[(m + 1) + 1] \in Seq(S)
    BY <2>2, ConcatProperties
  <2>. QED BY <2>4, <2>5, <2>6
<1>9. n - 1 \in U
  <2>1. n - 1 \in Nat
    BY <1>0
  <2>. HIDE DEF U
  <2>2. Nat \subseteq U
    BY ONLY <1>7, <1>8, SetInduction
  <2>. QED BY <2>1, <2>2
<1>10. Good(n)
  <2>1. (n - 1) + 1 = n
    BY <1>0
  <2>. HIDE DEF Good
  <2>. QED BY <1>0, <1>9, <2>1
<1>. QED BY <1>5, <1>10 DEF n

(***************************************************************************)
(* What the client reads: frames put behind the frames it has.             *)
(***************************************************************************)
Modes == {"none", "length", "chunked", "close"}

AllFrames == [req : Nat, part : {"head"}, mode : Modes, len : Nat, keep : BOOLEAN]
                \cup [req : Nat, part : {"data", "end", "100"}]

\* The frames of all begin with those of first.
Begins(first, all) ==
    /\ first \in Seq(AllFrames) /\ all \in Seq(AllFrames)
    /\ Len(first) <= Len(all)
    /\ \A j \in 1..Len(first) : all[j] = first[j]

\* ResponsesIntact and ContinueInTime, of any frames.
Intact(frames) ==
    \A k \in HeadsIn(frames) :
        /\ frames[k].req = Cardinality({h \in HeadsIn(frames) : h <= k})
        /\ \A j \in BodyOf(frames, k) : frames[j].req = frames[k].req
        /\ BodyLegal(frames, k)
        /\ ~IsLast(frames, k) => frames[k].keep /\ BodyWhole(frames, k)

InTime(frames) ==
    \A k \in DOMAIN frames : frames[k].part = "100" =>
        \A j \in DOMAIN frames \ {k} : frames[j].req = frames[k].req => j > k

\* The places and frames of a sequence that another begins with.
LEMMA BeginsDomains ==
    ASSUME NEW F, NEW G, Begins(F, G)
    PROVE  /\ Len(F) \in Nat /\ Len(G) \in Nat /\ Len(F) <= Len(G)
           /\ DOMAIN F = 1..Len(F) /\ DOMAIN G = 1..Len(G)
           /\ DOMAIN F \subseteq DOMAIN G
           /\ \A j \in DOMAIN F : G[j] = F[j] /\ F[j] \in AllFrames
           /\ \A j \in DOMAIN G : G[j] \in AllFrames
  BY DEF Begins

\* A sequence has the heads of the one that begins with it, up to where it ends.
LEMMA BeginsHeads ==
    ASSUME NEW F, NEW G, Begins(F, G)
    PROVE  /\ HeadsIn(F) = {k \in HeadsIn(G) : k <= Len(F)}
           /\ \A k \in HeadsIn(F) : k \in 1..Len(F) /\ G[k] = F[k]
           /\ \A k \in HeadsIn(F) :
                 {h \in HeadsIn(G) : h <= k} = {h \in HeadsIn(F) : h <= k}
<1>1. /\ Len(F) \in Nat /\ Len(G) \in Nat /\ Len(F) <= Len(G)
      /\ DOMAIN F = 1..Len(F) /\ DOMAIN G = 1..Len(G)
      /\ \A j \in 1..Len(F) : G[j] = F[j]
  BY BeginsDomains
<1>2. HeadsIn(F) = {k \in HeadsIn(G) : k <= Len(F)}
  BY <1>1 DEF HeadsIn
<1>3. \A k \in HeadsIn(F) : k \in 1..Len(F) /\ G[k] = F[k]
  BY <1>1 DEF HeadsIn
<1>4. \A k \in HeadsIn(G) : k \in 1..Len(G)
  BY <1>1 DEF HeadsIn
<1>5. ASSUME NEW k \in HeadsIn(F)
      PROVE  {h \in HeadsIn(G) : h <= k} = {h \in HeadsIn(F) : h <= k}
  <2>1. k \in 1..Len(F) /\ \A h \in HeadsIn(G) : h \in 1..Len(G)
    BY <1>3, <1>4
  <2>2. \A h \in HeadsIn(G) : h <= k => h <= Len(F)
    BY <2>1, <1>1
  <2>. QED BY <2>2, <1>2
<1>. QED BY <1>2, <1>3, <1>5

\* And of each head's body the part up to there.
LEMMA BeginsBody ==
    ASSUME NEW F, NEW G, Begins(F, G), NEW k \in HeadsIn(F)
    PROVE  BodyOf(F, k) = {j \in BodyOf(G, k) : j <= Len(F)}
<1>1. /\ Len(F) \in Nat /\ Len(G) \in Nat /\ Len(F) <= Len(G)
      /\ \A j \in 1..Len(F) : G[j] = F[j]
  BY BeginsDomains
<1>2. k \in 1..Len(F) /\ HeadsIn(F) = {h \in HeadsIn(G) : h <= Len(F)}
  BY BeginsHeads
<1>3. \A h \in HeadsIn(G) : h \in 1..Len(G)
  BY BeginsDomains DEF HeadsIn
<1>4. ASSUME NEW j \in k + 1..Len(F)
      PROVE  j \in BodyOf(F, k) <=> j \in BodyOf(G, k)
  <2>1. j \in 1..Len(F) /\ j \in k + 1..Len(G) /\ G[j] = F[j]
    BY <1>1, <1>2
  <2>2. (\E h \in HeadsIn(F) : k < h /\ h <= j) <=> (\E h \in HeadsIn(G) : k < h /\ h <= j)
    BY <2>1, <1>2, <1>3, <1>1
  <2>. QED BY <2>1, <2>2 DEF BodyOf
<1>5. BodyOf(F, k) \subseteq k + 1..Len(F) /\ BodyOf(G, k) \subseteq k + 1..Len(G)
  BY DEF BodyOf
<1>6. \A j \in BodyOf(G, k) : j <= Len(F) => j \in k + 1..Len(F)
  BY <1>5, <1>1, <1>2
<1>7. \A j \in k + 1..Len(F) : j <= Len(F)
  BY <1>1, <1>2
<1>. QED BY <1>4, <1>5, <1>6, <1>7

\* Heads and bodies can be counted.
LEMMA FinitelyMany ==
    ASSUME NEW F \in Seq(AllFrames), NEW k \in Nat
    PROVE  /\ IsFiniteSet(HeadsIn(F)) /\ IsFiniteSet(BodyOf(F, k))
           /\ Cardinality(HeadsIn(F)) \in Nat /\ Cardinality(BodyOf(F, k)) \in Nat
           /\ IsFiniteSet({h \in HeadsIn(F) : h <= k})
<1>1. Len(F) \in Nat /\ DOMAIN F = 1..Len(F)
  OBVIOUS
<1>2. IsFiniteSet(1..Len(F)) /\ IsFiniteSet(k + 1..Len(F))
  BY <1>1, FS_Interval
<1>3. HeadsIn(F) \subseteq 1..Len(F) /\ BodyOf(F, k) \subseteq k + 1..Len(F)
  BY <1>1 DEF HeadsIn, BodyOf
<1>4. IsFiniteSet(HeadsIn(F)) /\ IsFiniteSet(BodyOf(F, k))
  BY <1>2, <1>3, FS_Subset
<1>5. IsFiniteSet({h \in HeadsIn(F) : h <= k})
  BY <1>4, FS_Subset
<1>. QED BY <1>4, <1>5, FS_CardinalityType

\* What was intact is intact as far as it was sent.
LEMMA IntactSoFar ==
    ASSUME NEW F, NEW G, Begins(F, G), Intact(G)
    PROVE  Intact(F)
<1>. SUFFICES ASSUME NEW k \in HeadsIn(F)
              PROVE  /\ F[k].req = Cardinality({h \in HeadsIn(F) : h <= k})
                     /\ \A j \in BodyOf(F, k) : F[j].req = F[k].req
                     /\ BodyLegal(F, k)
                     /\ ~IsLast(F, k) => F[k].keep /\ BodyWhole(F, k)
  BY DEF Intact
<1>1. /\ k \in HeadsIn(G) /\ G[k] = F[k] /\ k \in 1..Len(F) /\ Len(F) \in Nat
      /\ {h \in HeadsIn(G) : h <= k} = {h \in HeadsIn(F) : h <= k}
  BY BeginsHeads, BeginsDomains
<1>2. BodyOf(F, k) = {j \in BodyOf(G, k) : j <= Len(F)}
  BY BeginsBody
<1>3. \A j \in BodyOf(F, k) : G[j] = F[j] /\ j \in BodyOf(G, k)
  <2>1. BodyOf(F, k) \subseteq 1..Len(F)
    BY <1>1 DEF BodyOf
  <2>. QED BY <2>1, <1>2, BeginsDomains
<1>4. /\ G[k].req = Cardinality({h \in HeadsIn(G) : h <= k})
      /\ \A j \in BodyOf(G, k) : G[j].req = G[k].req
      /\ BodyLegal(G, k)
      /\ ~IsLast(G, k) => G[k].keep /\ BodyWhole(G, k)
  BY <1>1 DEF Intact
<1>5. BodyLegal(F, k)
  <2>1. IsFiniteSet(BodyOf(G, k)) /\ Cardinality(BodyOf(G, k)) \in Nat
    <3>1. G \in Seq(AllFrames) /\ k \in Nat
      BY <1>1 DEF Begins
    <3>. QED BY <3>1, FinitelyMany
  <2>2. Cardinality(BodyOf(F, k)) <= Cardinality(BodyOf(G, k)) /\ Cardinality(BodyOf(F, k)) \in Nat
    BY <2>1, <1>2, FS_Subset, FS_CardinalityType
  <2>3. G[k].len \in Nat
    BY <1>1, BeginsDomains DEF HeadsIn, AllFrames
  <2>4. CASE F[k].mode = "none"
    BY <2>4, <1>1, <1>2, <1>4 DEF BodyLegal
  <2>5. CASE F[k].mode = "length"
    BY <2>5, <1>1, <1>4, <2>1, <2>2, <2>3 DEF BodyLegal
  <2>6. CASE F[k].mode = "chunked"
    BY <2>6, <1>1, <1>3, <1>4 DEF BodyLegal
  <2>7. CASE F[k].mode \notin {"none", "length", "chunked"}
    BY <2>7, <1>1, <1>3, <1>4 DEF BodyLegal
  <2>. QED BY <2>4, <2>5, <2>6, <2>7
<1>6. ASSUME ~IsLast(F, k) PROVE F[k].keep /\ BodyWhole(F, k)
  <2>1. PICK h \in HeadsIn(F) : ~(h <= k)
    BY <1>6 DEF IsLast
  <2>2. h \in HeadsIn(G) /\ h \in 1..Len(F)
    BY BeginsHeads
  <2>3. ~IsLast(G, k)
    BY <2>1, <2>2 DEF IsLast
  <2>4. BodyOf(F, k) = BodyOf(G, k)
    <3>1. ASSUME NEW j \in BodyOf(G, k) PROVE j <= Len(F)
      <4>1. ~(k < h /\ h <= j) /\ j \in k + 1..Len(G)
        BY <2>2, <3>1 DEF BodyOf
      <4>2. Len(G) \in Nat
        BY BeginsDomains
      <4>. QED BY <4>1, <4>2, <2>1, <2>2, <1>1
    <3>. QED BY <3>1, <1>2
  <2>5. G[k].keep /\ BodyWhole(G, k)
    BY <2>3, <1>4
  <2>. QED BY <2>4, <2>5, <1>1, <1>3 DEF BodyWhole
<1>. QED BY <1>1, <1>3, <1>4, <1>5, <1>6

\* What is in time stays so when only a beginning of it is looked at.
LEMMA InTimeSoFar ==
    ASSUME NEW F, NEW G, Begins(F, G), InTime(G)
    PROVE  InTime(F)
<1>1. DOMAIN F \subseteq DOMAIN G /\ \A j \in DOMAIN F : G[j] = F[j]
  BY BeginsDomains
<1>. QED BY <1>1 DEF InTime

\* No response begins in what comes behind first.
OnlyPieces(first, all) == \A j \in Len(first) + 1..Len(all) : all[j].part # "head"

\* What comes behind first is a response: its head, and pieces of its body.
OneResponse(first, all) ==
    LET head == all[Len(first) + 1]
    IN  /\ Len(first) < Len(all)
        /\ head.part = "head" /\ head.req = Cardinality(HeadsIn(first)) + 1
        /\ \A j \in Len(first) + 2..Len(all) : all[j].part = "data" /\ all[j].req = head.req
        /\ head.mode = "none" => Len(all) = Len(first) + 1
        /\ head.mode = "length" => Len(all) - (Len(first) + 1) <= head.len

\* The last response is complete, and another may follow.
LastWhole(frames) ==
    \A k \in HeadsIn(frames) : IsLast(frames, k) => frames[k].keep /\ BodyWhole(frames, k)

\* Frames without a head belong to the last response there is.
LEMMA PiecesAdded ==
    ASSUME NEW F, NEW G, Begins(F, G), OnlyPieces(F, G)
    PROVE  /\ HeadsIn(G) = HeadsIn(F)
           /\ \A k : IsLast(G, k) <=> IsLast(F, k)
           /\ \A k \in HeadsIn(F) : ~IsLast(F, k) => BodyOf(G, k) = BodyOf(F, k)
           /\ \A k \in HeadsIn(F) : IsLast(F, k) =>
                 BodyOf(G, k) = BodyOf(F, k)
                                    \cup {j \in Len(F) + 1..Len(G) : G[j].part # "100"}
<1>1. /\ Len(F) \in Nat /\ Len(G) \in Nat /\ Len(F) <= Len(G)
      /\ DOMAIN F = 1..Len(F) /\ DOMAIN G = 1..Len(G)
      /\ \A j \in 1..Len(F) : G[j] = F[j]
  BY BeginsDomains
<1>2. HeadsIn(G) = HeadsIn(F)
  <2>1. \A j \in HeadsIn(G) : j \in 1..Len(G) /\ j \notin Len(F) + 1..Len(G)
    BY <1>1 DEF HeadsIn, OnlyPieces
  <2>2. \A j \in HeadsIn(G) : j <= Len(F)
    BY <2>1, <1>1
  <2>3. HeadsIn(F) = {k \in HeadsIn(G) : k <= Len(F)}
    BY BeginsHeads
  <2>. QED BY <2>2, <2>3
<1>3. \A k : IsLast(G, k) <=> IsLast(F, k)
  BY <1>2 DEF IsLast
<1>4. ASSUME NEW k \in HeadsIn(F), ~IsLast(F, k) PROVE BodyOf(G, k) = BodyOf(F, k)
  <2>1. PICK h \in HeadsIn(F) : ~(h <= k)
    BY <1>4 DEF IsLast
  <2>2. h \in 1..Len(F) /\ k \in 1..Len(F)
    BY BeginsHeads
  <2>3. ASSUME NEW j \in BodyOf(G, k) PROVE j <= Len(F)
    <3>1. ~(k < h /\ h <= j) /\ j \in k + 1..Len(G)
      BY <1>2, <2>3 DEF BodyOf
    <3>. QED BY <3>1, <2>1, <2>2, <1>1
  <2>4. BodyOf(F, k) = {j \in BodyOf(G, k) : j <= Len(F)}
    BY BeginsBody
  <2>. QED BY <2>3, <2>4
<1>5. ASSUME NEW k \in HeadsIn(F), IsLast(F, k)
      PROVE  BodyOf(G, k) = BodyOf(F, k) \cup {j \in Len(F) + 1..Len(G) : G[j].part # "100"}
  <2>1. k \in 1..Len(F) /\ \A h \in HeadsIn(G) : h \in 1..Len(F) /\ h <= k
    BY <1>2, <1>5, BeginsHeads DEF IsLast
  <2>2. BodyOf(F, k) = {j \in BodyOf(G, k) : j <= Len(F)}
    BY BeginsBody
  <2>3. ASSUME NEW j \in Len(F) + 1..Len(G), G[j].part # "100" PROVE j \in BodyOf(G, k)
    <3>1. j \in k + 1..Len(G)
      BY <2>1, <1>1
    <3>2. ~\E h \in HeadsIn(G) : k < h /\ h <= j
      BY <2>1
    <3>. QED BY <3>1, <3>2, <2>3 DEF BodyOf
  <2>4. ASSUME NEW j \in BodyOf(G, k), ~(j <= Len(F))
        PROVE  j \in Len(F) + 1..Len(G) /\ G[j].part # "100"
    <3>1. j \in k + 1..Len(G) /\ G[j].part # "100"
      BY <2>4 DEF BodyOf
    <3>. QED BY <3>1, <2>1, <2>4, <1>1
  <2>. QED BY <2>2, <2>3, <2>4
<1>. QED BY <1>2, <1>3, <1>4, <1>5

\* An interim answer changes nothing of what has been read.
LEMMA InterimAdded ==
    ASSUME NEW F, NEW G, Begins(F, G), Len(G) = Len(F) + 1, G[Len(G)].part = "100", Intact(F)
    PROVE  /\ Intact(G) /\ HeadsIn(G) = HeadsIn(F)
           /\ \A k : IsLast(G, k) <=> IsLast(F, k)
           /\ \A k \in HeadsIn(F) : BodyOf(G, k) = BodyOf(F, k)
<1>1. Len(F) \in Nat /\ Len(F) + 1..Len(G) = {Len(G)}
  BY BeginsDomains
<1>2. /\ HeadsIn(G) = HeadsIn(F)
      /\ \A k : IsLast(G, k) <=> IsLast(F, k)
      /\ \A k \in HeadsIn(F) : BodyOf(G, k) = BodyOf(F, k)
  <2>1. OnlyPieces(F, G)
    BY <1>1 DEF OnlyPieces
  <2>2. {j \in Len(F) + 1..Len(G) : G[j].part # "100"} = {}
    BY <1>1
  <2>3. HeadsIn(G) = HeadsIn(F) /\ \A k : IsLast(G, k) <=> IsLast(F, k)
    BY <2>1, PiecesAdded
  <2>4. ASSUME NEW k \in HeadsIn(F) PROVE BodyOf(G, k) = BodyOf(F, k)
    <3>1. CASE IsLast(F, k)
      <4>1. BodyOf(G, k) = BodyOf(F, k)
                    \cup {j \in Len(F) + 1..Len(G) : G[j].part # "100"}
        BY <2>1, <3>1, PiecesAdded
      <4>. QED BY ONLY <4>1, <2>2
    <3>2. CASE ~IsLast(F, k)
      BY <2>1, <3>2, PiecesAdded
    <3>. QED BY <3>1, <3>2
  <2>. QED BY <2>3, <2>4
<1>3. Intact(G)
  <2>. SUFFICES ASSUME NEW k \in HeadsIn(F)
                PROVE  /\ G[k].req = Cardinality({h \in HeadsIn(G) : h <= k})
                       /\ \A j \in BodyOf(G, k) : G[j].req = G[k].req
                       /\ BodyLegal(G, k)
                       /\ ~IsLast(G, k) => G[k].keep /\ BodyWhole(G, k)
    BY <1>2 DEF Intact
  <2>1. /\ F[k].req = Cardinality({h \in HeadsIn(F) : h <= k})
        /\ \A j \in BodyOf(F, k) : F[j].req = F[k].req
        /\ BodyLegal(F, k)
        /\ ~IsLast(F, k) => F[k].keep /\ BodyWhole(F, k)
    BY DEF Intact
  <2>2. G[k] = F[k] /\ k \in 1..Len(F)
    BY BeginsHeads
  <2>3. \A j \in BodyOf(F, k) : G[j] = F[j]
    <3>1. BodyOf(F, k) \subseteq 1..Len(F)
      BY <2>2, <1>1 DEF BodyOf
    <3>. QED BY <3>1, BeginsDomains
  <2>4. BodyLegal(G, k) <=> BodyLegal(F, k)
    BY <2>2, <2>3, <1>2 DEF BodyLegal
  <2>5. BodyWhole(G, k) <=> BodyWhole(F, k)
    BY <2>2, <2>3, <1>2 DEF BodyWhole
  <2>. QED BY <2>1, <2>2, <2>3, <2>4, <2>5, <1>2
<1>. QED BY <1>2, <1>3

\* A piece of a body, or its end, goes to the last response.
LEMMA PieceAdded ==
    ASSUME NEW F, NEW G, Begins(F, G), Len(G) = Len(F) + 1,
           G[Len(G)].part \in {"data", "end"}, Intact(F),
           NEW k \in HeadsIn(F), IsLast(F, k), G[Len(G)].req = F[k].req, BodyLegal(G, k)
    PROVE  /\ Intact(G) /\ HeadsIn(G) = HeadsIn(F) /\ IsLast(G, k)
           /\ BodyOf(G, k) = BodyOf(F, k) \cup {Len(G)}
           /\ Cardinality(BodyOf(G, k)) = Cardinality(BodyOf(F, k)) + 1
<1>1. Len(F) \in Nat /\ Len(G) \in Nat /\ Len(F) + 1..Len(G) = {Len(G)}
  BY BeginsDomains
<1>2. /\ HeadsIn(G) = HeadsIn(F)
      /\ \A m : IsLast(G, m) <=> IsLast(F, m)
      /\ \A m \in HeadsIn(F) : ~IsLast(F, m) => BodyOf(G, m) = BodyOf(F, m)
      /\ BodyOf(G, k) = BodyOf(F, k) \cup {Len(G)}
  <2>1. OnlyPieces(F, G)
    BY <1>1 DEF OnlyPieces
  <2>2. {j \in Len(F) + 1..Len(G) : G[j].part # "100"} = {Len(G)}
    BY <1>1
  <2>. QED BY <2>1, <2>2, PiecesAdded
<1>3. k \in Nat /\ F \in Seq(AllFrames)
  BY BeginsHeads DEF Begins
<1>4. Cardinality(BodyOf(G, k)) = Cardinality(BodyOf(F, k)) + 1
  <2>1. IsFiniteSet(BodyOf(F, k))
    BY <1>3, FinitelyMany
  <2>2. Len(G) \notin BodyOf(F, k)
    BY <1>1, <1>3 DEF BodyOf
  <2>. QED BY <2>1, <2>2, <1>2, FS_AddElement
<1>5. Intact(G)
  <2>. SUFFICES ASSUME NEW m \in HeadsIn(F)
                PROVE  /\ G[m].req = Cardinality({h \in HeadsIn(G) : h <= m})
                       /\ \A j \in BodyOf(G, m) : G[j].req = G[m].req
                       /\ BodyLegal(G, m)
                       /\ ~IsLast(G, m) => G[m].keep /\ BodyWhole(G, m)
    BY <1>2 DEF Intact
  <2>1. /\ F[m].req = Cardinality({h \in HeadsIn(F) : h <= m})
        /\ \A j \in BodyOf(F, m) : F[j].req = F[m].req
        /\ BodyLegal(F, m)
        /\ ~IsLast(F, m) => F[m].keep /\ BodyWhole(F, m)
    BY DEF Intact
  <2>2. G[m] = F[m] /\ m \in 1..Len(F)
    BY BeginsHeads
  <2>3. \A j \in BodyOf(F, m) : G[j] = F[j]
    <3>1. BodyOf(F, m) \subseteq 1..Len(F)
      BY <2>2, <1>1 DEF BodyOf
    <3>. QED BY <3>1, BeginsDomains
  <2>4. CASE IsLast(F, m)
    <3>1. m = k
      <4>1. k <= m /\ m <= k /\ k \in 1..Len(F)
        BY <2>4, BeginsHeads DEF IsLast
      <4>. QED BY <4>1, <2>2, <1>1
    <3>. QED BY <3>1, <2>1, <2>2, <2>3, <2>4, <1>2
  <2>5. CASE ~IsLast(F, m)
    <3>1. BodyOf(G, m) = BodyOf(F, m)
      BY <2>5, <1>2
    <3>2. BodyLegal(G, m) <=> BodyLegal(F, m)
      BY <2>2, <2>3, <3>1 DEF BodyLegal
    <3>3. BodyWhole(G, m) <=> BodyWhole(F, m)
      BY <2>2, <2>3, <3>1 DEF BodyWhole
    <3>. QED BY <2>1, <2>2, <2>3, <3>1, <3>2, <3>3, <1>2
  <2>. QED BY <2>4, <2>5
<1>. QED BY <1>2, <1>4, <1>5

\* A response begins: the one before it is complete and lets the connection go on.
LEMMA HeadAdded ==
    ASSUME NEW F, NEW G, Begins(F, G), Intact(F), LastWhole(F), OneResponse(F, G)
    PROVE  /\ Intact(G) /\ HeadsIn(G) = HeadsIn(F) \cup {Len(F) + 1}
           /\ Cardinality(HeadsIn(G)) = Cardinality(HeadsIn(F)) + 1
           /\ \A k \in HeadsIn(G) : IsLast(G, k) <=> k = Len(F) + 1
           /\ BodyOf(G, Len(F) + 1) = Len(F) + 2..Len(G)
           /\ Cardinality(BodyOf(G, Len(F) + 1)) = Len(G) - (Len(F) + 1)
<1>. DEFINE n == Len(F) + 1
<1>1. /\ Len(F) \in Nat /\ Len(G) \in Nat /\ n \in 1..Len(G) /\ n \in Nat
      /\ DOMAIN G = 1..Len(G) /\ G \in Seq(AllFrames) /\ F \in Seq(AllFrames)
  BY BeginsDomains DEF Begins, OneResponse
<1>0. /\ G[n].part = "head" /\ G[n].req = Cardinality(HeadsIn(F)) + 1
      /\ \A j \in Len(F) + 2..Len(G) : G[j].part = "data" /\ G[j].req = G[n].req
      /\ G[n].mode = "none" => Len(G) = Len(F) + 1
      /\ G[n].mode = "length" => Len(G) - n <= G[n].len
  BY DEF OneResponse
<1>00. n = Len(F) + 1 /\ n + 1 = Len(F) + 2 /\ n <= Len(G)
  BY <1>1
<1>. HIDE DEF n
<1>2. HeadsIn(G) = HeadsIn(F) \cup {n}
  <2>1. n \in HeadsIn(G)
    BY <1>0, <1>1 DEF HeadsIn
  <2>2. ASSUME NEW j \in HeadsIn(G), j # n PROVE j <= Len(F)
    <3>1. j \in 1..Len(G) /\ G[j].part = "head"
      BY <1>1 DEF HeadsIn
    <3>2. j \notin Len(F) + 2..Len(G)
      BY <3>1, <1>0
    <3>. QED BY <2>2, <3>1, <3>2, <1>1, <1>00
  <2>3. HeadsIn(F) = {k \in HeadsIn(G) : k <= Len(F)}
    BY BeginsHeads
  <2>. QED BY <2>1, <2>2, <2>3, <1>00, <1>1
<1>3. \A k \in HeadsIn(F) : k \in 1..Len(F) /\ G[k] = F[k]
  BY BeginsHeads
<1>4. Cardinality(HeadsIn(G)) = Cardinality(HeadsIn(F)) + 1
  <2>1. IsFiniteSet(HeadsIn(F)) /\ n \notin HeadsIn(F)
    BY <1>1, <1>00, <1>3, FinitelyMany
  <2>. QED BY <2>1, <1>2, FS_AddElement
<1>5. \A k \in HeadsIn(G) : IsLast(G, k) <=> k = n
  BY <1>1, <1>00, <1>2, <1>3 DEF IsLast
<1>6. BodyOf(G, n) = Len(F) + 2..Len(G)
  <2>2. \A j \in n + 1..Len(G) : G[j].part # "100"
    BY <1>0, <1>00
  <2>3. \A j \in n + 1..Len(G) : ~\E h \in HeadsIn(G) : n < h /\ h <= j
    BY <1>1, <1>00, <1>2, <1>3
  <2>4. BodyOf(G, n) = n + 1..Len(G)
    BY <2>2, <2>3 DEF BodyOf
  <2>. QED BY <1>00, <2>4
<1>7. Cardinality(BodyOf(G, n)) = Len(G) - n
  <2>1. Cardinality(Len(F) + 2..Len(G)) = Len(G) - n
    <3>1. CASE Len(F) + 2 <= Len(G)
      BY <3>1, <1>1, <1>00, FS_Interval
    <3>2. CASE Len(F) + 2 > Len(G)
      <4>1. Len(G) = n
        <5>1. Len(F) \in Nat /\ Len(G) \in Nat
          BY <1>1
        <5>. QED BY ONLY <5>1, <3>2, <1>00
      <4>2. Len(F) + 2..Len(G) = {}
        BY <3>2, <1>1
      <4>3. Len(G) - n = 0
        BY <4>1, <1>1
      <4>. QED BY <4>2, <4>3, FS_EmptySet
    <3>. QED BY <3>1, <3>2, <1>1
  <2>. QED BY <2>1, <1>6
<1>8. BodyLegal(G, n)
  <2>1. \A j \in BodyOf(G, n) : G[j].part = "data"
    BY <1>0, <1>6
  <2>2. CASE G[n].mode = "none"
    <3>1. Len(F) + 2..Len(G) = {}
      BY <2>2, <1>0, <1>1
    <3>. QED BY <3>1, <2>2, <1>6 DEF BodyLegal
  <2>3. CASE G[n].mode = "length"
    BY <2>3, <1>0, <1>7 DEF BodyLegal
  <2>4. CASE G[n].mode \notin {"none", "length"}
    BY <2>4, <2>1 DEF BodyLegal
  <2>. QED BY <2>2, <2>3, <2>4
<1>9. ASSUME NEW k \in HeadsIn(F) PROVE BodyOf(G, k) = BodyOf(F, k)
  <2>1. ASSUME NEW j \in BodyOf(G, k) PROVE j <= Len(F)
    <3>1. j \in k + 1..Len(G) /\ ~(k < n /\ n <= j)
      BY <1>2, <2>1 DEF BodyOf
    <3>. QED BY <3>1, <1>1, <1>00, <1>3
  <2>2. BodyOf(F, k) = {j \in BodyOf(G, k) : j <= Len(F)}
    BY BeginsBody
  <2>. QED BY <2>1, <2>2
<1>10. ASSUME NEW k \in HeadsIn(F)
       PROVE  /\ G[k].req = Cardinality({h \in HeadsIn(G) : h <= k})
              /\ \A j \in BodyOf(G, k) : G[j].req = G[k].req
              /\ BodyLegal(G, k)
              /\ G[k].keep /\ BodyWhole(G, k)
  <2>1. /\ F[k].req = Cardinality({h \in HeadsIn(F) : h <= k})
        /\ \A j \in BodyOf(F, k) : F[j].req = F[k].req
        /\ BodyLegal(F, k)
        /\ F[k].keep /\ BodyWhole(F, k)
    BY DEF Intact, LastWhole
  <2>2. G[k] = F[k] /\ {h \in HeadsIn(G) : h <= k} = {h \in HeadsIn(F) : h <= k}
    BY BeginsHeads
  <2>3. \A j \in BodyOf(F, k) : G[j] = F[j]
    <3>1. BodyOf(F, k) \subseteq 1..Len(F)
      BY <1>1, <1>3 DEF BodyOf
    <3>. QED BY <3>1, BeginsDomains
  <2>4. BodyLegal(G, k) <=> BodyLegal(F, k)
    BY <2>2, <2>3, <1>9 DEF BodyLegal
  <2>5. BodyWhole(G, k) <=> BodyWhole(F, k)
    BY <2>2, <2>3, <1>9 DEF BodyWhole
  <2>. QED BY <2>1, <2>2, <2>3, <2>4, <2>5, <1>9
<1>11. G[n].req = Cardinality({h \in HeadsIn(G) : h <= n})
  <2>1. {h \in HeadsIn(G) : h <= n} = HeadsIn(G)
    BY <1>1, <1>00, <1>2, <1>3
  <2>. QED BY <2>1, <1>0, <1>4
<1>12. \A j \in BodyOf(G, n) : G[j].req = G[n].req
  BY <1>0, <1>6
<1>13. Intact(G)
  <2>. QED BY <1>2, <1>5, <1>8, <1>10, <1>11, <1>12 DEF Intact
<1>. QED BY <1>00, <1>2, <1>4, <1>5, <1>6, <1>7, <1>13

\* What comes behind first is not an interim answer, or the first frame of its request.
NoLateInterim(first, all) ==
    \/ \A j \in Len(first) + 1..Len(all) : all[j].part # "100"
    \/ /\ Len(all) = Len(first) + 1
       /\ \A j \in DOMAIN first : first[j].req # all[Len(all)].req

\* Frames added to what is in time, unless one is a 100 for a request already answered.
LEMMA InTimeAdded ==
    ASSUME NEW F, NEW G, Begins(F, G), InTime(F), NoLateInterim(F, G)
    PROVE  InTime(G)
<1>. SUFFICES ASSUME NEW k \in DOMAIN G, G[k].part = "100",
                     NEW j \in DOMAIN G \ {k}, G[j].req = G[k].req
              PROVE  j > k
  BY DEF InTime
<1>1. /\ Len(F) \in Nat /\ Len(G) \in Nat /\ Len(F) <= Len(G)
      /\ DOMAIN F = 1..Len(F) /\ DOMAIN G = 1..Len(G)
      /\ \A i \in DOMAIN F : G[i] = F[i]
  BY BeginsDomains
<1>0. k \in 1..Len(G) /\ j \in 1..Len(G) /\ j # k
  BY <1>1
<1>2. CASE k \in 1..Len(F) /\ j \in 1..Len(F)
  BY <1>2, <1>1 DEF InTime
<1>3. CASE k \in 1..Len(F) /\ j \notin 1..Len(F)
  BY <1>3, <1>0, <1>1
<1>4. CASE k \notin 1..Len(F)
  <2>1. k \in Len(F) + 1..Len(G)
    BY <1>4, <1>0, <1>1
  <2>2. Len(G) = Len(F) + 1 /\ \A i \in DOMAIN F : F[i].req # G[Len(G)].req
    BY <2>1 DEF NoLateInterim
  <2>3. k = Len(G) /\ j \in 1..Len(F)
    BY <2>1, <2>2, <1>0, <1>1
  <2>. QED BY <2>2, <2>3, <1>1
<1>. QED BY <1>2, <1>3, <1>4

(***************************************************************************)
(* The peer's bytes: what each of them is.                                 *)
(***************************************************************************)
\* The part of its request the k-th unit is.
PartAt(request, k) ==
    IF k <= request.size THEN "head"
    ELSE IF k <= request.size + TermLen THEN "blank"
    ELSE IF k <= request.size + TermLen + request.body THEN "body"
    ELSE "last"

IsRequest(request) ==
    /\ request.size \in Nat /\ request.body \in Nat /\ request.chunks \in BOOLEAN
    /\ Size(request) \in Nat /\ Size(request) > 0

\* The requests of all lie behind the handshake, one behind the other.
Layout(start, requests, all) ==
    LET n == Len(requests)
    IN  /\ start \in [0..n -> Nat] /\ start[0] = Handshake /\ start[n] = Len(all)
        /\ \A i \in 0..n : start[i] \in Handshake..Len(all)
        /\ \A i \in 1..n : start[i] = start[i - 1] + Size(requests[i])
        /\ \A i \in 1..n : \A k \in 1..Size(requests[i]) :
              all[start[i - 1] + k] = Unit(i, PartAt(requests[i], k))

\* Every request of the peer is one in bytes: it has at least the line that ends its head.
LEMMA RequestsHaveSize ==
    ASSUME NEW request \in Requests
    PROVE  IsRequest(request)
<1>1. request.size \in Nat /\ request.body \in Nat /\ request.chunks \in BOOLEAN
  BY H1Assumption DEF Consistent
<1>2. TermLen \in Nat /\ TermLen > 0
  BY H1Assumption
<1>. QED BY <1>1, <1>2 DEF IsRequest, Size

\* What Repeat returns.
LEMMA Repeated ==
    ASSUME NEW S, NEW unit \in S, NEW n \in Nat
    PROVE  /\ Repeat(unit, n) \in Seq(S) /\ Len(Repeat(unit, n)) = n
           /\ \A k \in 1..n : Repeat(unit, n)[k] = unit
  BY DEF Repeat

\* What joining two sequences returns.
LEMMA Joined ==
    ASSUME NEW S, NEW s \in Seq(S), NEW t \in Seq(S)
    PROVE  /\ Join(s, t) \in Seq(S) /\ Len(Join(s, t)) = Len(s) + Len(t)
           /\ Len(s) \in Nat /\ Len(t) \in Nat
           /\ \A k \in 1..Len(s) : Join(s, t)[k] = s[k]
           /\ \A k \in 1..Len(t) : Join(s, t)[Len(s) + k] = t[k]
  BY DEF Join

\* The same, with the lengths.
LEMMA JoinedAt ==
    ASSUME NEW S, NEW s \in Seq(S), NEW t \in Seq(S), NEW m \in Nat, NEW n \in Nat,
           Len(s) = m, Len(t) = n, NEW all, all = Join(s, t)
    PROVE  /\ all \in Seq(S) /\ Len(all) = m + n
           /\ \A k \in 1..m : all[k] = s[k]
           /\ \A k \in 1..n : all[m + k] = t[k]
<1>1. all \in Seq(S) /\ Len(all) = m + n
  <2>1. Join(s, t) \in Seq(S) /\ Len(Join(s, t)) = Len(s) + Len(t)
    BY Joined
  <2>. QED BY <2>1
<1>2. ASSUME NEW k \in 1..m PROVE all[k] = s[k]
  <2>1. k \in 1..Len(s)
    OBVIOUS
  <2>2. Join(s, t)[k] = s[k]
    BY <2>1, Joined
  <2>. QED BY <2>2
<1>3. ASSUME NEW k \in 1..n PROVE all[m + k] = t[k]
  <2>1. k \in 1..Len(t)
    OBVIOUS
  <2>2. \A i \in 1..Len(t) : Join(s, t)[Len(s) + i] = t[i]
    BY ONLY s \in Seq(S), t \in Seq(S) DEF Join
  <2>. QED BY <2>1, <2>2
<1>. QED BY <1>1, <1>2, <1>3

\* The units of one request, by place.
LEMMA UnitsAt ==
    ASSUME NEW i \in Nat, NEW request, IsRequest(request)
    PROVE  /\ UnitsOf(i, request) \in Seq(Units)
           /\ Len(UnitsOf(i, request)) = Size(request)
           /\ \A k \in 1..Size(request) :
                 UnitsOf(i, request)[k] = Unit(i, PartAt(request, k))
<1>. DEFINE a == Repeat(Unit(i, "head"), request.size)
            b == Repeat(Unit(i, "blank"), TermLen)
            c == Repeat(Unit(i, "body"), request.body)
            ab == Join(a, b)
            abc == Join(ab, c)
            m == IF request.chunks THEN 1 ELSE 0
            d == Repeat(Unit(i, "last"), m)
<1>1. /\ Unit(i, "head") \in Units /\ Unit(i, "blank") \in Units
      /\ Unit(i, "body") \in Units /\ Unit(i, "last") \in Units
  BY DEF Unit, Units
<1>2. request.size \in Nat /\ TermLen \in Nat /\ request.body \in Nat /\ m \in Nat
  BY H1Assumption DEF IsRequest
<1>. HIDE DEF m
<1>3. a \in Seq(Units) /\ Len(a) = request.size /\ \A k \in 1..request.size : a[k] = Unit(i, "head")
  BY <1>1, <1>2, Repeated
<1>4. b \in Seq(Units) /\ Len(b) = TermLen /\ \A k \in 1..TermLen : b[k] = Unit(i, "blank")
  BY <1>1, <1>2, Repeated
<1>5. c \in Seq(Units) /\ Len(c) = request.body /\ \A k \in 1..request.body : c[k] = Unit(i, "body")
  BY <1>1, <1>2, Repeated
<1>6. d \in Seq(Units) /\ Len(d) = m /\ \A k \in 1..m : d[k] = Unit(i, "last")
  BY <1>1, <1>2, Repeated
<1>7. UnitsOf(i, request) = Join(Join(Join(a, b), c), d)
  BY DEF UnitsOf, Join, m
<1>8. Size(request) = request.size + TermLen + request.body + m
  BY DEF Size, m
<1>. HIDE DEF a, b, c, d
<1>9. /\ ab \in Seq(Units) /\ Len(ab) = request.size + TermLen
      /\ \A k \in 1..request.size : ab[k] = a[k]
      /\ \A k \in 1..TermLen : ab[request.size + k] = b[k]
  <2>1. a \in Seq(Units) /\ b \in Seq(Units) /\ Len(a) = request.size /\ Len(b) = TermLen
        /\ request.size \in Nat /\ TermLen \in Nat
    BY <1>2, <1>3, <1>4
  <2>2. ab = Join(a, b)
    OBVIOUS
  <2>. HIDE DEF ab
  <2>. QED BY ONLY <2>1, <2>2, JoinedAt
<1>10. /\ abc \in Seq(Units)
       /\ Len(abc) = request.size + TermLen + request.body
       /\ \A k \in 1..request.size + TermLen : abc[k] = ab[k]
       /\ \A k \in 1..request.body : abc[request.size + TermLen + k] = c[k]
  <2>1. /\ ab \in Seq(Units) /\ c \in Seq(Units)
        /\ Len(ab) = request.size + TermLen /\ Len(c) = request.body
        /\ request.size + TermLen \in Nat /\ request.body \in Nat
    BY <1>2, <1>5, <1>9
  <2>2. abc = Join(ab, c)
    OBVIOUS
  <2>. HIDE DEF ab, abc
  <2>. QED BY ONLY <2>1, <2>2, JoinedAt
<1>. HIDE DEF ab, abc
<1>. DEFINE all == UnitsOf(i, request)
<1>11. /\ all \in Seq(Units) /\ Len(all) = Size(request)
       /\ \A k \in 1..request.size + TermLen + request.body : all[k] = abc[k]
       /\ \A k \in 1..m : all[request.size + TermLen + request.body + k] = d[k]
  <2>1. all = Join(abc, d)
    BY <1>7 DEF ab, abc
  <2>. HIDE DEF all
  <2>2. /\ abc \in Seq(Units) /\ d \in Seq(Units)
        /\ Len(abc) = request.size + TermLen + request.body /\ Len(d) = m
        /\ request.size + TermLen + request.body \in Nat /\ m \in Nat
    BY <1>2, <1>6, <1>10
  <2>. DEFINE before == request.size + TermLen + request.body
  <2>3. before \in Nat /\ Len(abc) = before /\ Size(request) = before + m
    BY <2>2, <1>8
  <2>. HIDE DEF before
  <2>4. /\ all \in Seq(Units) /\ Len(all) = before + m
        /\ \A k \in 1..before : all[k] = abc[k]
        /\ \A k \in 1..m : all[before + k] = d[k]
    BY ONLY <2>1, <2>2, <2>3, JoinedAt
  <2>. QED BY <2>3, <2>4 DEF before
<1>. HIDE DEF all
<1>12. ASSUME NEW k \in 1..Size(request) PROVE all[k] = Unit(i, PartAt(request, k))
  <2>1. CASE k <= request.size
    <3>1. k \in 1..request.size /\ k \in 1..request.size + TermLen
          /\ k \in 1..request.size + TermLen + request.body
      BY <2>1, <1>2
    <3>2. all[k] = Unit(i, "head")
      BY <3>1, <1>3, <1>9, <1>10, <1>11
    <3>. QED BY <3>2, <2>1 DEF PartAt
  <2>2. CASE k > request.size /\ k <= request.size + TermLen
    <3>1. /\ k - request.size \in 1..TermLen /\ k = request.size + (k - request.size)
          /\ k \in 1..request.size + TermLen
          /\ k \in 1..request.size + TermLen + request.body
      BY <2>2, <1>2
    <3>2. ab[k] = Unit(i, "blank")
      BY <3>1, <1>4, <1>9
    <3>3. all[k] = Unit(i, "blank")
      BY <3>1, <3>2, <1>10, <1>11
    <3>. QED BY <3>3, <2>2, <1>2 DEF PartAt
  <2>3. CASE k > request.size + TermLen /\ k <= request.size + TermLen + request.body
    <3>. DEFINE r == k - (request.size + TermLen)
    <3>1. /\ r \in 1..request.body /\ k = request.size + TermLen + r
          /\ k \in 1..request.size + TermLen + request.body
      BY <2>3, <1>2
    <3>. HIDE DEF r
    <3>2. abc[k] = Unit(i, "body")
      BY <3>1, <1>5, <1>10
    <3>3. all[k] = Unit(i, "body")
      BY <3>1, <3>2, <1>11
    <3>. QED BY <3>3, <2>3, <1>2 DEF PartAt
  <2>4. CASE k > request.size + TermLen + request.body
    <3>. DEFINE r == k - (request.size + TermLen + request.body)
    <3>1. r \in 1..m /\ k = request.size + TermLen + request.body + r
      BY <2>4, <1>2, <1>8
    <3>. HIDE DEF r
    <3>2. all[k] = Unit(i, "last")
      BY <3>1, <1>6, <1>11
    <3>. QED BY <3>2, <2>4, <1>2 DEF PartAt
  <2>. QED BY <2>1, <2>2, <2>3, <2>4, <1>2
<1>. QED BY <1>11, <1>12 DEF all

\* The script's bytes lie one request behind the other.
LEMMA WireLaidOut ==
    ASSUME NEW n \in Nat \ {0}, NEW requests \in [1..n -> Requests]
    PROVE  /\ WireOf(requests) \in Seq(Units)
           /\ \E start : Layout(start, requests, WireOf(requests))
<1>. DEFINE seqs == [i \in DOMAIN requests |-> UnitsOf(i, requests[i])]
            hs == Repeat(Unit(0, "handshake"), Handshake)
            flat == FlattenSeq(seqs)
            whole == WireOf(requests)
<1>1. DOMAIN requests = 1..n /\ requests \in Seq(Requests) /\ Len(requests) = n
  OBVIOUS
<1>2. ASSUME NEW i \in 1..n
      PROVE  /\ seqs[i] \in Seq(Units) /\ Len(seqs[i]) = Size(requests[i])
             /\ Size(requests[i]) \in Nat
             /\ \A k \in 1..Size(requests[i]) : seqs[i][k] = Unit(i, PartAt(requests[i], k))
  <2>1. IsRequest(requests[i]) /\ i \in Nat /\ seqs[i] = UnitsOf(i, requests[i])
    BY RequestsHaveSize
  <2>. HIDE DEF seqs
  <2>2. Size(requests[i]) \in Nat
    BY <2>1 DEF IsRequest
  <2>. QED BY <2>1, <2>2, UnitsAt
<1>3. seqs = [i \in 1..n |-> seqs[i]]
  BY <1>1
<1>. HIDE DEF seqs
<1>4. seqs \in Seq(Seq(Units)) /\ Len(seqs) = n
  BY <1>2, <1>3
<1>5. flat \in Seq(Units) /\ \E s : Offsets(s, seqs, n, flat)
  BY <1>4, Flattened
<1>. HIDE DEF flat
<1>6. PICK s : Offsets(s, seqs, n, flat)
  BY <1>5
<1>7. /\ hs \in Seq(Units) /\ Len(hs) = Handshake
  <2>1. Unit(0, "handshake") \in Units
    BY DEF Unit, Units
  <2>. QED BY <2>1, H1Assumption, Repeated
<1>8. whole = Join(hs, flat)
  BY DEF WireOf, Join, seqs, flat
<1>. HIDE DEF hs, whole
<1>9. /\ whole \in Seq(Units) /\ Len(whole) = Handshake + Len(flat)
      /\ Len(flat) \in Nat /\ Handshake \in Nat
      /\ \A k \in 1..Len(flat) : whole[Handshake + k] = flat[k]
  <2>1. /\ Len(flat) \in Nat /\ Handshake \in Nat /\ flat \in Seq(Units)
        /\ hs \in Seq(Units) /\ Len(hs) = Handshake
    BY <1>5, <1>7, H1Assumption
  <2>. QED BY ONLY <2>1, <1>8, JoinedAt
<1>10. /\ s \in [0..n -> Nat] /\ s[0] = 0 /\ s[n] = Len(flat)
       /\ \A i \in 0..n : s[i] <= s[n]
       /\ \A i \in 1..n : s[i] = s[i - 1] + Len(seqs[i])
       /\ \A i \in 1..n : \A k \in 1..Len(seqs[i]) : flat[s[i - 1] + k] = seqs[i][k]
  BY <1>6 DEF Offsets
<1>. DEFINE start == [i \in 0..n |-> Handshake + s[i]]
<1>11. \A i \in 0..n : start[i] = Handshake + s[i] /\ s[i] \in Nat
  BY <1>10
<1>12. start \in [0..n -> Nat] /\ start[0] = Handshake /\ start[n] = Len(whole)
  BY <1>9, <1>10
<1>. HIDE DEF start
<1>13. ASSUME NEW i \in 1..n
       PROVE  /\ start[i] = start[i - 1] + Size(requests[i])
              /\ \A k \in 1..Size(requests[i]) :
                    whole[start[i - 1] + k] = Unit(i, PartAt(requests[i], k))
  <2>1. /\ i \in 0..n /\ i - 1 \in 0..n /\ s[i] \in Nat /\ s[i - 1] \in Nat
        /\ start[i] = Handshake + s[i] /\ start[i - 1] = Handshake + s[i - 1]
    BY <1>11
  <2>2. /\ s[i] = s[i - 1] + Size(requests[i]) /\ s[i] <= Len(flat)
        /\ Size(requests[i]) \in Nat
    BY <2>1, <1>2, <1>10
  <2>3. start[i] = start[i - 1] + Size(requests[i])
    BY <2>1, <2>2, <1>9
  <2>4. ASSUME NEW k \in 1..Size(requests[i])
        PROVE  whole[start[i - 1] + k] = Unit(i, PartAt(requests[i], k))
    <3>1. flat[s[i - 1] + k] = Unit(i, PartAt(requests[i], k))
      <4>1. seqs[i][k] = Unit(i, PartAt(requests[i], k)) /\ k \in 1..Len(seqs[i])
        BY <1>2
      <4>2. flat[s[i - 1] + k] = seqs[i][k]
        BY <4>1, <1>10
      <4>. QED BY <4>1, <4>2
    <3>2. s[i - 1] + k \in 1..Len(flat)
      <4>1. k \in Nat /\ k >= 1 /\ k <= Size(requests[i])
        BY <2>2
      <4>2. s[i - 1] + k \in Nat /\ s[i - 1] + k >= 1 /\ s[i - 1] + k <= Len(flat)
        <5>. DEFINE p == s[i - 1]
                    q == Size(requests[i])
        <5>1. p \in Nat /\ q \in Nat /\ k <= q /\ p + q <= Len(flat) /\ Len(flat) \in Nat
          <6>1. p + q = s[i]
            BY <2>2
          <6>. QED BY <6>1, <4>1, <2>1, <2>2, <1>9
        <5>. HIDE DEF p, q
        <5>2. p + k \in Nat /\ p + k >= 1 /\ p + k <= Len(flat)
          BY ONLY <5>1, <4>1
        <5>. QED BY <5>2 DEF p
      <4>. QED BY ONLY <4>2, <1>9
    <3>3. whole[Handshake + (s[i - 1] + k)] = flat[s[i - 1] + k]
      BY <3>2, <1>9
    <3>4. start[i - 1] + k = Handshake + (s[i - 1] + k)
      BY <2>1, <2>2, <1>9
    <3>. QED BY <3>1, <3>3, <3>4
  <2>. QED BY <2>3, <2>4
<1>14. ASSUME NEW i \in 0..n PROVE start[i] \in Handshake..Len(whole)
  <2>1. start[i] = Handshake + s[i] /\ s[i] \in Nat /\ s[i] <= Len(flat)
    BY <1>10, <1>11
  <2>. QED BY <2>1, <1>9
<1>15. Layout(start, requests, whole)
  BY <1>1, <1>12, <1>13, <1>14 DEF Layout
<1>. QED BY <1>9, <1>15 DEF whole

(***************************************************************************)
(* What has been answered so far, and what the engine still owes: of       *)
(* frames, of the request being handled (0 for none), of the body being    *)
(* sent, and of whether the connection is ending.                          *)
(***************************************************************************)
FileBody   == [kind : {"file"}, req : Nat, left : Nat \ {0}]
StreamBody == [kind : {"stream"}, req : Nat, chunked : BOOLEAN]

Count(frames) == Cardinality(HeadsIn(frames))

\* How the response with head k goes on: from a file, with as many pieces as its
\* head announced; from a stream, in chunks without the last one yet, or up to the
\* end of the connection.
FileFits(frames, k, left) ==
    frames[k].mode = "length" => Cardinality(BodyOf(frames, k)) + left = frames[k].len

ChunksOpen(frames, k) ==
    frames[k].mode = "chunked" /\ \A j \in BodyOf(frames, k) : frames[j].part # "end"

Rest(frames, k, b, ending) ==
    /\ ~ending => frames[k].keep
    /\ frames[k].mode = "close" => ending
    /\ b = None /\ ~ending => BodyWhole(frames, k)
    /\ b # None => b.req = frames[k].req
    /\ b \in FileBody => frames[k].mode \in {"close", "length"} /\ FileFits(frames, k, b.left)
    /\ b \in StreamBody => IF b.chunked THEN ChunksOpen(frames, k) ELSE frames[k].mode = "close"

\* Frames of a request before its answer are interim, and only of the next request.
NoneEarly(frames, p, asked) ==
    \A j \in DOMAIN frames :
        /\ frames[j].req <= Count(frames) + 1
        /\ frames[j].req = Count(frames) + 1 => asked \/ p # 0

Owes(frames, p, b, ending, asked) ==
    /\ frames \in Seq(AllFrames)
    /\ Intact(frames) /\ InTime(frames) /\ NoneEarly(frames, p, asked)
    /\ b # None => HeadsIn(frames) # {}
    /\ \A k \in HeadsIn(frames) : IsLast(frames, k) => Rest(frames, k, b, ending)

\* No body, the body from a file and the body from a stream are told apart.
LEMMA BodiesApart ==
    /\ None \notin FileBody /\ None \notin StreamBody
    /\ \A b \in FileBody : b \notin StreamBody /\ b.kind = "file"
    /\ \A b \in StreamBody : b.kind = "stream"
  BY H1Assumption DEF FileBody, StreamBody

\* The number of heads is a number.
LEMMA CountIsNat ==
    ASSUME NEW F \in Seq(AllFrames)
    PROVE  Count(F) \in Nat
  BY FinitelyMany, 0 \in Nat DEF Count

\* The body cannot be had: the connection ends with the response as it is.
LEMMA GivenUp ==
    ASSUME NEW F, NEW p, NEW b, NEW c \in BOOLEAN, NEW d \in BOOLEAN, NEW t \in BOOLEAN,
           Owes(F, p, b, c, t), d
    PROVE  Owes(F, p, None, d, t)
<1>1. ASSUME NEW k \in HeadsIn(F), IsLast(F, k) PROVE Rest(F, k, None, d)
  BY BodiesApart DEF Rest
<1>. QED BY <1>1 DEF Owes

\* A request is delivered.
LEMMA Handed ==
    ASSUME NEW F, NEW p \in Nat \ {0}, NEW c \in BOOLEAN, NEW t \in BOOLEAN, NEW u \in BOOLEAN,
           Owes(F, 0, None, c, t)
    PROVE  Owes(F, p, None, c, u)
  BY DEF Owes, NoneEarly

\* A request is asked to go on.
LEMMA Asked ==
    ASSUME NEW F, NEW G, Begins(F, G), Len(G) = Len(F) + 1,
           NEW c \in BOOLEAN, NEW t \in BOOLEAN, NEW u \in BOOLEAN,
           G[Len(G)].part = "100", G[Len(G)].req = Count(F) + 1,
           Owes(F, 0, None, c, t), ~t, u
    PROVE  Owes(G, 0, None, c, u) /\ Count(G) = Count(F)
<1>1. /\ F \in Seq(AllFrames) /\ Intact(F) /\ InTime(F) /\ NoneEarly(F, 0, t)
      /\ \A k \in HeadsIn(F) : IsLast(F, k) => Rest(F, k, None, c)
  BY DEF Owes
<1>2. Count(F) \in Nat
  BY <1>1, CountIsNat
<1>3. /\ Intact(G) /\ HeadsIn(G) = HeadsIn(F)
      /\ \A k : IsLast(G, k) <=> IsLast(F, k)
      /\ \A k \in HeadsIn(F) : BodyOf(G, k) = BodyOf(F, k)
  BY <1>1, InterimAdded
<1>4. /\ Len(F) \in Nat /\ DOMAIN F = 1..Len(F) /\ DOMAIN G = 1..Len(F) + 1
      /\ \A j \in DOMAIN F : G[j] = F[j]
      /\ \A j \in DOMAIN G : j \in DOMAIN F \/ j = Len(G)
      /\ \A j \in DOMAIN F : F[j].req \in Nat
  <2>1. /\ Len(F) \in Nat /\ DOMAIN F = 1..Len(F) /\ DOMAIN G = 1..Len(F) + 1
        /\ \A j \in DOMAIN F : G[j] = F[j] /\ F[j] \in AllFrames
    BY BeginsDomains
  <2>2. \A j \in DOMAIN F : F[j].req \in Nat
    BY <2>1 DEF AllFrames
  <2>. QED BY <2>1, <2>2
<1>5. \A j \in DOMAIN F : F[j].req <= Count(F)
  BY <1>1, <1>2, <1>4 DEF NoneEarly
<1>6. InTime(G)
  <2>1. \A j \in DOMAIN F : F[j].req # G[Len(G)].req
    BY <1>2, <1>4, <1>5
  <2>2. NoLateInterim(F, G)
    BY <2>1 DEF NoLateInterim
  <2>. QED BY <2>2, <1>1, InTimeAdded
<1>7. Count(G) = Count(F)
  BY <1>3 DEF Count
<1>8. NoneEarly(G, 0, u)
  <2>1. ASSUME NEW j \in DOMAIN G PROVE G[j].req <= Count(G) + 1
    <3>1. CASE j = Len(G)
      BY <3>1, <1>2, <1>7
    <3>2. CASE j \in DOMAIN F
      BY <3>2, <1>2, <1>4, <1>5, <1>7
    <3>. QED BY <3>1, <3>2, <1>4
  <2>. QED BY <2>1 DEF NoneEarly
<1>9. ASSUME NEW k \in HeadsIn(F), IsLast(F, k) PROVE Rest(G, k, None, c)
  <2>1. Rest(F, k, None, c) /\ G[k] = F[k] /\ BodyOf(G, k) = BodyOf(F, k)
    BY <1>1, <1>3, <1>9, BeginsHeads
  <2>2. \A j \in BodyOf(F, k) : G[j] = F[j]
    <3>1. BodyOf(F, k) \subseteq DOMAIN F
      <4>1. k \in 1..Len(F)
        BY BeginsHeads
      <4>. QED BY <4>1, <1>4 DEF BodyOf
    <3>. QED BY <3>1, <1>4
  <2>3. BodyWhole(G, k) <=> BodyWhole(F, k)
    BY <2>1, <2>2 DEF BodyWhole
  <2>. QED BY <2>1, <2>3, BodiesApart DEF Rest
<1>. QED BY <1>3, <1>6, <1>7, <1>8, <1>9 DEF Owes, Begins

\* What a response's head and its first m pieces promise of the rest of its body.
Promised(head, m, b, ending) ==
    /\ ~ending => head.keep
    /\ head.mode = "close" => ending
    /\ b = None /\ ~ending => head.mode = "none" \/ (head.mode = "length" /\ m = head.len)
    /\ b # None => b.req = head.req
    /\ b \in FileBody =>
          /\ head.mode \in {"close", "length"}
          /\ head.mode = "length" => m + b.left = head.len
    /\ b \in StreamBody => IF b.chunked THEN head.mode = "chunked" ELSE head.mode = "close"

\* A request is answered.
LEMMA Answered ==
    ASSUME NEW F, NEW G, Begins(F, G), OneResponse(F, G), NEW p, NEW b,
           NEW c \in BOOLEAN, NEW d \in BOOLEAN, NEW t \in BOOLEAN, NEW u \in BOOLEAN,
           Owes(F, p, None, c, t), ~c,
           Promised(G[Len(F) + 1], Len(G) - (Len(F) + 1), b, d)
    PROVE  Owes(G, 0, b, d, u) /\ Count(G) = Count(F) + 1
<1>. DEFINE n == Len(F) + 1
            m == Len(G) - n
<1>1. /\ F \in Seq(AllFrames) /\ Intact(F) /\ InTime(F) /\ NoneEarly(F, p, t)
      /\ \A k \in HeadsIn(F) : IsLast(F, k) => Rest(F, k, None, c)
  BY DEF Owes
<1>2. Count(F) \in Nat
  BY <1>1, CountIsNat
<1>3. LastWhole(F)
  BY <1>1 DEF LastWhole, Rest
<1>4. /\ Intact(G) /\ HeadsIn(G) = HeadsIn(F) \cup {n}
      /\ Count(G) = Count(F) + 1
      /\ \A k \in HeadsIn(G) : IsLast(G, k) <=> k = n
      /\ BodyOf(G, n) = Len(F) + 2..Len(G)
      /\ Cardinality(BodyOf(G, n)) = m
  BY <1>1, <1>3, HeadAdded DEF Count
<1>5. /\ Len(F) \in Nat /\ Len(G) \in Nat /\ DOMAIN F = 1..Len(F) /\ DOMAIN G = 1..Len(G)
      /\ \A j \in DOMAIN F : G[j] = F[j]
      /\ \A j \in DOMAIN G : j \in DOMAIN F \/ j = n \/ j \in Len(F) + 2..Len(G)
      /\ \A j \in DOMAIN F : F[j].req \in Nat
  <2>1. /\ Len(F) \in Nat /\ Len(G) \in Nat /\ DOMAIN F = 1..Len(F) /\ DOMAIN G = 1..Len(G)
        /\ \A j \in DOMAIN F : G[j] = F[j] /\ F[j] \in AllFrames
    BY BeginsDomains
  <2>2. \A j \in DOMAIN F : F[j].req \in Nat
    BY <2>1 DEF AllFrames
  <2>3. \A j \in DOMAIN G : j \in DOMAIN F \/ j = n \/ j \in Len(F) + 2..Len(G)
    BY <2>1
  <2>. QED BY <2>1, <2>2, <2>3
<1>6. /\ G[n].part = "head" /\ G[n].req = Count(F) + 1
      /\ \A j \in Len(F) + 2..Len(G) : G[j].part = "data" /\ G[j].req = G[n].req
  BY DEF OneResponse, Count
<1>7. InTime(G)
  <2>1. ASSUME NEW j \in Len(F) + 1..Len(G) PROVE G[j].part # "100"
    <3>1. j = n \/ j \in Len(F) + 2..Len(G)
      BY <1>5
    <3>. QED BY <3>1, <1>6
  <2>2. NoLateInterim(F, G)
    BY <2>1 DEF NoLateInterim
  <2>. QED BY <2>2, <1>1, InTimeAdded
<1>8. NoneEarly(G, 0, u)
  <2>1. ASSUME NEW j \in DOMAIN G PROVE G[j].req <= Count(F) + 1
    <3>1. CASE j \in DOMAIN F
      BY <3>1, <1>1, <1>5 DEF NoneEarly
    <3>2. CASE j = n \/ j \in Len(F) + 2..Len(G)
      BY <3>2, <1>2, <1>6
    <3>. QED BY <3>1, <3>2, <1>5
  <2>2. ASSUME NEW j \in DOMAIN G PROVE G[j].req \in Nat
    <3>1. CASE j \in DOMAIN F
      BY <3>1, <1>5
    <3>2. CASE j = n \/ j \in Len(F) + 2..Len(G)
      BY <3>2, <1>2, <1>6
    <3>. QED BY <3>1, <3>2, <1>5
  <2>3. ASSUME NEW j \in DOMAIN G PROVE G[j].req <= Count(G) + 1 /\ G[j].req # Count(G) + 1
    BY <2>1, <2>2, <1>2, <1>4
  <2>. QED BY <2>3 DEF NoneEarly
<1>9. Rest(G, n, b, d)
  <2>1. Promised(G[n], m, b, d)
    OBVIOUS
  <2>2. \A j \in BodyOf(G, n) : G[j].part # "end"
    BY <1>4, <1>6
  <2>3. Cardinality(BodyOf(G, n)) = m
    BY <1>4
  <2>. HIDE DEF n, m
  <2>4. b = None /\ ~d => BodyWhole(G, n)
    BY <2>1, <2>3 DEF Promised, BodyWhole
  <2>. QED BY <2>1, <2>2, <2>3, <2>4 DEF Promised, Rest, FileFits, ChunksOpen
<1>. HIDE DEF n
<1>10. HeadsIn(G) # {} /\ \A k \in HeadsIn(G) : IsLast(G, k) => Rest(G, k, b, d)
  BY <1>4, <1>9
<1>. QED BY <1>4, <1>7, <1>8, <1>10 DEF Owes, Begins

\* A set of numbers that is bounded and not empty has a greatest element.
LEMMA Greatest ==
    ASSUME NEW n \in Nat, NEW T, T \subseteq 1..n, T # {}
    PROVE  \E k \in T : \A h \in T : h <= k
<1>. DEFINE U == {n - k : k \in T}
<1>1. U \subseteq Nat /\ U # {}
  <2>1. \A k \in T : k \in 1..n /\ n - k \in Nat
    OBVIOUS
  <2>. QED BY <2>1
<1>2. PICK m \in U : \A j \in U : m <= j
  <2>. HIDE DEF U
  <2>. QED BY <1>1, LeastNat
<1>3. PICK k \in T : m = n - k
  OBVIOUS
<1>4. ASSUME NEW h \in T PROVE h <= k
  <2>1. n - h \in U
    OBVIOUS
  <2>2. n - k <= n - h
    BY <2>1, <1>2, <1>3
  <2>3. h \in 1..n /\ k \in 1..n
    OBVIOUS
  <2>. QED BY <2>2, <2>3
<1>. QED BY <1>4

\* What may come next of a body, and what is owed after it.
NextPiece(piece, b, e) ==
    \/ piece.part = "data" /\ b \in StreamBody /\ e = b
    \/ piece.part = "data" /\ b \in FileBody /\ b.left = 1 /\ e = None
    \/ /\ piece.part = "data" /\ b \in FileBody /\ b.left # 1
       /\ e \in FileBody /\ e.req = b.req /\ e.left = b.left - 1
    \/ piece.part = "end" /\ b \in StreamBody /\ b.chunked /\ e = None

\* A piece of the body that is being sent, or its end.
LEMMA Sent ==
    ASSUME NEW F, NEW G, Begins(F, G), Len(G) = Len(F) + 1, NEW p, NEW b, NEW e,
           NEW c \in BOOLEAN, NEW t \in BOOLEAN,
           Owes(F, p, b, c, t), b # None, G[Len(G)].req = b.req, NextPiece(G[Len(G)], b, e)
    PROVE  Owes(G, p, e, c, t) /\ Count(G) = Count(F)
<1>. DEFINE n == Len(G)
<1>1. /\ F \in Seq(AllFrames) /\ G \in Seq(AllFrames)
      /\ Intact(F) /\ InTime(F) /\ NoneEarly(F, p, t)
      /\ HeadsIn(F) # {}
      /\ \A k \in HeadsIn(F) : IsLast(F, k) => Rest(F, k, b, c)
  BY DEF Owes, Begins
<1>2. /\ Len(F) \in Nat /\ n \in Nat /\ n = Len(F) + 1
      /\ DOMAIN F = 1..Len(F) /\ DOMAIN G = 1..n
      /\ \A j \in DOMAIN F : G[j] = F[j] /\ F[j] \in AllFrames
      /\ \A j \in DOMAIN G : j \in DOMAIN F \/ j = n
      /\ Len(F) + 1..n = {n} /\ n \in DOMAIN G /\ n \notin DOMAIN F
  BY BeginsDomains
<1>3. n = Len(G) /\ G[n].part \in {"data", "end"} /\ G[n].req = b.req
  BY DEF NextPiece
<1>4. NextPiece(G[n], b, e)
  OBVIOUS
<1>. HIDE DEF n
<1>5. PICK k \in HeadsIn(F) : IsLast(F, k)
  <2>1. HeadsIn(F) \subseteq 1..Len(F)
    BY <1>2 DEF HeadsIn
  <2>2. \E k \in HeadsIn(F) : \A h \in HeadsIn(F) : h <= k
    BY <2>1, <1>1, <1>2, Greatest
  <2>. QED BY <2>2 DEF IsLast
<1>6. /\ Rest(F, k, b, c) /\ G[k] = F[k] /\ k \in 1..Len(F) /\ k \in Nat /\ k \in DOMAIN F
      /\ G[n].req = F[k].req
  <2>1. Rest(F, k, b, c) /\ G[k] = F[k] /\ k \in 1..Len(F)
    BY <1>1, <1>5, BeginsHeads
  <2>2. b.req = F[k].req
    BY <2>1 DEF Rest
  <2>. QED BY <2>1, <2>2, <1>2, <1>3
<1>7. BodyOf(G, k) = BodyOf(F, k) \cup {n}
  <2>1. OnlyPieces(F, G)
    BY <1>2, <1>3 DEF OnlyPieces
  <2>2. BodyOf(G, k) = BodyOf(F, k) \cup {j \in Len(F) + 1..Len(G) : G[j].part # "100"}
    BY <2>1, <1>5, PiecesAdded
  <2>3. {j \in Len(F) + 1..Len(G) : G[j].part # "100"} = {n}
    BY <1>2, <1>3
  <2>. QED BY ONLY <2>2, <2>3
<1>8. \A j \in BodyOf(F, k) : G[j] = F[j] /\ j <= n
  <2>1. BodyOf(F, k) \subseteq 1..Len(F)
    BY <1>6, <1>2 DEF BodyOf
  <2>2. \A j \in 1..Len(F) : j <= n
    BY <1>2
  <2>. QED BY <2>1, <2>2, <1>2
<1>9. /\ Cardinality(BodyOf(G, k)) = Cardinality(BodyOf(F, k)) + 1
      /\ Cardinality(BodyOf(F, k)) \in Nat
  <2>1. IsFiniteSet(BodyOf(F, k)) /\ Cardinality(BodyOf(F, k)) \in Nat
    BY <1>1, <1>6, FinitelyMany
  <2>2. n \notin BodyOf(F, k)
    BY <1>2 DEF BodyOf
  <2>. QED BY <2>1, <2>2, <1>7, FS_AddElement
<1>10. F[k].len \in Nat /\ F[k].mode \in Modes
  <2>1. F[k] \in AllFrames /\ F[k].part = "head"
    BY <1>2, <1>6 DEF HeadsIn
  <2>. QED BY <2>1 DEF AllFrames
<1>11. ASSUME G[n].part = "data", b \in StreamBody, e = b
       PROVE  BodyLegal(G, k) /\ Rest(G, k, e, c)
  <2>1. IF b.chunked THEN ChunksOpen(F, k) ELSE F[k].mode = "close"
    BY <1>6, <1>11 DEF Rest
  <2>2. BodyLegal(F, k)
    BY <1>1 DEF Intact
  <2>3. \A j \in BodyOf(F, k) : F[j].part # "end"
    <3>1. CASE F[k].mode = "close"
      BY <3>1, <2>2 DEF BodyLegal
    <3>2. CASE ChunksOpen(F, k)
      BY <3>2 DEF ChunksOpen
    <3>. QED BY <3>1, <3>2, <2>1
  <2>4. \A j \in BodyOf(G, k) : G[j].part # "end"
    BY <2>3, <1>7, <1>8, <1>11
  <2>5. G[k].mode \in {"close", "chunked"}
    BY <2>1, <1>6 DEF ChunksOpen
  <2>6. BodyLegal(G, k)
    BY <2>4, <2>5 DEF BodyLegal
  <2>7. Rest(G, k, e, c)
    <3>1. IF b.chunked THEN ChunksOpen(G, k) ELSE G[k].mode = "close"
      BY <2>1, <2>4, <1>6 DEF ChunksOpen
    <3>. QED BY <3>1, <1>6, <1>11, BodiesApart DEF Rest
  <2>. QED BY <2>6, <2>7
<1>12. ASSUME G[n].part = "data", b \in FileBody
       PROVE  /\ BodyLegal(G, k) /\ F[k].mode \in {"close", "length"}
              /\ F[k].mode = "length" =>
                    Cardinality(BodyOf(G, k)) + (b.left - 1) = F[k].len
  <2>1. F[k].mode \in {"close", "length"} /\ FileFits(F, k, b.left)
    BY <1>6, <1>12 DEF Rest
  <2>2. b.left \in Nat /\ b.left >= 1
    BY <1>12 DEF FileBody
  <2>3. CASE F[k].mode = "length"
    <3>1. Cardinality(BodyOf(F, k)) + b.left = F[k].len
      BY <2>1, <2>3 DEF FileFits
    <3>2. /\ Cardinality(BodyOf(G, k)) <= F[k].len
          /\ Cardinality(BodyOf(G, k)) + (b.left - 1) = F[k].len
      BY <3>1, <2>2, <1>9, <1>10
    <3>3. BodyLegal(G, k)
      BY <3>2, <2>3, <1>6 DEF BodyLegal
    <3>. QED BY <3>2, <3>3, <2>3
  <2>4. CASE F[k].mode = "close"
    <3>1. BodyLegal(F, k)
      BY <1>1 DEF Intact
    <3>2. \A j \in BodyOf(F, k) : F[j].part # "end"
      BY <3>1, <2>4 DEF BodyLegal
    <3>3. \A j \in BodyOf(G, k) : G[j].part # "end"
      BY <3>2, <1>7, <1>8, <1>12
    <3>4. BodyLegal(G, k)
      BY <3>3, <2>4, <1>6 DEF BodyLegal
    <3>. QED BY <3>4, <2>4
  <2>. QED BY <2>1, <2>3, <2>4
<1>13. ASSUME G[n].part = "data", b \in FileBody, b.left = 1, e = None
       PROVE  BodyLegal(G, k) /\ Rest(G, k, e, c)
  <2>1. F[k].mode = "length" => BodyWhole(G, k)
    <3>. SUFFICES ASSUME F[k].mode = "length" PROVE BodyWhole(G, k)
      OBVIOUS
    <3>1. Cardinality(BodyOf(G, k)) = F[k].len
      BY <1>9, <1>10, <1>12, <1>13
    <3>. QED BY <3>1, <1>6 DEF BodyWhole
  <2>. QED BY <2>1, <1>6, <1>12, <1>13, BodiesApart DEF Rest
<1>14. ASSUME G[n].part = "data", b \in FileBody, e \in FileBody, e.req = b.req,
              e.left = b.left - 1
       PROVE  BodyLegal(G, k) /\ Rest(G, k, e, c)
  <2>1. FileFits(G, k, e.left)
    BY <1>6, <1>12, <1>14 DEF FileFits
  <2>. QED BY <2>1, <1>6, <1>12, <1>14, BodiesApart DEF Rest
<1>15. ASSUME G[n].part = "end", b \in StreamBody, b.chunked, e = None
       PROVE  BodyLegal(G, k) /\ Rest(G, k, e, c)
  <2>1. ChunksOpen(F, k)
    BY <1>6, <1>15 DEF Rest
  <2>2. \A j \in BodyOf(F, k) : G[j].part # "end"
    BY <2>1, <1>8 DEF ChunksOpen
  <2>3. BodyLegal(G, k)
    <3>1. \A j \in BodyOf(G, k) : j <= n
      BY <1>2, <1>7, <1>8
    <3>2. \A j \in BodyOf(G, k) : G[j].part = "end" => j = n
      BY <2>2, <1>7
    <3>3. G[k].mode = "chunked"
      BY <2>1, <1>6 DEF ChunksOpen
    <3>. QED BY <3>1, <3>2, <3>3 DEF BodyLegal
  <2>4. BodyWhole(G, k) /\ G[k].mode # "close"
    <3>1. G[k].mode = "chunked"
      BY <2>1, <1>6 DEF ChunksOpen
    <3>2. n \in BodyOf(G, k)
      BY <1>7
    <3>. QED BY <3>1, <3>2, <1>15 DEF BodyWhole
  <2>. QED BY <2>3, <2>4, <1>6, <1>15, BodiesApart DEF Rest
<1>16. BodyLegal(G, k) /\ Rest(G, k, e, c)
  BY <1>4, <1>11, <1>13, <1>14, <1>15 DEF NextPiece
<1>17. /\ Intact(G) /\ HeadsIn(G) = HeadsIn(F) /\ IsLast(G, k)
  BY <1>1, <1>2, <1>3, <1>5, <1>6, <1>16, PieceAdded
<1>18. Count(G) = Count(F) /\ Count(F) \in Nat
  BY <1>1, <1>17, CountIsNat DEF Count
<1>19. InTime(G)
  <2>1. \A j \in Len(F) + 1..Len(G) : G[j].part # "100"
    BY <1>2, <1>3
  <2>2. NoLateInterim(F, G)
    BY <2>1 DEF NoLateInterim
  <2>. QED BY <2>2, <1>1, InTimeAdded
<1>20. G[n].req = Count(F)
  <2>1. F[k].req = Cardinality({h \in HeadsIn(F) : h <= k})
    BY <1>1 DEF Intact
  <2>2. {h \in HeadsIn(F) : h <= k} = HeadsIn(F)
    BY <1>5 DEF IsLast
  <2>. QED BY <2>1, <2>2, <1>6 DEF Count
<1>21. NoneEarly(G, p, t)
  <2>. SUFFICES ASSUME NEW j \in DOMAIN G
                PROVE  /\ G[j].req <= Count(F) + 1
                       /\ G[j].req = Count(F) + 1 => t \/ p # 0
    BY <1>18 DEF NoneEarly
  <2>1. CASE j \in DOMAIN F
    BY <2>1, <1>1, <1>2 DEF NoneEarly
  <2>2. CASE j = n
    BY <2>2, <1>18, <1>20
  <2>. QED BY <2>1, <2>2, <1>2
<1>22. ASSUME NEW m \in HeadsIn(G), IsLast(G, m) PROVE Rest(G, m, e, c)
  <2>1. m <= k /\ k <= m /\ m \in 1..Len(F)
    BY <1>5, <1>17, <1>22, BeginsHeads DEF IsLast
  <2>2. m = k
    BY <2>1, <1>6
  <2>. QED BY <2>2, <1>16
<1>. QED BY <1>1, <1>17, <1>18, <1>19, <1>21, <1>22 DEF Owes

(***************************************************************************)
(* The invariant.                                                          *)
(***************************************************************************)
\* What was sent, is being sent and waits to be sent.
All == Join(sent, Join(out, outbuf))

\* Where each request ends in wire, and so the next begins.
Where == CHOOSE start : Layout(start, script, wire)

Heads == Count(All)

\* How many requests were drained from inbuf.
Done == Heads + (IF pending = 0 THEN 0 ELSE 1)

Types ==
    /\ script \in Seq(Requests) /\ Len(script) > 0
    /\ wire \in Seq(Units) /\ Layout(Where, script, wire)
    /\ fed \in 0..Len(wire) /\ taken \in Handshake..Len(wire)
    /\ sent \in Seq(AllFrames) /\ out \in Seq(AllFrames) /\ outbuf \in Seq(AllFrames)
    /\ engine \in BOOLEAN /\ closed \in BOOLEAN /\ interim \in BOOLEAN /\ failed \in BOOLEAN
    /\ pending \in Nat /\ scanned \in Nat /\ chunk \in Nat \cup {None}
    /\ body \in {None} \cup FileBody \cup StreamBody
    /\ at \in {"read", "serve", "check", "flush", "again", "append", "write", "after",
               "closed", "lost"}

\* Where the loop is when the engine is asked something or holds something back.
Turn ==
    /\ Serving => engine
    /\ engine => taken <= fed /\ scanned <= Buffered
    /\ ~engine => taken = Handshake /\ scanned = 0
    /\ out # <<>> => at \in {"again", "append", "write", "lost"}
    /\ pending # 0 => Serving /\ ~closed /\ body = None /\ pending = Heads + 1

\* The scan of a request never passes its head's end, nor the decoder its body's.
ScanWithin(request) ==
    /\ scanned <= request.size + TermLen - 1
    /\ chunk # None => /\ chunk <= request.body
                       /\ scanned = request.size + TermLen - 1
                       /\ request.size + TermLen + chunk <= Buffered

Cursor ==
    /\ Done <= Len(script)
    /\ ~closed => taken = Where[Done]
    /\ pending # 0 \/ body # None \/ closed \/ Done = Len(script) =>
          scanned = 0 /\ chunk = None
    /\ Done < Len(script) => ScanWithin(script[Done + 1])

IInv == Types /\ Turn /\ Cursor /\ Owes(All, pending, body, closed, interim)

----------------------------------------------------------------------------
(* Frames put together.                                                     *)

\* Frames with others joined on begin with the first and go on with the second.
LEMMA JoinFrames ==
    ASSUME NEW F \in Seq(AllFrames), NEW D \in Seq(AllFrames)
    PROVE  /\ Begins(F, Join(F, D))
           /\ Len(Join(F, D)) = Len(F) + Len(D) /\ Len(F) \in Nat /\ Len(D) \in Nat
           /\ \A k \in 1..Len(D) : Join(F, D)[Len(F) + k] = D[k]
<1>1. /\ Join(F, D) \in Seq(AllFrames) /\ Len(Join(F, D)) = Len(F) + Len(D)
      /\ Len(F) \in Nat /\ Len(D) \in Nat
      /\ \A k \in 1..Len(F) : Join(F, D)[k] = F[k]
  BY Joined
<1>2. \A k \in 1..Len(D) : Join(F, D)[Len(F) + k] = D[k]
  BY ONLY F \in Seq(AllFrames), D \in Seq(AllFrames) DEF Join
<1>. QED BY <1>1, <1>2 DEF Begins

\* Joining nothing changes nothing.
LEMMA JoinNothing ==
    ASSUME NEW S, NEW s \in Seq(S)
    PROVE  Join(s, <<>>) = s /\ Join(<<>>, s) = s
  BY DEF Join

\* Joining is associative.
LEMMA JoinAssociates ==
    ASSUME NEW S, NEW r \in Seq(S), NEW s \in Seq(S), NEW t \in Seq(S)
    PROVE  /\ Join(r, Join(s, t)) = Join(Join(r, s), t)
           /\ Join(r, s) \in Seq(S)
  BY DEF Join

\* What is put behind outbuf is put behind everything.
LEMMA JoinThree ==
    ASSUME NEW S, NEW a \in Seq(S), NEW b \in Seq(S), NEW c \in Seq(S), NEW d \in Seq(S)
    PROVE  Join(a, Join(b, Join(c, d))) = Join(Join(a, Join(b, c)), d)
<1>1. Join(b, Join(c, d)) = Join(Join(b, c), d) /\ Join(b, c) \in Seq(S)
  BY JoinAssociates
<1>2. Join(a, Join(Join(b, c), d)) = Join(Join(a, Join(b, c)), d)
  BY <1>1, JoinAssociates
<1>. QED BY <1>1, <1>2

----------------------------------------------------------------------------
(* poll_request: the request at the front of the buffer.                     *)

\* What poll_request finds in inbuf when there is anything in it.
Fronts(i) ==
    /\ i \in 1..Len(script) /\ script[i] \in Requests /\ IsRequest(script[i])
    /\ i = Heads + 1 /\ Done = Heads
    /\ Where[i] = taken + Size(script[i]) /\ Where[i] <= Len(wire)
    /\ \A k \in 1..Size(script[i]) : InBuf(k) = Unit(i, PartAt(script[i], k))
    /\ ScanWithin(script[i])
    /\ taken \in Nat /\ fed \in Nat /\ Buffered \in Nat /\ scanned \in Nat

\* The types of what the invariant counts with.
LEMMA AllTyped ==
    ASSUME Types
    PROVE  All \in Seq(AllFrames) /\ Heads \in Nat /\ Done \in Nat
<1>1. All \in Seq(AllFrames)
  BY JoinAssociates DEF Types, All
<1>. QED BY <1>1, CountIsNat DEF Heads, Done, Types

\* Where the requests are in wire.
LEMMA WhereIs ==
    ASSUME Types
    PROVE  /\ Len(script) \in Nat /\ Len(wire) \in Nat
           /\ \A i \in 0..Len(script) : Where[i] \in Handshake..Len(wire)
           /\ Where[0] = Handshake /\ Where[Len(script)] = Len(wire)
           /\ \A i \in 1..Len(script) : Where[i] = Where[i - 1] + Size(script[i])
           /\ \A i \in 1..Len(script) : \A k \in 1..Size(script[i]) :
                 wire[Where[i - 1] + k] = Unit(i, PartAt(script[i], k))
<1>. DEFINE start == Where
<1>1. Layout(start, script, wire) /\ script \in Seq(Requests) /\ wire \in Seq(Units)
  BY DEF Types
<1>. HIDE DEF start
<1>2. /\ Len(script) \in Nat /\ Len(wire) \in Nat
      /\ \A i \in 0..Len(script) : start[i] \in Handshake..Len(wire)
      /\ start[0] = Handshake /\ start[Len(script)] = Len(wire)
      /\ \A i \in 1..Len(script) : start[i] = start[i - 1] + Size(script[i])
      /\ \A i \in 1..Len(script) : \A k \in 1..Size(script[i]) :
            wire[start[i - 1] + k] = Unit(i, PartAt(script[i], k))
  BY <1>1 DEF Layout
<1>. QED BY <1>2 DEF start

\* A poll that looks at a buffer with something in it has the first request without an
\* answer at the front of it: inbuf is drained request by request.
LEMMA InFront ==
    ASSUME IInv, ~NotNow, taken <= fed, Buffered # 0
    PROVE  Fronts(Heads + 1)
<1>. DEFINE i == Heads + 1
<1>1. ~closed /\ pending = 0 /\ body = None
  BY DEF NotNow
<1>2. Done = Heads /\ Heads \in Nat /\ Types
  BY <1>1, AllTyped DEF IInv, Done
<1>3. taken = Where[Heads] /\ Heads <= Len(script)
  BY <1>1, <1>2 DEF IInv, Cursor
<1>4. taken \in Nat /\ fed \in Nat /\ taken <= fed /\ fed <= Len(wire) /\ Len(wire) \in Nat
      /\ Len(script) \in Nat /\ scanned \in Nat
  <2>1. Handshake \in Nat
    BY H1Assumption
  <2>. QED BY <1>1, <2>1 DEF IInv, Types, Turn
<1>5. Buffered \in Nat /\ Buffered > 0
  BY <1>4 DEF Buffered
<1>6. Heads # Len(script)
  <2>. SUFFICES ASSUME Heads = Len(script) PROVE FALSE
    OBVIOUS
  <2>1. taken = Len(wire)
    BY <1>2, <1>3, WhereIs
  <2>. QED BY <2>1, <1>4, <1>5 DEF Buffered
<1>7. i \in 1..Len(script) /\ i - 1 = Heads
  BY <1>2, <1>3, <1>4, <1>6
<1>8. script[i] \in Requests
  BY <1>2, <1>7 DEF Types
<1>9. IsRequest(script[i])
  BY <1>8, RequestsHaveSize
<1>10. /\ Where[i] = taken + Size(script[i]) /\ Where[i] <= Len(wire)
       /\ \A k \in 1..Size(script[i]) : InBuf(k) = Unit(i, PartAt(script[i], k))
  <2>1. Where[i] = Where[i - 1] + Size(script[i]) /\ Where[i] \in Handshake..Len(wire)
    BY <1>2, <1>4, <1>7, WhereIs
  <2>2. \A k \in 1..Size(script[i]) : wire[Where[i - 1] + k] = Unit(i, PartAt(script[i], k))
    BY <1>2, <1>7, WhereIs
  <2>3. Where[i] <= Len(wire)
    BY <2>1, <1>4, H1Assumption
  <2>. QED BY <2>1, <2>2, <2>3, <1>3, <1>7 DEF InBuf
<1>11. ScanWithin(script[i])
  BY <1>2, <1>3, <1>4, <1>6 DEF IInv, Cursor
<1>. QED BY <1>2, <1>4, <1>5, <1>7, <1>8, <1>9, <1>10, <1>11 DEF Fronts

\* So it is whenever serve_ready runs, which it does with an engine only.
LEMMA AtTheFront ==
    ASSUME IInv, Serving, ~NotNow, Buffered # 0
    PROVE  Fronts(Heads + 1)
<1>1. taken <= fed
  BY DEF IInv, Turn
<1>. QED BY <1>1, InFront

\* The bytes of the request at the front, as poll_request sees them.
LEMMA PartsInBuf ==
    ASSUME NEW i, Fronts(i)
    PROVE  /\ Current = i
           /\ \A k \in 1..Size(script[i]) : InBuf(k).part = PartAt(script[i], k)
<1>1. \A k \in 1..Size(script[i]) : InBuf(k) = Unit(i, PartAt(script[i], k))
  BY DEF Fronts
<1>2. 1 \in 1..Size(script[i])
  BY DEF Fronts, IsRequest
<1>3. \A p : Unit(i, p).req = i /\ Unit(i, p).part = p
  BY DEF Unit
<1>. QED BY <1>1, <1>2, <1>3 DEF Current

\* Where the parts of a request begin and end.
LEMMA SizeIs ==
    ASSUME NEW r, IsRequest(r)
    PROVE  /\ r.size \in Nat /\ r.body \in Nat /\ TermLen \in Nat /\ TermLen > 0
           /\ Size(r) = r.size + TermLen + r.body + (IF r.chunks THEN 1 ELSE 0)
           /\ \A k \in 1..r.size : k \in 1..Size(r) /\ PartAt(r, k) = "head"
           /\ \A k \in 1..TermLen :
                 r.size + k \in 1..Size(r) /\ PartAt(r, r.size + k) = "blank"
           /\ \A k \in 1..r.body :
                 /\ r.size + TermLen + k \in 1..Size(r)
                 /\ PartAt(r, r.size + TermLen + k) = "body"
           /\ r.chunks =>
                 /\ r.size + TermLen + r.body + 1 = Size(r)
                 /\ Size(r) \in 1..Size(r) /\ PartAt(r, Size(r)) = "last"
<1>1. /\ r.size \in Nat /\ r.body \in Nat /\ TermLen \in Nat /\ TermLen > 0
      /\ r.chunks \in BOOLEAN
  BY H1Assumption DEF IsRequest
<1>. DEFINE a == r.size
            b == r.body
            m == IF r.chunks THEN 1 ELSE 0
<1>2. Size(r) = a + TermLen + b + m /\ m \in {0, 1}
  BY DEF Size
<1>. HIDE DEF m
<1>3. ASSUME NEW k \in 1..r.size PROVE k \in 1..Size(r) /\ PartAt(r, k) = "head"
  BY <1>1, <1>2 DEF PartAt
<1>4. ASSUME NEW k \in 1..TermLen
      PROVE  r.size + k \in 1..Size(r) /\ PartAt(r, r.size + k) = "blank"
  BY <1>1, <1>2 DEF PartAt
<1>5. ASSUME NEW k \in 1..r.body
      PROVE  /\ r.size + TermLen + k \in 1..Size(r)
             /\ PartAt(r, r.size + TermLen + k) = "body"
  BY <1>1, <1>2 DEF PartAt
<1>6. ASSUME r.chunks
      PROVE  /\ r.size + TermLen + r.body + 1 = Size(r)
             /\ Size(r) \in 1..Size(r) /\ PartAt(r, Size(r)) = "last"
  <2>1. Size(r) = r.size + TermLen + r.body + 1
    BY <1>6, <1>2 DEF m
  <2>. QED BY <2>1, <1>1 DEF PartAt
<1>. QED BY <1>1, <1>2, <1>3, <1>4, <1>5, <1>6 DEF m

\* The head's end is seen once it is all there, and it is the head's.
LEMMA HeadEndIs ==
    ASSUME NEW i, Fronts(i), NEW r, r = script[i]
    PROVE  /\ HeadEnds # {} <=> r.size + TermLen <= Buffered
           /\ HeadEnds # {} => HeadEnd = r.size /\ BodyStart = r.size + TermLen
<1>1. /\ r.size \in Nat /\ TermLen \in Nat /\ TermLen > 0
      /\ \A k \in 1..r.size : k \in 1..Size(r) /\ PartAt(r, k) = "head"
      /\ \A k \in 1..TermLen : r.size + k \in 1..Size(r) /\ PartAt(r, r.size + k) = "blank"
  BY SizeIs DEF Fronts
<1>2. \A k \in 1..Size(r) : InBuf(k).part = PartAt(r, k)
  BY PartsInBuf
<1>3. Buffered \in Nat /\ scanned \in Nat /\ scanned <= r.size + TermLen - 1
  BY DEF Fronts, ScanWithin
<1>4. SearchFrom <= r.size /\ SearchFrom \in Nat
  <2>1. CASE scanned > TermLen - 1
    BY <2>1, <1>1, <1>3 DEF SearchFrom
  <2>2. CASE ~(scanned > TermLen - 1)
    BY <2>2, <1>1 DEF SearchFrom
  <2>. QED BY <2>1, <2>2
<1>5. ASSUME NEW e \in HeadEnds PROVE e \in Nat /\ r.size <= e /\ e + TermLen <= Buffered
  <2>1. e \in SearchFrom..(Buffered - TermLen) /\ \A k \in 1..TermLen : InBuf(e + k).part = "blank"
    BY DEF HeadEnds
  <2>2. e \in Nat /\ e + TermLen <= Buffered
    BY <2>1, <1>1, <1>3, <1>4
  <2>3. InBuf(e + 1).part = "blank"
    BY <2>1, <1>1
  <2>4. ASSUME e < r.size PROVE FALSE
    <3>1. e + 1 \in 1..r.size
      BY <2>2, <2>4, <1>1
    <3>2. InBuf(e + 1).part = "head"
      BY <3>1, <1>1, <1>2
    <3>. QED BY <3>2, <2>3
  <2>. QED BY <2>2, <2>4, <1>1
<1>6. r.size + TermLen <= Buffered => r.size \in HeadEnds
  <2>. SUFFICES ASSUME r.size + TermLen <= Buffered PROVE r.size \in HeadEnds
    OBVIOUS
  <2>1. r.size \in SearchFrom..(Buffered - TermLen)
    BY <1>1, <1>3, <1>4
  <2>2. \A k \in 1..TermLen : InBuf(r.size + k).part = "blank"
    BY <1>1, <1>2
  <2>. QED BY <2>1, <2>2 DEF HeadEnds
<1>7. HeadEnds # {} <=> r.size + TermLen <= Buffered
  <2>1. ASSUME HeadEnds # {} PROVE r.size + TermLen <= Buffered
    <3>1. PICK e : e \in HeadEnds
      BY <2>1
    <3>2. e \in Nat /\ r.size <= e /\ e + TermLen <= Buffered
      BY <3>1, <1>5
    <3>. QED BY <3>2, <1>1, <1>3
  <2>. QED BY <2>1, <1>6
<1>8. ASSUME HeadEnds # {} PROVE HeadEnd = r.size
  <2>1. r.size \in HeadEnds /\ \A f \in HeadEnds : r.size <= f
    BY <1>5, <1>6, <1>7, <1>8
  <2>2. ASSUME NEW e \in HeadEnds, \A f \in HeadEnds : e <= f PROVE e = r.size
    <3>1. e <= r.size /\ r.size <= e /\ e \in Nat
      BY <2>1, <2>2, <1>5
    <3>. QED BY <3>1, <1>1
  <2>3. HeadEnd \in HeadEnds /\ \A f \in HeadEnds : HeadEnd <= f
    <3>1. \E e \in HeadEnds : \A f \in HeadEnds : e <= f
      BY <2>1
    <3>. QED BY <3>1 DEF HeadEnd
  <2>. QED BY <2>2, <2>3
<1>. QED BY <1>7, <1>8 DEF BodyStart

\* The chunk decoder stops at the body's last chunk.
LEMMA DecoderIs ==
    ASSUME NEW i, Fronts(i), NEW r, r = script[i], HeadEnds # {}, r.chunks, Types
    PROVE  /\ LastChunks # {} => DecoderAt = r.body /\ Size(r) <= Buffered
           /\ LastChunks = {} => /\ DecoderAt = Buffered - BodyStart
                                 /\ DecoderAt \in Nat /\ DecoderAt <= r.body
<1>1. /\ r.size \in Nat /\ TermLen \in Nat /\ r.body \in Nat
      /\ \A k \in 1..r.body :
            r.size + TermLen + k \in 1..Size(r) /\ PartAt(r, r.size + TermLen + k) = "body"
      /\ r.size + TermLen + r.body + 1 = Size(r)
      /\ Size(r) \in 1..Size(r) /\ PartAt(r, Size(r)) = "last"
  BY SizeIs DEF Fronts
<1>2. \A k \in 1..Size(r) : InBuf(k).part = PartAt(r, k)
  BY PartsInBuf
<1>3. BodyStart = r.size + TermLen /\ BodyStart <= Buffered /\ Buffered \in Nat /\ BodyStart \in Nat
  <2>1. BodyStart = r.size + TermLen /\ r.size + TermLen <= Buffered
    BY HeadEndIs
  <2>. QED BY <2>1, <1>1 DEF Fronts
<1>4. Decoded \in Nat /\ Decoded <= r.body
  <2>1. CASE chunk = None
    BY <2>1, <1>1 DEF Decoded
  <2>2. CASE chunk # None
    BY <2>2 DEF Decoded, Fronts, ScanWithin, Types
  <2>. QED BY <2>1, <2>2
<1>. DEFINE z == BodyStart + r.body + 1
<1>5. z = Size(r) /\ z \in Nat
  BY <1>1, <1>3
<1>6. ASSUME NEW k \in LastChunks PROVE k \in Nat /\ z <= k /\ k <= Buffered
  <2>1. k \in BodyStart + Decoded + 1..Buffered /\ InBuf(k).part = "last"
    BY DEF LastChunks
  <2>2. k \in Nat /\ k > BodyStart /\ k <= Buffered
    BY <2>1, <1>3, <1>4
  <2>3. ASSUME k <= BodyStart + r.body PROVE FALSE
    <3>1. /\ k - (r.size + TermLen) \in 1..r.body
          /\ k = r.size + TermLen + (k - (r.size + TermLen))
      BY <2>2, <2>3, <1>1, <1>3
    <3>2. InBuf(k).part = "body"
      BY <3>1, <1>1, <1>2
    <3>. QED BY <3>2, <2>1
  <2>. QED BY <2>2, <2>3, <1>1, <1>3
<1>7. z <= Buffered => z \in LastChunks
  <2>1. InBuf(z).part = "last"
    BY <1>1, <1>2, <1>5
  <2>2. z <= Buffered => z \in BodyStart + Decoded + 1..Buffered
    BY <1>1, <1>3, <1>4
  <2>. QED BY <2>1, <2>2 DEF LastChunks
<1>. HIDE DEF z
<1>8. ASSUME LastChunks # {} PROVE DecoderAt = r.body /\ Size(r) <= Buffered
  <2>1. z <= Buffered
    <3>1. PICK k : k \in LastChunks
      BY <1>8
    <3>. QED BY <3>1, <1>5, <1>6, <1>3
  <2>2. z \in LastChunks /\ \A k \in LastChunks : z <= k /\ k \in Nat
    BY <2>1, <1>6, <1>7
  <2>. DEFINE y == CHOOSE k \in LastChunks : \A m \in LastChunks : k <= m
  <2>3. y \in LastChunks /\ \A m \in LastChunks : y <= m
    BY <2>2
  <2>. HIDE DEF y
  <2>4. y = z
    <3>1. y <= z /\ z <= y /\ y \in Nat
      BY <2>2, <2>3
    <3>. QED BY <3>1, <1>5
  <2>5. DecoderAt = y - BodyStart - 1
    BY <1>8 DEF DecoderAt, y
  <2>6. z = BodyStart + r.body + 1
    BY DEF z
  <2>. QED BY <2>1, <2>4, <2>5, <2>6, <1>1, <1>3, <1>5
<1>9. ASSUME LastChunks = {}
      PROVE  DecoderAt = Buffered - BodyStart /\ DecoderAt \in Nat /\ DecoderAt <= r.body
  <2>1. DecoderAt = Buffered - BodyStart
    BY <1>9 DEF DecoderAt
  <2>2. ~(z <= Buffered) /\ z = BodyStart + r.body + 1
    BY <1>7, <1>9 DEF z
  <2>. QED BY <2>1, <2>2, <1>1, <1>3
<1>. QED BY <1>8, <1>9

\* A request that is complete is drained as a whole, and nothing after it.
LEMMA ConsumedIs ==
    ASSUME NEW i, Fronts(i), NEW r, r = script[i], HeadEnds # {}, ~Refused, BodyComplete, Types
    PROVE  Consumed = Size(r) /\ Size(r) <= Buffered
<1>. DEFINE kind == Framing.kind
<1>1. kind # "refused"
  BY DEF Refused
<1>2. Current = i /\ Framing = BodyFraming(r.fields)
  BY PartsInBuf DEF Framing
<1>3. /\ r.chunks \in BOOLEAN
      /\ Framing.kind = "none" => r.body = 0
      /\ Framing.kind = "length" => r.body = Framing.len
      /\ Framing.kind # "refused" => r.chunks = (Framing.kind = "chunked")
  BY <1>2, H1Assumption DEF Consistent, Fronts
<1>4. /\ r.size \in Nat /\ r.body \in Nat /\ TermLen \in Nat
      /\ Size(r) = r.size + TermLen + r.body + (IF r.chunks THEN 1 ELSE 0)
  BY SizeIs DEF Fronts
<1>5. BodyStart = r.size + TermLen /\ r.size + TermLen <= Buffered /\ Buffered \in Nat
  BY HeadEndIs DEF Fronts
<1>6. CASE kind = "none"
  <2>1. Consumed = BodyStart
    BY <1>6 DEF Consumed
  <2>. QED BY <2>1, <1>3, <1>4, <1>5, <1>6
<1>7. CASE kind = "length"
  <2>1. Consumed = BodyStart + Framing.len /\ Buffered >= BodyStart + Framing.len
    BY <1>7 DEF Consumed, BodyComplete
  <2>. QED BY <2>1, <1>3, <1>4, <1>5, <1>7
<1>8. CASE kind = "chunked"
  <2>1. Consumed = BodyStart + DecoderAt + 1 /\ LastChunks # {}
    BY <1>8 DEF Consumed, BodyComplete
  <2>2. r.chunks
    BY <1>3, <1>8
  <2>3. DecoderAt = r.body /\ Size(r) <= Buffered
    BY <2>1, <2>2, DecoderIs
  <2>. QED BY <2>1, <2>2, <2>3, <1>4, <1>5
<1>9. kind \in {"none", "length", "chunked"}
  BY DEF BodyComplete
<1>. QED BY <1>6, <1>7, <1>8, <1>9

----------------------------------------------------------------------------
(* The invariant holds at first and is kept by every step.                  *)

\* The invariant holds of a new connection.
LEMMA InitInvariant == Init => IInv
<1>. SUFFICES ASSUME Init PROVE IInv
  OBVIOUS
<1>1. PICK n \in 1..MaxRequests : script \in [1..n -> Requests]
  BY DEF Init
<1>2. n \in Nat \ {0} /\ Handshake \in Nat /\ TermLen \in Nat /\ TermLen > 0
  BY H1Assumption
<1>3. wire = WireOf(script) /\ wire \in Seq(Units) /\ Layout(Where, script, wire)
  <2>1. wire = WireOf(script)
    BY DEF Init
  <2>2. wire \in Seq(Units) /\ \E start : Layout(start, script, wire)
    BY <1>1, <1>2, <2>1, WireLaidOut
  <2>. QED BY <2>1, <2>2 DEF Where
<1>4. script \in Seq(Requests) /\ Len(script) = n
  BY <1>1, <1>2
<1>5. Where[0] = Handshake /\ Len(wire) \in Nat /\ Handshake <= Len(wire)
  <2>1. /\ Where[0] = Handshake /\ Where[0] \in Handshake..Len(wire)
    BY <1>2, <1>3, <1>4 DEF Layout
  <2>2. Len(wire) \in Nat
    BY <1>3
  <2>. QED BY <1>2, <2>1, <2>2
<1>6. All = <<>> /\ <<>> \in Seq(AllFrames)
  BY DEF All, Init, Join
<1>7. HeadsIn(All) = {} /\ Heads = 0 /\ Done = 0
  <2>1. HeadsIn(<<>>) = {}
    BY DEF HeadsIn
  <2>2. HeadsIn(All) = {} /\ Cardinality({}) = 0
    BY <2>1, <1>6, FS_EmptySet
  <2>3. Heads = 0
    BY <2>2 DEF Heads, Count
  <2>4. pending = 0
    BY DEF Init
  <2>. QED BY <2>2, <2>3, <2>4 DEF Done
<1>8. Types
  <2>1. script \in Seq(Requests) /\ Len(script) > 0
    BY <1>2, <1>4
  <2>2. /\ fed = 0 /\ taken = Handshake /\ out = <<>> /\ outbuf = <<>> /\ sent = <<>>
        /\ body = None /\ pending = 0 /\ scanned = 0 /\ chunk = None
        /\ closed = FALSE /\ interim = FALSE /\ failed = FALSE /\ at = "read"
        /\ engine = (Handshake = 0)
    BY DEF Init
  <2>3. fed \in 0..Len(wire) /\ taken \in Handshake..Len(wire)
    BY <2>2, <1>2, <1>5
  <2>4. engine \in BOOLEAN /\ closed \in BOOLEAN /\ interim \in BOOLEAN /\ failed \in BOOLEAN
    BY <2>2
  <2>. QED BY <2>1, <2>2, <2>3, <2>4, <1>3, <1>6 DEF Types
<1>9. Turn
  <2>1. /\ fed = 0 /\ taken = Handshake /\ out = <<>> /\ pending = 0 /\ scanned = 0
        /\ at = "read"
        /\ engine = (Handshake = 0)
    BY DEF Init
  <2>2. ~Serving
    BY <2>1 DEF Serving
  <2>3. ASSUME engine PROVE taken <= fed /\ scanned <= Buffered
    <3>1. Handshake = 0
      BY <2>1, <2>3
    <3>2. taken = 0 /\ Buffered = 0
      BY <3>1, <2>1 DEF Buffered
    <3>. QED BY <3>2, <2>1
  <2>. QED BY <2>1, <2>2, <2>3 DEF Turn
<1>10. Cursor
  <2>1. script[1] \in Requests
    BY <1>1, <1>2
  <2>2. script[1].size \in Nat
    BY <2>1, RequestsHaveSize DEF IsRequest
  <2>3. ScanWithin(script[1])
    BY <2>2, <1>2 DEF ScanWithin, Init
  <2>4. taken = Where[0]
    BY <1>5 DEF Init
  <2>. QED BY <2>3, <2>4, <1>2, <1>4, <1>7 DEF Cursor, Init
<1>11. Owes(All, pending, body, closed, interim)
  <2>1. Intact(All) /\ InTime(All) /\ NoneEarly(All, pending, interim)
    BY <1>6, <1>7 DEF Intact, InTime, NoneEarly
  <2>. QED BY <2>1, <1>6, <1>7 DEF Owes, Init
<1>. QED BY <1>8, <1>9, <1>10, <1>11 DEF IInv

Places == {"read", "serve", "check", "flush", "again", "append", "write", "after",
           "closed", "lost"}

\* A step that drains nothing of inbuf, begins no answer and asks for nothing.
Aside ==
    /\ UNCHANGED <<script, wire, taken, pending, scanned, chunk, interim>>
    /\ fed' \in Nat /\ fed <= fed' /\ fed' <= Len(wire)
    /\ engine' \in BOOLEAN /\ failed' \in BOOLEAN /\ closed' \in BOOLEAN
    /\ sent' \in Seq(AllFrames) /\ out' \in Seq(AllFrames) /\ outbuf' \in Seq(AllFrames)
    /\ body' \in {None} \cup FileBody \cup StreamBody
    /\ at' \in Places
    /\ engine => engine'
    /\ engine' => engine \/ fed' >= Handshake
    /\ Serving' => engine'
    /\ out' # <<>> => at' \in {"again", "append", "write", "lost"}
    /\ pending # 0 => Serving' /\ ~closed' /\ body' = None
    /\ closed => closed'
    /\ closed' \/ body' # None => closed \/ body # None
    /\ Heads' = Heads

\* Such a step keeps the invariant.
LEMMA AsideKeeps ==
    ASSUME IInv, Aside, Owes(All', pending', body', closed', interim')
    PROVE  IInv'
<1>1. /\ script' = script /\ wire' = wire /\ taken' = taken /\ pending' = pending
      /\ scanned' = scanned /\ chunk' = chunk /\ interim' = interim
      /\ Heads' = Heads /\ fed' \in Nat /\ fed <= fed' /\ fed' <= Len(wire)
  BY DEF Aside
<1>2. Where' = Where /\ Done' = Done
  BY <1>1 DEF Where, Done
<1>0. PICK f \in Nat : f = fed' /\ fed <= f /\ f <= Len(wire)
  BY <1>1
<1>01. f \in Nat /\ fed <= f /\ f <= Len(wire)
  BY <1>0
<1>3. Handshake \in Nat /\ Len(wire) \in Nat /\ fed \in Nat /\ taken \in Nat /\ scanned \in Nat
  BY H1Assumption DEF IInv, Types
<1>4. Types'
  <2>1. Layout(Where, script, wire)'
    BY <1>1, <1>2 DEF IInv, Types
  <2>2. /\ script' \in Seq(Requests) /\ Len(script') > 0 /\ wire' \in Seq(Units)
        /\ taken' \in Handshake..Len(wire') /\ interim' \in BOOLEAN
        /\ pending' \in Nat /\ scanned' \in Nat /\ chunk' \in Nat \cup {None}
    BY <1>1 DEF IInv, Types
  <2>3. fed' \in 0..Len(wire')
    BY <1>1, <1>3
  <2>. QED BY <2>1, <2>2, <2>3 DEF Types, Aside, Places
<1>5. Turn'
  <2>1. Buffered' = fed' - taken /\ Buffered = fed - taken
    BY <1>1 DEF Buffered
  <2>2. engine' => taken' <= fed' /\ scanned' <= Buffered'
    <3>1. CASE engine
      <4>1. taken <= fed /\ scanned <= Buffered
        BY <3>1 DEF IInv, Turn
      <4>2. taken <= f /\ scanned <= f - taken
        <5>1. Buffered = fed - taken
          BY DEF Buffered
        <5>. QED BY <4>1, <5>1, <1>01, <1>3
      <4>. QED BY <4>2, <2>1, <1>0, <1>1
    <3>2. CASE ~engine
      <4>1. taken = Handshake /\ scanned = 0 /\ (engine' => fed' >= Handshake)
        BY <3>2 DEF IInv, Turn, Aside
      <4>2. Handshake <= f => taken <= f /\ 0 <= f - taken
        BY <4>1, <1>01, <1>3
      <4>3. engine' => f >= Handshake
        BY <4>1, <1>0
      <4>4. f >= Handshake <=> Handshake <= f
        BY <1>01, <1>3
      <4>. QED BY <4>1, <4>2, <4>3, <4>4, <2>1, <1>0, <1>1
    <3>. QED BY <3>1, <3>2 DEF IInv, Types
  <2>3. ~engine' => taken' = Handshake /\ scanned' = 0
    BY <1>1 DEF IInv, Turn, Aside
  <2>4. pending' # 0 => Serving' /\ ~closed' /\ body' = None /\ pending' = Heads' + 1
    BY <1>1 DEF IInv, Turn, Aside
  <2>. QED BY <2>2, <2>3, <2>4 DEF Turn, Aside
<1>6. Cursor'
  <2>1. ~closed' => taken' = Where'[Done']
    BY <1>1, <1>2 DEF IInv, Cursor, Aside
  <2>2. pending' # 0 \/ body' # None \/ closed' \/ Done' = Len(script') =>
            scanned' = 0 /\ chunk' = None
    BY <1>1, <1>2 DEF IInv, Cursor, Aside
  <2>3. ASSUME Done < Len(script) PROVE ScanWithin(script[Done + 1])'
    <3>1. ScanWithin(script[Done + 1])
      BY <2>3 DEF IInv, Cursor
    <3>2. Buffered <= Buffered' /\ Buffered \in Int /\ Buffered' \in Int
      <4>1. Buffered = fed - taken /\ Buffered' = f - taken
        BY <1>0, <1>1 DEF Buffered
      <4>2. fed - taken <= f - taken /\ fed - taken \in Int /\ f - taken \in Int
        BY <1>01, <1>3
      <4>. QED BY <4>1, <4>2
    <3>3. script[Done + 1] \in Requests
      <4>1. Done \in Nat /\ Len(script) \in Nat /\ script \in Seq(Requests)
        BY AllTyped DEF IInv, Types
      <4>. QED BY <4>1, <2>3
    <3>4. /\ script[Done + 1].size \in Nat /\ TermLen \in Nat
      BY <3>3, H1Assumption, RequestsHaveSize DEF IsRequest
    <3>5. chunk # None => chunk \in Nat
      BY DEF IInv, Types
    <3>. QED BY <3>1, <3>2, <3>4, <3>5, <1>1, <1>2 DEF ScanWithin
  <2>. QED BY <2>1, <2>2, <2>3, <1>1, <1>2 DEF IInv, Cursor
<1>. QED BY <1>4, <1>5, <1>6 DEF IInv

\* A step that leaves the engine and what was sent alone.
Quiet ==
    /\ UNCHANGED <<script, wire, taken, outbuf, body, pending, scanned, chunk, closed, interim,
                   out, sent>>
    /\ fed' \in Nat /\ fed <= fed' /\ fed' <= Len(wire)
    /\ engine' \in BOOLEAN /\ failed' \in BOOLEAN
    /\ at' \in Places
    /\ engine => engine'
    /\ engine' => engine \/ fed' >= Handshake
    /\ Serving' => engine'
    /\ out # <<>> => at' \in {"again", "append", "write", "lost"}
    /\ pending # 0 => Serving'

\* It keeps the invariant, as nothing is added to the frames.
LEMMA QuietKeeps ==
    ASSUME IInv, Quiet
    PROVE  IInv'
<1>1. All' = All
  BY DEF Quiet, All
<1>2. Heads' = Heads
  BY <1>1 DEF Heads
<1>3. Owes(All', pending', body', closed', interim')
  BY <1>1 DEF Quiet, IInv
<1>4. Aside
  BY <1>2 DEF Aside, Quiet, IInv, Types, Turn
<1>. QED BY <1>3, <1>4, AsideKeeps

\* Nothing but the place in the loop, or failed, or the producer's stream, changes.
Waits ==
    /\ UNCHANGED <<script, wire, fed, engine, taken, outbuf, body, pending, scanned, chunk,
                   closed, interim, out, sent>>
    /\ failed' \in BOOLEAN /\ at' \in Places
    /\ Serving' => engine
    /\ out # <<>> => at' \in {"again", "append", "write", "lost"}
    /\ pending # 0 => Serving'

\* Likewise.
LEMMA WaitsKeeps ==
    ASSUME IInv, Waits
    PROVE  IInv'
<1>1. fed \in Nat /\ fed <= fed /\ fed <= Len(wire) /\ engine \in BOOLEAN
  BY DEF IInv, Types
<1>2. fed' = fed /\ engine' = engine
  BY DEF Waits
<1>3. fed' \in Nat /\ fed <= fed' /\ fed' <= Len(wire)
  BY ONLY <1>1, <1>2
<1>4. Quiet
  BY <1>1, <1>2, <1>3 DEF Quiet, Waits
<1>. QED BY <1>4, QuietKeeps

\* serve_ready with a request at work, a body to send or the end in sight.
LEMMA PollLaterKeeps ==
    ASSUME IInv, PollLater
    PROVE  IInv'
<1>1. Waits
  BY DEF PollLater, peer, h1, Served, Serving, Waits, IInv, Types, Turn, Places
<1>. QED BY <1>1, WaitsKeeps

\* A record the TLS layer refuses.
LEMMA ReadBrokenKeeps ==
    ASSUME IInv, ReadBroken
    PROVE  IInv'
<1>1. Waits
  BY DEF ReadBroken, peer, h1, Serving, Waits, IInv, Types, Turn, Places
<1>. QED BY <1>1, WaitsKeeps

\* The peer is gone.
LEMMA ReadLostKeeps ==
    ASSUME IInv, ReadLost
    PROVE  IInv'
<1>1. Waits
  BY DEF ReadLost, peer, h1, Serving, Waits, IInv, Types, Turn, Places
<1>. QED BY <1>1, WaitsKeeps

\* A tick while a body streams.
LEMMA StreamTickKeeps ==
    ASSUME IInv, StreamTick
    PROVE  IInv'
<1>1. Waits
  BY DEF StreamTick, peer, h1, Serving, Waits, IInv, Types, Turn, Places
<1>. QED BY <1>1, WaitsKeeps

\* The throughput window.
LEMMA CheckKeeps ==
    ASSUME IInv, Check
    PROVE  IInv'
<1>1. Waits
  BY DEF Check, peer, h1, Serving, Waits, IInv, Types, Turn, Places
<1>. QED BY <1>1, WaitsKeeps

\* to_send before there is an engine.
LEMMA FlushHandshakeKeeps ==
    ASSUME IInv, FlushHandshake
    PROVE  IInv'
<1>1. Waits
  BY DEF FlushHandshake, peer, h1, Serving, Waits, IInv, Types, Turn, Places
<1>. QED BY <1>1, WaitsKeeps

\* A write that fails.
LEMMA WriteLostKeeps ==
    ASSUME IInv, WriteLost
    PROVE  IInv'
<1>1. Waits
  BY DEF WriteLost, peer, h1, Serving, Waits, IInv, Types, Turn, Places
<1>. QED BY <1>1, WaitsKeeps

\* The end of a turn of the loop.
LEMMA AfterKeeps ==
    ASSUME IInv, After
    PROVE  IInv'
<1>1. at' \in {"lost", "closed", "read"}
  BY DEF After
<1>2. Waits
  BY <1>1 DEF After, peer, h1, Serving, Waits, IInv, Types, Turn, Places
<1>. QED BY <1>2, WaitsKeeps

\* The producer of a streamed body.
LEMMA ProduceKeeps ==
    ASSUME IInv, Produce \/ ProducerEnds
    PROVE  IInv'
<1>1. Waits
  BY DEF Produce, ProducerEnds, peer, h1, Serving, Waits, IInv, Types, Turn, Places
<1>. QED BY <1>1, WaitsKeeps

\* Nothing happens.
LEMMA StutterKeeps ==
    ASSUME IInv, UNCHANGED vars
    PROVE  IInv'
<1>1. Waits
  BY DEF vars, peer, h1, Serving, Waits, IInv, Types, Turn, Places
<1>. QED BY <1>1, WaitsKeeps

\* Bytes arrive, and the first after the handshake choose the engine.
LEMMA ReadKeeps ==
    ASSUME IInv, NEW n \in 1..Len(wire), Read(n)
    PROVE  IInv'
<1>1. /\ at = "read" /\ fed + n <= Len(wire) /\ fed' = fed + n
      /\ engine' = (engine \/ fed' >= Handshake)
      /\ at' = IF engine' /\ fed' > Handshake THEN "serve" ELSE "check"
      /\ UNCHANGED <<script, wire, taken, outbuf, body, pending, scanned, chunk, closed, interim,
                     out, sent, failed>>
  BY DEF Read, peer, h1
<1>2. fed \in Nat /\ n \in Nat /\ Len(wire) \in Nat
  BY DEF IInv, Types
<1>3. fed + n \in Nat /\ fed <= fed + n
  BY <1>2
<1>4. fed' \in Nat /\ fed <= fed' /\ fed' <= Len(wire)
  BY <1>1, <1>3
<1>5. engine \in BOOLEAN /\ failed \in BOOLEAN /\ ~Serving
  BY <1>1 DEF IInv, Types, Serving
<1>6. engine' \in BOOLEAN /\ (engine => engine') /\ (engine' => engine \/ fed' >= Handshake)
  BY <1>1, <1>5
<1>7. at' \in {"serve", "check"} /\ (at' = "serve" => engine')
  BY <1>1
<1>8. out = <<>> /\ pending = 0
  BY <1>1, <1>5 DEF IInv, Turn
<1>. QED BY <1>1, <1>4, <1>5, <1>6, <1>7, <1>8, QuietKeeps DEF Quiet, Serving, Places

\* take_out, and the loop's way on from it.
Hands ==
    /\ UNCHANGED <<script, wire, fed, engine, taken, pending, scanned, chunk, interim, failed>>
    /\ sent' \in Seq(AllFrames) /\ out' \in Seq(AllFrames) /\ outbuf' \in Seq(AllFrames)
    /\ body' \in {None} \cup FileBody \cup StreamBody /\ closed' \in BOOLEAN
    /\ at' \in Places
    /\ Serving' => engine
    /\ out' # <<>> => at' \in {"again", "append", "write", "lost"}
    /\ pending = 0
    /\ closed => closed'
    /\ closed' \/ body' # None => closed \/ body # None

\* A step of to_send keeps the invariant if what it moves is still what was owed.
LEMMA HandsKeeps ==
    ASSUME IInv, Hands, Heads' = Heads, Owes(All', pending, body', closed', interim)
    PROVE  IInv'
<1>1. fed \in Nat /\ fed <= fed /\ fed <= Len(wire) /\ engine \in BOOLEAN /\ failed \in BOOLEAN
  BY DEF IInv, Types
<1>2. fed' = fed /\ engine' = engine /\ failed' = failed /\ pending' = pending /\ interim' = interim
  BY DEF Hands
<1>3. fed' \in Nat /\ fed <= fed' /\ fed' <= Len(wire)
  BY ONLY <1>1, <1>2
<1>4. Aside
  BY <1>1, <1>2, <1>3 DEF Aside, Hands
<1>5. Owes(All', pending', body', closed', interim')
  BY <1>2
<1>. QED BY <1>4, <1>5, AsideKeeps

\* As it is when the frames only move on.
LEMMA MovesKeeps ==
    ASSUME IInv, Hands, All' = All, body' = body, closed' = closed
    PROVE  IInv'
<1>1. Heads' = Heads
  BY DEF Heads
<1>2. Owes(All', pending, body', closed', interim)
  BY DEF IInv
<1>. QED BY <1>1, <1>2, HandsKeeps

\* The second take_out of to_send.
LEMMA TakeMoreKeeps ==
    ASSUME IInv, TakeMore
    PROVE  IInv'
<1>1. /\ sent \in Seq(AllFrames) /\ out \in Seq(AllFrames) /\ outbuf \in Seq(AllFrames)
      /\ closed \in BOOLEAN /\ body \in {None} \cup FileBody \cup StreamBody
  BY DEF IInv, Types
<1>2. /\ at = "append" /\ out' = Join(out, outbuf) /\ outbuf' = <<>> /\ at' = "write"
      /\ sent' = sent /\ body' = body /\ closed' = closed
      /\ UNCHANGED <<script, wire, fed, engine, taken, pending, scanned, chunk, interim, failed>>
  BY DEF TakeMore, peer, Join
<1>3. Join(out, outbuf) \in Seq(AllFrames)
  BY <1>1, JoinAssociates
<1>4. All' = All
  <2>1. Join(Join(out, outbuf), <<>>) = Join(out, outbuf)
    BY <1>3, JoinNothing
  <2>2. All' = Join(sent, Join(Join(out, outbuf), <<>>))
    BY <1>2 DEF All
  <2>. QED BY <2>1, <2>2 DEF All
<1>5. pending = 0
  BY <1>2 DEF IInv, Turn, Serving
<1>6. Hands
  <2>1. <<>> \in Seq(AllFrames)
    OBVIOUS
  <2>. QED BY <2>1, <1>1, <1>2, <1>3, <1>5 DEF Hands, Places, Serving
<1>. QED BY <1>2, <1>4, <1>6, MovesKeeps

\* What was handed to the transport is written.
LEMMA WriteKeeps ==
    ASSUME IInv, Write
    PROVE  IInv'
<1>1. /\ sent \in Seq(AllFrames) /\ out \in Seq(AllFrames) /\ outbuf \in Seq(AllFrames)
      /\ closed \in BOOLEAN /\ body \in {None} \cup FileBody \cup StreamBody
  BY DEF IInv, Types
<1>2. /\ at = "write" /\ sent' = Join(sent, out) /\ out' = <<>> /\ at' \in {"flush", "after"}
      /\ outbuf' = outbuf /\ body' = body /\ closed' = closed
      /\ UNCHANGED <<script, wire, fed, engine, taken, pending, scanned, chunk, interim, failed>>
  BY DEF Write, peer, h1, Join
<1>3. Join(sent, out) \in Seq(AllFrames)
  BY <1>1, JoinAssociates
<1>4. All' = All
  <2>1. Join(<<>>, outbuf) = outbuf
    BY <1>1, JoinNothing
  <2>2. All' = Join(Join(sent, out), Join(<<>>, outbuf))
    BY <1>2 DEF All
  <2>3. Join(sent, Join(out, outbuf)) = Join(Join(sent, out), outbuf)
    BY <1>1, JoinAssociates
  <2>. QED BY <2>1, <2>2, <2>3 DEF All
<1>5. pending = 0
  BY <1>2 DEF IInv, Turn, Serving
<1>6. Hands
  <2>1. <<>> \in Seq(AllFrames)
    OBVIOUS
  <2>. QED BY <2>1, <1>1, <1>2, <1>3, <1>5 DEF Hands, Places, Serving
<1>. QED BY <1>2, <1>4, <1>6, MovesKeeps

\* What take_out returns when nothing waits in outbuf.
LEMMA TakenBehind ==
    ASSUME IInv, out = <<>>, outbuf = <<>>, outbuf' = <<>>, sent' = sent,
           out' \in Seq(AllFrames)
    PROVE  /\ out' = <<>> => All' = All
           /\ \A x \in AllFrames : out' = <<x>> =>
                 Begins(All, All') /\ Len(All') = Len(All) + 1 /\ All'[Len(All')] = x
<1>1. All = sent /\ sent \in Seq(AllFrames)
  BY JoinNothing DEF All, IInv, Types
<1>2. All' = Join(All, out')
  <2>1. Join(out', <<>>) = out'
    BY JoinNothing
  <2>. QED BY <2>1, <1>1 DEF All
<1>3. out' = <<>> => All' = All
  BY <1>1, <1>2, JoinNothing
<1>4. ASSUME NEW x \in AllFrames, out' = <<x>>
      PROVE  Begins(All, All') /\ Len(All') = Len(All) + 1 /\ All'[Len(All')] = x
  <2>1. /\ <<x>> \in Seq(AllFrames) /\ Len(<<x>>) = 1 /\ <<x>>[1] = x /\ 1 \in 1..1
    OBVIOUS
  <2>2. All' = Join(sent, <<x>>)
    BY <1>1, <1>2, <1>4
  <2>3. /\ Begins(sent, Join(sent, <<x>>)) /\ Len(Join(sent, <<x>>)) = Len(sent) + 1
        /\ Join(sent, <<x>>)[Len(sent) + 1] = x
    BY <2>1, <1>1, JoinFrames
  <2>. QED BY <2>2, <2>3, <1>1
<1>. QED BY <1>3, <1>4

\* A body without framing ends with the connection.
LEMMA StreamEndsClosed ==
    ASSUME NEW F, NEW p, NEW b \in StreamBody, NEW c \in BOOLEAN, NEW t,
           Owes(F, p, b, c, t), ~b.chunked
    PROVE  c
<1>1. F \in Seq(AllFrames) /\ HeadsIn(F) # {}
  BY BodiesApart DEF Owes
<1>2. PICK k \in HeadsIn(F) : \A h \in HeadsIn(F) : h <= k
  <2>1. HeadsIn(F) \subseteq 1..Len(F) /\ Len(F) \in Nat
    BY <1>1 DEF HeadsIn
  <2>. QED BY <2>1, <1>1, Greatest
<1>3. Rest(F, k, b, c)
  BY <1>2 DEF Owes, IsLast
<1>. QED BY <1>3 DEF Rest

\* The first take_out of to_send: the buffer, the next piece of the body, its end, or
\* nothing, and a body that cannot be had ends the connection.
LEMMA FlushKeeps ==
    ASSUME IInv, Flush
    PROVE  IInv'
<1>1. /\ at = "flush" /\ engine /\ TakeOut(out') /\ at' \in {"again", "write"}
      /\ UNCHANGED <<script, wire, fed, engine, failed, sent, taken, pending, scanned, chunk,
                     interim>>
  BY DEF Flush, TakeOut, peer
<1>2. /\ sent \in Seq(AllFrames) /\ out = <<>> /\ outbuf \in Seq(AllFrames)
      /\ closed \in BOOLEAN /\ body \in {None} \cup FileBody \cup StreamBody
      /\ interim \in BOOLEAN /\ pending = 0
      /\ Owes(All, pending, body, closed, interim)
  BY <1>1 DEF IInv, Types, Turn, Serving
<1>3. <<>> \in Seq(AllFrames)
  OBVIOUS
<1>4. ASSUME out' \in Seq(AllFrames), outbuf' \in Seq(AllFrames),
             body' \in {None} \cup FileBody \cup StreamBody, closed' \in BOOLEAN,
             closed => closed', closed' \/ body' # None => closed \/ body # None
      PROVE  Hands
  BY <1>1, <1>2, <1>4 DEF Hands, Places, Serving
<1>5. CASE TakeBuffer(out')
  <2>1. out' = outbuf /\ outbuf' = <<>> /\ body' = body /\ closed' = closed
    BY <1>5 DEF TakeBuffer
  <2>2. Hands
    BY <2>1, <1>2, <1>3, <1>4
  <2>3. All' = All
    <3>1. Join(outbuf, <<>>) = outbuf /\ Join(<<>>, outbuf) = outbuf
      BY <1>2, JoinNothing
    <3>2. All = Join(sent, Join(<<>>, outbuf)) /\ All' = Join(sent, Join(outbuf, <<>>))
      BY <2>1, <1>1, <1>2 DEF All
    <3>. QED BY <3>1, <3>2
  <2>. QED BY <2>1, <2>2, <2>3, MovesKeeps
<1>6. CASE TakeNothing(out') \/ TakePending(out')
  <2>1. /\ out' = <<>> /\ outbuf = <<>> /\ outbuf' = <<>> /\ body' = body /\ closed' = closed
    BY <1>6 DEF TakeNothing, TakePending
  <2>2. Hands
    BY <2>1, <1>2, <1>3, <1>4
  <2>3. All' = All
    BY <2>1, <1>1, <1>2, <1>3, TakenBehind
  <2>. QED BY <2>1, <2>2, <2>3, MovesKeeps
<1>7. CASE TakeFileShort(out') \/ TakeAborted(out')
  <2>1. /\ out' = <<>> /\ outbuf = <<>> /\ outbuf' = <<>> /\ body # None /\ body' = None
        /\ closed' = TRUE
    BY <1>7 DEF TakeFileShort, TakeAborted, Streaming
  <2>2. Hands
    BY <2>1, <1>2, <1>3, <1>4
  <2>3. All' = All
    BY <2>1, <1>1, <1>2, <1>3, TakenBehind
  <2>4. Heads' = Heads
    BY <2>3 DEF Heads
  <2>5. closed' \in BOOLEAN /\ closed'
    BY <2>1
  <2>6. Owes(All, pending, None, closed', interim)
    BY <2>5, <1>2, GivenUp
  <2>. QED BY <2>1, <2>2, <2>3, <2>4, <2>6, HandsKeeps
<1>8. ASSUME NEW x \in AllFrames, out' = <<x>>, outbuf = <<>>, outbuf' = <<>>, body # None,
             closed' = closed, body' \in {None} \cup FileBody \cup StreamBody,
             x.req = body.req, NextPiece(x, body, body')
      PROVE  IInv'
  <2>1. out' \in Seq(AllFrames)
    BY <1>8
  <2>2. Hands
    BY <2>1, <1>2, <1>3, <1>4, <1>8
  <2>3. Begins(All, All') /\ Len(All') = Len(All) + 1 /\ All'[Len(All')] = x
    BY <2>1, <1>1, <1>2, <1>8, TakenBehind
  <2>4. Owes(All', pending, body', closed, interim) /\ Count(All') = Count(All)
    <3>1. All'[Len(All')].req = body.req /\ NextPiece(All'[Len(All')], body, body')
      BY <2>3, <1>8
    <3>2. Owes(All, pending, body, closed, interim) /\ closed \in BOOLEAN /\ interim \in BOOLEAN
      BY <1>2
    <3>3. body # None
      BY <1>8
    <3>. QED BY ONLY <2>3, <3>1, <3>2, <3>3, Sent
  <2>5. Heads' = Heads
    BY <2>4 DEF Heads
  <2>. QED BY <2>2, <2>4, <2>5, <1>8, HandsKeeps
<1>9. \A i \in Nat : \A p \in {"data", "end"} :
         Frame(i, p) \in AllFrames /\ Frame(i, p).req = i /\ Frame(i, p).part = p
  BY DEF Frame, AllFrames
<1>10. CASE TakeFile(out')
  <2>1. /\ outbuf = <<>> /\ outbuf' = <<>> /\ body # None /\ body.kind = "file" /\ closed' = closed
        /\ out' = <<Frame(body.req, "data")>>
        /\ body' = IF body.left = 1 THEN None ELSE [body EXCEPT !.left = @ - 1]
    BY <1>10 DEF TakeFile
  <2>2. body \in FileBody /\ body.req \in Nat
    BY <2>1, <1>2 DEF FileBody, StreamBody
  <2>3. /\ Frame(body.req, "data") \in AllFrames /\ Frame(body.req, "data").req = body.req
        /\ Frame(body.req, "data").part = "data"
    BY <2>2, <1>9
  <2>4. /\ body.left = 1 => body' = None
        /\ body.left # 1 => /\ body' \in FileBody /\ body'.req = body.req
                            /\ body'.left = body.left - 1
    BY <2>1, <2>2 DEF FileBody
  <2>5. NextPiece(Frame(body.req, "data"), body, body')
    BY <2>2, <2>3, <2>4 DEF NextPiece
  <2>. QED BY <2>1, <2>2, <2>3, <2>4, <2>5, <1>8
<1>11. CASE TakeData(out')
  <2>1. /\ outbuf = <<>> /\ outbuf' = <<>> /\ body # None /\ body.kind = "stream"
        /\ closed' = closed /\ body' = body
        /\ out' = <<Frame(body.req, "data")>>
    BY <1>11 DEF TakeData, Streaming
  <2>2. body \in StreamBody /\ body.req \in Nat
    BY <2>1, <1>2 DEF FileBody, StreamBody
  <2>3. /\ Frame(body.req, "data") \in AllFrames /\ Frame(body.req, "data").req = body.req
        /\ Frame(body.req, "data").part = "data"
    BY <2>2, <1>9
  <2>4. NextPiece(Frame(body.req, "data"), body, body')
    BY <2>1, <2>2, <2>3 DEF NextPiece
  <2>. QED BY <2>1, <2>2, <2>3, <2>4, <1>8
<1>12. CASE TakeEnd(out')
  <2>1. /\ outbuf = <<>> /\ outbuf' = <<>> /\ body # None /\ body.kind = "stream"
        /\ closed' = closed /\ body' = None
        /\ out' = IF body.chunked THEN <<Frame(body.req, "end")>> ELSE <<>>
    BY <1>12 DEF TakeEnd, Streaming
  <2>2. body \in StreamBody /\ body.req \in Nat
    BY <2>1, <1>2 DEF FileBody, StreamBody
  <2>3. /\ Frame(body.req, "end") \in AllFrames /\ Frame(body.req, "end").req = body.req
        /\ Frame(body.req, "end").part = "end"
    BY <2>2, <1>9
  <2>4. CASE body.chunked
    <3>1. NextPiece(Frame(body.req, "end"), body, body')
      BY <2>1, <2>2, <2>3, <2>4 DEF NextPiece
    <3>. QED BY <2>1, <2>2, <2>3, <2>4, <3>1, <1>8
  <2>5. CASE ~body.chunked
    <3>1. out' = <<>>
      BY <2>1, <2>5
    <3>2. Hands
      BY <2>1, <3>1, <1>2, <1>3, <1>4
    <3>3. All' = All
      BY <2>1, <3>1, <1>1, <1>2, <1>3, TakenBehind
    <3>4. Heads' = Heads
      BY <3>3 DEF Heads
    <3>5. closed
      BY <2>2, <2>5, <1>2, StreamEndsClosed
    <3>6. Owes(All, pending, None, closed, interim)
      BY <3>5, <1>2, GivenUp
    <3>. QED BY <2>1, <3>2, <3>3, <3>4, <3>6, HandsKeeps
  <2>. QED BY <2>4, <2>5
<1>. QED BY <1>1, <1>5, <1>6, <1>7, <1>10, <1>11, <1>12 DEF TakeOut

----------------------------------------------------------------------------
(* Answers: the steps that put a response's head behind outbuf.             *)

\* D is a response to the request after those that have one, and the engine is left
\* with the rest of its body.
Answers(D) ==
    /\ D \in Seq(AllFrames) /\ Len(D) > 0
    /\ D[1].part = "head" /\ D[1].req = Heads + 1
    /\ \A j \in 2..Len(D) : D[j].part = "data" /\ D[j].req = D[1].req
    /\ D[1].mode = "none" => Len(D) = 1
    /\ D[1].mode = "length" => Len(D) - 1 <= D[1].len
    /\ Promised(D[1], Len(D) - 1, body', closed')
    /\ outbuf' = Join(outbuf, D)

\* The rest of such a step.
Closes ==
    /\ UNCHANGED <<script, wire, fed, engine, taken, out, failed, sent>>
    /\ ~closed /\ body = None /\ Serving
    /\ Heads + 1 <= Len(script)
    /\ ~closed' => Done = Heads + 1
    /\ pending' = 0 /\ scanned' = 0 /\ chunk' = None
    /\ interim' \in BOOLEAN /\ closed' \in BOOLEAN
    /\ body' \in {None} \cup FileBody \cup StreamBody
    /\ at' \in Places
    /\ out # <<>> => at' \in {"again", "append", "write", "lost"}

\* A response put behind outbuf keeps the invariant: the heads before it are of the
\* requests before it, and the last of them was whole.
LEMMA AnswersKeep ==
    ASSUME IInv, NEW D, Answers(D), Closes
    PROVE  IInv'
<1>1. /\ sent \in Seq(AllFrames) /\ out \in Seq(AllFrames) /\ outbuf \in Seq(AllFrames)
      /\ D \in Seq(AllFrames) /\ interim \in BOOLEAN /\ closed \in BOOLEAN /\ engine \in BOOLEAN
      /\ failed \in BOOLEAN
  BY DEF IInv, Types, Answers
<1>2. /\ script' = script /\ wire' = wire /\ fed' = fed /\ engine' = engine /\ taken' = taken
      /\ out' = out /\ failed' = failed /\ sent' = sent
      /\ pending' = 0 /\ scanned' = 0 /\ chunk' = None
      /\ interim' \in BOOLEAN /\ closed' \in BOOLEAN /\ at' \in Places
      /\ body' \in {None} \cup FileBody \cup StreamBody
      /\ engine /\ ~closed /\ body = None
  BY DEF Closes, IInv, Turn
<1>. DEFINE G == Join(All, D)
<1>3. outbuf' = Join(outbuf, D) /\ outbuf' \in Seq(AllFrames)
  BY <1>1, JoinAssociates DEF Answers
<1>4. All' = G
  <2>1. All' = Join(sent, Join(out, Join(outbuf, D)))
    BY <1>2, <1>3 DEF All
  <2>. QED BY <2>1, <1>1, JoinThree DEF All
<1>5. All \in Seq(AllFrames) /\ Heads \in Nat /\ Len(script) \in Nat
  BY AllTyped DEF IInv, Types
<1>6. /\ Begins(All, G) /\ Len(G) = Len(All) + Len(D) /\ Len(All) \in Nat /\ Len(D) \in Nat
      /\ \A k \in 1..Len(D) : G[Len(All) + k] = D[k]
  BY <1>1, <1>5, JoinFrames
<1>. HIDE DEF G
<1>7. Len(D) > 0 /\ G[Len(All) + 1] = D[1] /\ Len(G) - (Len(All) + 1) = Len(D) - 1
  <2>1. Len(D) > 0
    BY DEF Answers
  <2>. QED BY <2>1, <1>6
<1>8. OneResponse(All, G)
  <2>1. /\ D[1].part = "head" /\ D[1].req = Heads + 1
        /\ \A j \in 2..Len(D) : D[j].part = "data" /\ D[j].req = D[1].req
        /\ D[1].mode = "none" => Len(D) = 1
        /\ D[1].mode = "length" => Len(D) - 1 <= D[1].len
    BY DEF Answers
  <2>2. ASSUME NEW j \in Len(All) + 2..Len(G)
        PROVE  G[j].part = "data" /\ G[j].req = D[1].req
    <3>1. j - Len(All) \in 2..Len(D) /\ j - Len(All) \in 1..Len(D) /\ j = Len(All) + (j - Len(All))
      BY <1>6
    <3>2. G[j] = D[j - Len(All)]
      BY <3>1, <1>6
    <3>. QED BY <3>1, <3>2, <2>1
  <2>3. Len(All) < Len(G)
    BY <1>6, <1>7
  <2>4. D[1].mode = "none" => Len(G) = Len(All) + 1
    BY <2>1, <1>6
  <2>. QED BY <2>1, <2>2, <2>3, <2>4, <1>7 DEF OneResponse, Heads, Count
<1>9. Promised(G[Len(All) + 1], Len(G) - (Len(All) + 1), body', closed')
  BY <1>7 DEF Answers
<1>10. Owes(All, pending, None, closed, interim)
  BY <1>2 DEF IInv
<1>11. Owes(G, 0, body', closed', interim') /\ Count(G) = Count(All) + 1
  <2>1. /\ closed \in BOOLEAN /\ closed' \in BOOLEAN /\ interim \in BOOLEAN
        /\ interim' \in BOOLEAN /\ ~closed /\ Begins(All, G)
    BY <1>1, <1>2, <1>6
  <2>. QED BY ONLY <2>1, <1>8, <1>9, <1>10, Answered
<1>12. Heads' = Heads + 1 /\ Where' = Where /\ Done' = Heads + 1
  <2>1. Heads' = Heads + 1
    BY <1>4, <1>11 DEF Heads
  <2>. QED BY <2>1, <1>2 DEF Done, Where
<1>13. Types'
  <2>1. Layout(Where, script, wire)'
    BY <1>2, <1>12 DEF IInv, Types
  <2>2. /\ script' \in Seq(Requests) /\ Len(script') > 0 /\ wire' \in Seq(Units)
        /\ fed' \in 0..Len(wire') /\ taken' \in Handshake..Len(wire')
    BY <1>2 DEF IInv, Types
  <2>. QED BY <2>1, <2>2, <1>1, <1>2, <1>3 DEF Types, Places
<1>14. Turn'
  <2>1. taken \in Nat /\ fed \in Nat /\ taken <= fed
    <3>1. Handshake \in Nat
      BY H1Assumption
    <3>. QED BY <3>1, <1>2 DEF IInv, Types, Turn
  <2>2. Buffered' = fed - taken /\ 0 <= fed - taken
    BY <2>1, <1>2 DEF Buffered
  <2>3. out' # <<>> => at' \in {"again", "append", "write", "lost"}
    BY <1>2 DEF Closes
  <2>. QED BY <2>1, <2>2, <2>3, <1>2 DEF Turn
<1>15. Cursor'
  <2>1. Heads + 1 <= Len(script) /\ (~closed' => taken = Where[Heads + 1])
    BY <1>2 DEF Closes, IInv, Cursor
  <2>2. ASSUME Heads + 1 < Len(script) PROVE ScanWithin(script[Done + 1])'
    <3>. DEFINE r == script[Heads + 1 + 1]
    <3>1. r \in Requests
      <4>1. Heads + 1 + 1 \in 1..Len(script) /\ script \in Seq(Requests)
        BY <2>2, <1>5 DEF IInv, Types
      <4>. QED BY <4>1
    <3>2. 0 <= r.size + TermLen - 1
      <4>1. r.size \in Nat /\ TermLen \in Nat /\ TermLen > 0
        BY <3>1, H1Assumption, RequestsHaveSize DEF IsRequest
      <4>. HIDE DEF r
      <4>. QED BY <4>1
    <3>3. script'[Done' + 1] = r
      BY <1>2, <1>12
    <3>. QED BY <3>2, <3>3, <1>2, <1>12 DEF ScanWithin
  <2>. QED BY <2>1, <2>2, <1>2, <1>12 DEF Cursor
<1>16. Owes(All', pending', body', closed', interim')
  BY <1>2, <1>4, <1>11
<1>. QED BY <1>13, <1>14, <1>15, <1>16 DEF IInv

\* A head and m pieces like x.
HeadThen(h, x, m) == Join(<<h>>, Repeat(x, m))

IsHeadThen(D, h, x, m) ==
    /\ D \in Seq(AllFrames) /\ Len(D) = m + 1 /\ D[1] = h
    /\ \A j \in 2..m + 1 : D[j] = x

\* What such a response is.
LEMMA PiecesFollow ==
    ASSUME NEW h \in AllFrames, NEW x \in AllFrames, NEW m \in Nat
    PROVE  IsHeadThen(HeadThen(h, x, m), h, x, m)
<1>. DEFINE D == HeadThen(h, x, m)
<1>0. D = Join(<<h>>, Repeat(x, m))
  BY DEF HeadThen
<1>. HIDE DEF D
<1>1. /\ Repeat(x, m) \in Seq(AllFrames) /\ Len(Repeat(x, m)) = m
      /\ \A k \in 1..m : Repeat(x, m)[k] = x
  BY Repeated
<1>2. <<h>> \in Seq(AllFrames) /\ Len(<<h>>) = 1 /\ <<h>>[1] = h /\ 1 \in Nat /\ 1 \in 1..1
  OBVIOUS
<1>3. /\ D \in Seq(AllFrames) /\ Len(D) = 1 + m
      /\ \A k \in 1..1 : D[k] = <<h>>[k]
      /\ \A k \in 1..m : D[1 + k] = Repeat(x, m)[k]
  <2>. DEFINE s == <<h>>
              t == Repeat(x, m)
              one == 1
  <2>1. /\ s \in Seq(AllFrames) /\ Len(s) = one /\ t \in Seq(AllFrames) /\ Len(t) = m
        /\ one \in Nat /\ m \in Nat /\ D = Join(s, t)
    BY <1>0, <1>1, <1>2
  <2>. HIDE DEF s, t, one
  <2>2. /\ D \in Seq(AllFrames) /\ Len(D) = one + m
        /\ \A k \in 1..one : D[k] = s[k]
        /\ \A k \in 1..m : D[one + k] = t[k]
    BY ONLY <2>1, JoinedAt
  <2>. QED BY <2>2 DEF s, t, one
<1>4. ASSUME NEW j \in 2..m + 1 PROVE D[j] = x
  <2>1. j - 1 \in 1..m /\ j = 1 + (j - 1)
    OBVIOUS
  <2>. QED BY <2>1, <1>1, <1>3
<1>5. IsHeadThen(D, h, x, m)
  BY <1>2, <1>3, <1>4 DEF IsHeadThen
<1>. QED BY <1>5 DEF D

\* The fields of a head and of a piece.
LEMMA HeadFrames ==
    ASSUME NEW i \in Nat, NEW mode \in Modes, NEW n \in Nat, NEW keep \in BOOLEAN
    PROVE  /\ HeadFrame(i, mode, n, keep) \in AllFrames
           /\ HeadFrame(i, mode, n, keep).part = "head"
           /\ HeadFrame(i, mode, n, keep).req = i
           /\ HeadFrame(i, mode, n, keep).mode = mode
           /\ HeadFrame(i, mode, n, keep).len = n
           /\ HeadFrame(i, mode, n, keep).keep = keep
           /\ Frame(i, "data") \in AllFrames
           /\ Frame(i, "data").part = "data" /\ Frame(i, "data").req = i
  BY DEF HeadFrame, Frame, AllFrames

----------------------------------------------------------------------------
(* poll_request and respond.                                                *)

\* Neither a head's end nor a head that is too long is seen in an empty buffer.
LEMMA SomethingThere ==
    ASSUME IInv, HeadEnds # {} \/ Refused
    PROVE  Buffered # 0
<1>1. Buffered \in Int /\ scanned \in Nat /\ TermLen \in Nat /\ TermLen > 0 /\ MaxHeader \in Nat
  <2>1. fed \in Int /\ taken \in Int /\ scanned \in Nat
    BY H1Assumption DEF IInv, Types
  <2>. QED BY <2>1, H1Assumption DEF Buffered
<1>2. SearchFrom \in Nat
  <2>1. CASE scanned > TermLen - 1
    BY <2>1, <1>1 DEF SearchFrom
  <2>2. CASE ~(scanned > TermLen - 1)
    BY <2>2 DEF SearchFrom
  <2>. QED BY <2>1, <2>2
<1>3. CASE HeadEnds # {}
  <2>1. PICK e \in SearchFrom..(Buffered - TermLen) : TRUE
    BY <1>3 DEF HeadEnds
  <2>. QED BY <2>1, <1>1, <1>2
<1>4. CASE HeadEnds = {} /\ Refused
  <2>1. Buffered > MaxHeader
    BY <1>4 DEF Refused
  <2>. QED BY <2>1, <1>1
<1>. QED BY <1>3, <1>4

\* What holds when poll_request looks at its input.
LEMMA NowIs ==
    ASSUME IInv, ~NotNow
    PROVE  ~closed /\ pending = 0 /\ body = None /\ Done = Heads
<1>1. ~closed /\ pending = 0 /\ body = None
  BY DEF NotNow
<1>2. Heads \in Nat
  BY AllTyped DEF IInv
<1>. QED BY <1>1, <1>2 DEF Done

\* Appending is joining one.
LEMMA AppendJoins ==
    ASSUME NEW S, NEW s \in Seq(S), NEW x \in S
    PROVE  Append(s, x) = Join(s, <<x>>)
  BY DEF Join

\* One frame put behind outbuf.
LEMMA OneMore ==
    ASSUME NEW x \in AllFrames, NEW o \in Seq(AllFrames), o = Join(outbuf, <<x>>),
           sent \in Seq(AllFrames), out \in Seq(AllFrames), outbuf \in Seq(AllFrames),
           NEW G, G = Join(sent, Join(out, o))
    PROVE  Begins(All, G) /\ Len(G) = Len(All) + 1 /\ G[Len(G)] = x
<1>1. All \in Seq(AllFrames)
  BY JoinAssociates DEF All
<1>2. <<x>> \in Seq(AllFrames) /\ Len(<<x>>) = 1 /\ <<x>>[1] = x /\ 1 \in 1..1
  OBVIOUS
<1>3. G = Join(All, <<x>>)
  <2>. DEFINE d == <<x>>
  <2>1. d \in Seq(AllFrames) /\ G = Join(sent, Join(out, Join(outbuf, d)))
    BY <1>2
  <2>. HIDE DEF d
  <2>2. G = Join(Join(sent, Join(out, outbuf)), d)
    BY <2>1, JoinThree
  <2>. QED BY <2>2 DEF All, d
<1>4. /\ Begins(All, Join(All, <<x>>)) /\ Len(Join(All, <<x>>)) = Len(All) + 1
      /\ Join(All, <<x>>)[Len(All) + 1] = x
  BY <1>1, <1>2, JoinFrames
<1>. QED BY <1>3, <1>4

\* A request that is refused: the error page answers it, and the connection ends.
LEMMA PollRefusedKeeps ==
    ASSUME IInv, PollRefused
    PROVE  IInv'
<1>1. Serving /\ ~NotNow /\ Refused /\ Fail /\ Served
  BY DEF PollRefused
<1>2. Fronts(Heads + 1) /\ Current = Heads + 1 /\ Heads + 1 \in 1..Len(script)
  <2>1. Fronts(Heads + 1)
    BY <1>1, SomethingThere, AtTheFront
  <2>. QED BY <2>1, PartsInBuf DEF Fronts
<1>3. ~closed /\ pending = 0 /\ body = None /\ Done = Heads
  BY <1>1, NowIs
<1>. DEFINE i == Heads + 1
            h == HeadFrame(i, "length", 1, FALSE)
            x == Frame(i, "data")
            D == <<h, x>>
<1>4. i \in Nat /\ Heads + 1 <= Len(script)
  <2>1. Len(script) \in Nat /\ Heads \in Nat
    BY AllTyped DEF IInv, Types
  <2>. QED BY <2>1, <1>2
<1>5. /\ h \in AllFrames /\ x \in AllFrames /\ h.part = "head" /\ h.req = i
      /\ h.mode = "length" /\ h.len = 1 /\ h.keep = FALSE
      /\ x.part = "data" /\ x.req = i
  <2>. DEFINE mode == "length"
              one == 1
              no == FALSE
  <2>1. i \in Nat /\ mode \in Modes /\ one \in Nat /\ no \in BOOLEAN
    BY <1>4 DEF Modes
  <2>. HIDE DEF i, mode, one, no
  <2>2. /\ HeadFrame(i, mode, one, no) \in AllFrames
        /\ HeadFrame(i, mode, one, no).part = "head"
        /\ HeadFrame(i, mode, one, no).req = i
        /\ HeadFrame(i, mode, one, no).mode = mode
        /\ HeadFrame(i, mode, one, no).len = one
        /\ HeadFrame(i, mode, one, no).keep = no
        /\ Frame(i, "data") \in AllFrames
        /\ Frame(i, "data").part = "data" /\ Frame(i, "data").req = i
    BY ONLY <2>1, HeadFrames
  <2>. QED BY <2>2 DEF mode, one, no
<1>6. /\ outbuf' = Join(outbuf, D) /\ pending' = 0 /\ scanned' = 0 /\ chunk' = None
      /\ closed' = TRUE /\ UNCHANGED <<taken, body, interim>>
  BY <1>1, <1>2 DEF Fail, Join
<1>7. D \in Seq(AllFrames) /\ Len(D) = 2 /\ D[1] = h /\ D[2] = x
  <2>. HIDE DEF h, x
  <2>. QED BY <1>5
<1>8. /\ UNCHANGED <<script, wire, fed, engine, taken, out, failed, sent>>
      /\ at' \in {"check", "append"} /\ (at = "again" => at' = "append")
  BY <1>1, <1>6 DEF PollRefused, Served, Serving, peer
<1>. HIDE DEF h, x, D
<1>9. Promised(h, 1, body', closed')
  BY <1>3, <1>5, <1>6, BodiesApart DEF Promised
<1>10. Answers(D)
  <2>1. \A j \in 2..Len(D) : D[j].part = "data" /\ D[j].req = D[1].req
    <3>1. \A j \in 2..Len(D) : j = 2
      BY <1>7
    <3>. QED BY <3>1, <1>5, <1>7
  <2>2. Len(D) > 0 /\ Len(D) - 1 = 1 /\ Len(D) - 1 <= 1
    BY <1>7
  <2>3. /\ D[1].part = "head" /\ D[1].req = Heads + 1 /\ D[1].mode = "length" /\ D[1].len = 1
    BY <1>5, <1>7
  <2>4. Promised(D[1], Len(D) - 1, body', closed')
    BY <2>2, <1>7, <1>9
  <2>5. D \in Seq(AllFrames) /\ outbuf' = Join(outbuf, D)
    BY <1>6, <1>7
  <2>6. "length" # "none"
    OBVIOUS
  <2>. QED BY ONLY <2>1, <2>2, <2>3, <2>4, <2>5, <2>6 DEF Answers
<1>11. Closes
  <2>1. interim' \in BOOLEAN /\ closed' \in BOOLEAN /\ body' \in {None} \cup FileBody \cup StreamBody
    BY <1>3, <1>6 DEF IInv, Types
  <2>2. out # <<>> => at' \in {"again", "append", "write", "lost"}
    BY <1>1, <1>8 DEF IInv, Turn, Serving
  <2>. QED BY <2>1, <2>2, <1>1, <1>3, <1>4, <1>6, <1>8 DEF Closes, Places
<1>. QED BY <1>10, <1>11, AnswersKeep

\* A step of poll_request that leaves its request where it is.
LEMMA ScanKeeps ==
    ASSUME IInv, Serving, ~NotNow, Served,
           UNCHANGED <<script, wire, fed, engine, taken, body, pending, closed, out, failed, sent>>,
           outbuf' \in Seq(AllFrames), interim' \in BOOLEAN, scanned' \in Nat,
           chunk' \in Nat \cup {None}, scanned' <= Buffered,
           Done = Len(script) => scanned' = 0 /\ chunk' = None,
           Done < Len(script) => ScanWithin(script[Done + 1])',
           Owes(All', 0, None, closed, interim'), Heads' = Heads
    PROVE  IInv'
<1>1. ~closed /\ pending = 0 /\ body = None /\ Done = Heads
  BY NowIs
<1>2. /\ script' = script /\ wire' = wire /\ fed' = fed /\ engine' = engine /\ taken' = taken
      /\ out' = out /\ failed' = failed /\ sent' = sent /\ body' = body /\ pending' = pending
      /\ closed' = closed
  OBVIOUS
<1>3. Where' = Where /\ Done' = Done /\ Buffered' = Buffered
  BY <1>2 DEF Where, Done, Buffered
<1>4. at' \in {"check", "append"} /\ (at = "again" => at' = "append")
  BY DEF Served, Serving
<1>5. Types'
  <2>1. Layout(Where, script, wire)'
    BY <1>2, <1>3 DEF IInv, Types
  <2>2. /\ script' \in Seq(Requests) /\ Len(script') > 0 /\ wire' \in Seq(Units)
        /\ fed' \in 0..Len(wire') /\ taken' \in Handshake..Len(wire')
        /\ sent' \in Seq(AllFrames) /\ out' \in Seq(AllFrames)
        /\ engine' \in BOOLEAN /\ closed' \in BOOLEAN /\ failed' \in BOOLEAN
        /\ pending' \in Nat /\ body' \in {None} \cup FileBody \cup StreamBody
    BY <1>2 DEF IInv, Types
  <2>. QED BY <2>1, <2>2, <1>4 DEF Types
<1>6. Turn'
  <2>1. engine' /\ taken' <= fed' /\ scanned' <= Buffered'
    BY <1>2, <1>3 DEF IInv, Turn
  <2>2. out' # <<>> => at' \in {"again", "append", "write", "lost"}
    BY <1>2, <1>4 DEF IInv, Turn, Serving
  <2>. QED BY <2>1, <2>2, <1>1, <1>2 DEF Turn
<1>7. Cursor'
  <2>1. Done' <= Len(script') /\ (~closed' => taken' = Where'[Done'])
    BY <1>2, <1>3 DEF IInv, Cursor
  <2>2. ~(pending' # 0 \/ body' # None \/ closed')
    BY <1>1, <1>2
  <2>3. Done' < Len(script') => ScanWithin(script[Done + 1])'
    BY <1>2, <1>3
  <2>. QED BY <2>1, <2>2, <2>3, <1>2, <1>3 DEF Cursor
<1>8. Owes(All', pending', body', closed', interim')
  BY <1>1, <1>2
<1>. QED BY <1>5, <1>6, <1>7, <1>8 DEF IInv

\* A request that is not all there: the scan goes on from where it was, within its head
\* and within its body, and a client that expects it is asked to go on, once.
LEMMA PollMoreKeeps ==
    ASSUME IInv, PollMore
    PROVE  IInv'
<1>1. /\ Serving /\ ~NotNow /\ ~Refused /\ Wait /\ Served
      /\ HeadEnds # {} => ~BodyComplete
      /\ UNCHANGED <<script, wire, fed, engine, out, failed, sent>>
  BY DEF PollMore, peer
<1>2. ~closed /\ pending = 0 /\ body = None /\ Done = Heads
  BY <1>1, NowIs
<1>3. /\ outbuf \in Seq(AllFrames) /\ out \in Seq(AllFrames) /\ sent \in Seq(AllFrames)
      /\ interim \in BOOLEAN /\ closed \in BOOLEAN /\ chunk \in Nat \cup {None}
      /\ Owes(All, 0, None, closed, interim) /\ Types /\ engine
      /\ Heads <= Len(script)
  BY <1>1, <1>2 DEF IInv, Types, Turn, Cursor
<1>4. /\ fed \in Nat /\ taken \in Nat /\ taken <= fed /\ fed <= Len(wire) /\ Len(wire) \in Nat
      /\ Buffered = fed - taken /\ Buffered \in Nat /\ Heads \in Nat /\ Len(script) \in Nat
  <2>1. /\ fed \in Nat /\ taken \in Nat /\ taken <= fed /\ fed <= Len(wire) /\ Len(wire) \in Nat
        /\ Len(script) \in Nat
    BY <1>3, H1Assumption DEF IInv, Types, Turn
  <2>2. Heads \in Nat
    BY <1>3, AllTyped
  <2>. QED BY <2>1, <2>2 DEF Buffered
<1>5. Heads = Len(script) => Buffered = 0
  <2>1. taken = Where[Heads] /\ Where[Len(script)] = Len(wire)
    BY <1>2, <1>3, WhereIs DEF IInv, Cursor
  <2>. QED BY <2>1, <1>4
<1>6. CASE HeadEnds = {}
  <2>1. scanned' = Buffered /\ UNCHANGED <<taken, outbuf, body, pending, chunk, closed, interim>>
    BY <1>1, <1>6 DEF Wait
  <2>2. All' = All /\ Heads' = Heads
    BY <2>1, <1>1 DEF All, Heads
  <2>3. Buffered' = Buffered
    BY <2>1, <1>1 DEF Buffered
  <2>4. ASSUME Heads < Len(script) PROVE ScanWithin(script[Done + 1])'
    <3>. DEFINE r == script[Heads + 1]
    <3>1. script'[Done' + 1] = r
      BY <2>1, <2>2, <1>1, <1>2 DEF Done
    <3>2. ScanWithin(r)
      BY <2>4, <1>2 DEF IInv, Cursor
    <3>3. r.size \in Nat /\ TermLen \in Nat /\ TermLen > 0 /\ r.body \in Nat
      <4>1. r \in Requests
        BY <2>4, <1>3, <1>4 DEF Types
      <4>. QED BY <4>1, H1Assumption, RequestsHaveSize DEF IsRequest
    <3>. HIDE DEF r
    <3>4. Buffered < r.size + TermLen
      <4>1. CASE Buffered = 0
        BY <4>1, <3>3
      <4>2. CASE Buffered # 0
        <5>1. Fronts(Heads + 1)
          BY <4>2, <1>1, AtTheFront
        <5>2. ~(r.size + TermLen <= Buffered)
          BY <5>1, <1>6, HeadEndIs DEF r
        <5>. QED BY <5>2, <3>3, <1>4
      <4>. QED BY <4>1, <4>2
    <3>5. chunk = None
      <4>1. chunk # None => r.size + TermLen + chunk <= Buffered /\ chunk \in Nat
        BY <3>2, <1>3 DEF ScanWithin
      <4>. QED BY <4>1, <3>3, <3>4, <1>4
    <3>6. Buffered <= r.size + TermLen - 1
      BY <3>3, <3>4, <1>4
    <3>. QED BY <3>1, <3>5, <3>6, <2>1 DEF ScanWithin
  <2>5. Heads = Len(script) => scanned' = 0 /\ chunk' = None
    <3>1. Heads = Len(script) => chunk = None
      BY <1>2 DEF IInv, Cursor
    <3>. QED BY <3>1, <2>1, <1>5
  <2>6. Owes(All', 0, None, closed, interim')
    BY <2>1, <2>2, <1>3
  <2>7. scanned' \in Nat /\ scanned' <= Buffered
    <3>1. Buffered <= Buffered
      BY <1>4
    <3>. QED BY <3>1, <2>1, <1>4
  <2>8. /\ outbuf' \in Seq(AllFrames) /\ interim' \in BOOLEAN /\ chunk' \in Nat \cup {None}
        /\ UNCHANGED <<script, wire, fed, engine, taken, body, pending, closed, out, failed, sent>>
    BY <2>1, <1>1, <1>3
  <2>. QED BY <2>2, <2>4, <2>5, <2>6, <2>7, <2>8, <1>1, <1>2, <1>3, ScanKeeps
<1>7. CASE HeadEnds # {}
  <2>1. /\ scanned' = HeadEnd + TermLen - 1
        /\ chunk' = IF Framing.kind = "chunked" THEN DecoderAt ELSE None
        /\ Continue
        /\ UNCHANGED <<taken, body, pending, closed>>
    BY <1>1, <1>7 DEF Wait
  <2>2. Fronts(Heads + 1)
    BY <1>1, <1>7, SomethingThere, AtTheFront
  <2>. DEFINE i == Heads + 1
              r == script[i]
  <2>3. /\ i \in 1..Len(script) /\ r \in Requests /\ Current = i
        /\ r.size \in Nat /\ r.body \in Nat /\ TermLen \in Nat /\ TermLen > 0
    <3>1. i \in 1..Len(script) /\ r \in Requests /\ Current = i
      BY <2>2, PartsInBuf DEF Fronts
    <3>. QED BY <3>1, H1Assumption, RequestsHaveSize DEF IsRequest
  <2>4. HeadEnd = r.size /\ BodyStart = r.size + TermLen /\ r.size + TermLen <= Buffered
    BY <2>2, <1>7, HeadEndIs
  <2>5. /\ scanned' = r.size + TermLen - 1 /\ scanned' \in Nat /\ scanned' <= Buffered
    <3>. HIDE DEF r
    <3>1. r.size + TermLen - 1 \in Nat /\ r.size + TermLen - 1 <= Buffered
      BY <2>3, <2>4, <1>4
    <3>. QED BY <3>1, <2>1, <2>4
  <2>6. \/ chunk' = None
        \/ chunk' \in Nat /\ chunk' <= r.body /\ r.size + TermLen + chunk' <= Buffered
    <3>1. CASE Framing.kind = "chunked"
      <4>1. r.chunks
        <5>1. Framing = BodyFraming(r.fields)
          BY <2>3 DEF Framing
        <5>. QED BY <5>1, <2>3, <3>1, H1Assumption DEF Consistent
      <4>2. LastChunks = {}
        BY <1>1, <1>7, <3>1 DEF BodyComplete
      <4>3. DecoderAt = Buffered - BodyStart /\ DecoderAt \in Nat /\ DecoderAt <= r.body
        BY <2>2, <4>1, <4>2, <1>3, <1>7, DecoderIs
      <4>4. r.size + TermLen + DecoderAt <= Buffered
        <5>. HIDE DEF r
        <5>. QED BY <4>3, <2>3, <2>4, <1>4
      <4>. QED BY <4>3, <4>4, <2>1, <3>1
    <3>2. CASE Framing.kind # "chunked"
      BY <3>2, <2>1
    <3>. QED BY <3>1, <3>2
  <2>. HIDE DEF r, i
  <2>7. Heads < Len(script) /\ Done < Len(script)
    BY <2>3, <1>2, <1>4 DEF i
  <2>8. /\ outbuf' \in Seq(AllFrames) /\ interim' \in BOOLEAN
        /\ Owes(All', 0, None, closed, interim') /\ Heads' = Heads
    <3>1. CASE ~interim /\ Expects100(script[Current].fields)
      <4>. DEFINE x == Frame(i, "100")
                  G == Join(sent, Join(out, outbuf'))
      <4>1. outbuf' = Append(outbuf, x) /\ interim' = TRUE
        BY <2>1, <2>3, <3>1 DEF Continue
      <4>2. x \in AllFrames /\ x.part = "100" /\ x.req = i
        BY <2>3 DEF Frame, AllFrames
      <4>. HIDE DEF x
      <4>3. outbuf' = Join(outbuf, <<x>>) /\ outbuf' \in Seq(AllFrames)
        BY <4>1, <4>2, <1>3, AppendJoins
      <4>5. All' = G
        BY <1>1 DEF All
      <4>6. /\ Begins(All, G) /\ Len(G) = Len(All) + 1 /\ G[Len(G)] = x
        <5>1. /\ sent \in Seq(AllFrames) /\ out \in Seq(AllFrames) /\ outbuf \in Seq(AllFrames)
          BY <1>3
        <5>. QED BY <4>2, <4>3, <5>1, OneMore
      <4>. HIDE DEF G
      <4>7. interim' \in BOOLEAN /\ interim'
        BY <4>1
      <4>8. G[Len(G)].part = "100" /\ G[Len(G)].req = Count(All) + 1
        BY <4>2, <4>6 DEF i, Heads
      <4>9. Owes(G, 0, None, closed, interim') /\ Count(G) = Count(All)
        <5>1. ~interim /\ interim \in BOOLEAN /\ closed \in BOOLEAN
          BY <3>1, <1>3
        <5>2. Owes(All, 0, None, closed, interim)
          BY <1>3
        <5>. QED BY ONLY <4>6, <4>7, <4>8, <5>1, <5>2, Asked
      <4>. QED BY <4>3, <4>5, <4>7, <4>9 DEF Heads
    <3>2. CASE ~(~interim /\ Expects100(script[Current].fields))
      <4>1. outbuf' = outbuf /\ interim' = interim
        BY <2>1, <3>2 DEF Continue
      <4>2. All' = All
        BY <4>1, <1>1 DEF All
      <4>. QED BY <4>1, <4>2, <1>3 DEF Heads
    <3>. QED BY <3>1, <3>2
  <2>9. ScanWithin(script[Done + 1])'
    <3>1. script'[Done' + 1] = r
      BY <2>1, <2>8, <1>1, <1>2 DEF Done, r, i
    <3>2. Buffered' = Buffered
      BY <2>1, <1>1 DEF Buffered
    <3>3. scanned' <= r.size + TermLen - 1
      <4>1. r.size + TermLen - 1 <= r.size + TermLen - 1
        BY <2>3
      <4>. QED BY <4>1, <2>5
    <3>. QED BY <3>1, <3>2, <3>3, <2>5, <2>6 DEF ScanWithin
  <2>10. chunk' \in Nat \cup {None}
    BY <2>6
  <2>11. Done # Len(script)
    BY <2>7, <1>2, <1>4
  <2>12. UNCHANGED <<script, wire, fed, engine, taken, body, pending, closed, out, failed, sent>>
    BY <2>1, <1>1
  <2>. QED BY <2>5, <2>8, <2>9, <2>10, <2>11, <2>12, <1>1, ScanKeeps
<1>. QED BY <1>6, <1>7

\* Nothing of the next request has been scanned.
LEMMA Unscanned ==
    ASSUME Types, NEW d \in Nat, d < Len(script)
    PROVE  /\ script[d + 1].size \in Nat /\ TermLen \in Nat
           /\ 0 <= script[d + 1].size + TermLen - 1
<1>1. script[d + 1] \in Requests
  <2>1. d + 1 \in 1..Len(script) /\ script \in Seq(Requests)
    BY DEF Types
  <2>. QED BY <2>1
<1>2. script[d + 1].size \in Nat /\ TermLen \in Nat /\ TermLen > 0
  BY <1>1, H1Assumption, RequestsHaveSize DEF IsRequest
<1>. DEFINE n == script[d + 1].size
<1>. HIDE DEF n
<1>3. n \in Nat => 0 <= n + TermLen - 1
  BY <1>2
<1>. QED BY <1>2, <1>3 DEF n

\* A request that is delivered: it is drained whole, and the cursors are reset before
\* the next one is looked at.
LEMMA PollRequestKeeps ==
    ASSUME IInv, PollRequest
    PROVE  IInv'
<1>1. /\ Serving /\ ~NotNow /\ ~Refused /\ HeadEnds # {} /\ BodyComplete
      /\ taken' = taken + Consumed /\ scanned' = 0 /\ chunk' = None /\ interim' = FALSE
      /\ pending' = Current
      /\ UNCHANGED <<script, wire, fed, engine, outbuf, body, closed, out, failed, at, sent>>
  BY DEF PollRequest, Deliver, peer
<1>2. ~closed /\ pending = 0 /\ body = None /\ Done = Heads
  BY <1>1, NowIs
<1>. DEFINE i == Heads + 1
            r == script[i]
<1>3. Fronts(i) /\ Current = i
  <2>1. Fronts(i)
    BY <1>1, SomethingThere, AtTheFront
  <2>. QED BY <2>1, PartsInBuf
<1>4. Types /\ engine /\ Owes(All, 0, None, closed, interim)
      /\ closed \in BOOLEAN /\ interim \in BOOLEAN
  BY <1>1, <1>2 DEF IInv, Turn, Types
<1>5. Consumed = Size(r) /\ Size(r) <= Buffered
  BY <1>1, <1>3, <1>4, ConsumedIs
<1>6. /\ taken \in Nat /\ fed \in Nat /\ Heads \in Nat /\ Len(script) \in Nat /\ Len(wire) \in Nat
      /\ Handshake \in Nat /\ i \in 1..Len(script)
  <2>1. Heads \in Nat /\ Len(script) \in Nat /\ Len(wire) \in Nat
    BY <1>4, AllTyped DEF Types
  <2>. QED BY <2>1, <1>3, H1Assumption DEF Fronts
<1>7. taken' = Where[i] /\ Where[i] \in Handshake..Len(wire) /\ Where[i] <= fed
  <2>1. Where[i] = taken + Size(r) /\ Buffered = fed - taken
    BY <1>3 DEF Fronts, Buffered
  <2>2. Where[i] \in Handshake..Len(wire)
    <3>1. i \in 0..Len(script)
      BY <1>6
    <3>. QED BY <3>1, <1>4, WhereIs
  <2>3. Size(r) \in Int
    <3>1. Where[i] \in Int
      BY <2>2, <1>6
    <3>2. Size(r) \in Nat
      BY <1>3 DEF Fronts, IsRequest
    <3>. QED BY <3>1, <3>2
  <2>4. taken + Size(r) <= fed
    <3>. HIDE DEF r
    <3>. QED BY <2>1, <2>3, <1>5, <1>6
  <2>. QED BY <2>1, <2>2, <2>4, <1>1, <1>5
<1>8. All' = All /\ Heads' = Heads /\ Where' = Where
  <2>1. All' = All /\ Where' = Where
    BY <1>1 DEF All, Where
  <2>. QED BY <2>1 DEF Heads
<1>9. pending' = i /\ i \in Nat \ {0} /\ Done' = i
  <2>1. pending' = i /\ i \in Nat \ {0}
    BY <1>1, <1>3, <1>6
  <2>. QED BY <2>1, <1>8 DEF Done
<1>. HIDE DEF i, r
<1>10. Types'
  <2>1. Layout(Where, script, wire)'
    BY <1>1, <1>8 DEF IInv, Types
  <2>2. taken' \in Handshake..Len(wire') /\ scanned' \in Nat /\ pending' \in Nat
        /\ interim' \in BOOLEAN /\ chunk' \in Nat \cup {None}
    BY <1>1, <1>7, <1>9
  <2>3. /\ script' \in Seq(Requests) /\ Len(script') > 0 /\ wire' \in Seq(Units)
        /\ fed' \in 0..Len(wire') /\ sent' \in Seq(AllFrames) /\ out' \in Seq(AllFrames)
        /\ outbuf' \in Seq(AllFrames) /\ engine' \in BOOLEAN /\ closed' \in BOOLEAN
        /\ failed' \in BOOLEAN /\ body' \in {None} \cup FileBody \cup StreamBody
        /\ at' \in {"read", "serve", "check", "flush", "again", "append", "write", "after",
                    "closed", "lost"}
    BY <1>1, <1>4 DEF Types
  <2>. QED BY <2>1, <2>2, <2>3 DEF Types
<1>11. Turn'
  <2>1. taken' <= fed' /\ scanned' <= Buffered'
    <3>. DEFINE w == Where[i]
    <3>1. w \in Nat /\ w <= fed
      BY <1>6, <1>7
    <3>. HIDE DEF w
    <3>2. 0 <= fed - w
      BY <3>1, <1>6
    <3>3. Buffered' = fed - w /\ taken' = w /\ fed' = fed
      BY <1>1, <1>7 DEF Buffered, w
    <3>. QED BY <3>1, <3>2, <3>3, <1>1
  <2>2. Serving' /\ at' = at /\ out' = out /\ engine' /\ ~closed' /\ body' = None
    BY <1>1, <1>2, <1>4 DEF Serving
  <2>3. out' # <<>> => at' \in {"again", "append", "write", "lost"}
    BY <2>2 DEF IInv, Turn
  <2>4. pending' = Heads' + 1
    BY <1>8, <1>9 DEF i
  <2>. QED BY <2>1, <2>2, <2>3, <2>4 DEF Turn
<1>12. Cursor'
  <2>1. Done' <= Len(script') /\ taken' = Where'[Done']
    BY <1>1, <1>6, <1>7, <1>8, <1>9
  <2>2. ASSUME i < Len(script) PROVE ScanWithin(script[Done + 1])'
    <3>1. 0 <= script[i + 1].size + TermLen - 1
      BY <2>2, <1>4, <1>9, Unscanned
    <3>2. script'[Done' + 1] = script[i + 1]
      BY <1>1, <1>9
    <3>. QED BY <3>1, <3>2, <1>1 DEF ScanWithin
  <2>. QED BY <2>1, <2>2, <1>1, <1>9 DEF Cursor
<1>13. Owes(All', pending', body', closed', interim')
  <2>. DEFINE no == FALSE
  <2>1. no \in BOOLEAN
    OBVIOUS
  <2>. HIDE DEF no
  <2>2. Owes(All, i, None, closed, no)
    BY <2>1, <1>4, <1>9, Handed
  <2>3. interim' = no /\ pending' = i /\ body' = None /\ closed' = closed
    BY <1>1, <1>2, <1>9 DEF no
  <2>. QED BY <2>2, <2>3, <1>8
<1>. QED BY <1>10, <1>11, <1>12, <1>13 DEF IInv

----------------------------------------------------------------------------
(* respond.                                                                 *)

\* The answer to the pending request: its head, the m pieces of its body that are at
\* hand, and the source of the rest.
Response(mode, n, keep, m) ==
    /\ pending # 0 /\ mode \in Modes /\ n \in Nat /\ keep \in BOOLEAN /\ m \in Nat
    /\ outbuf' = Join(outbuf, Join(<<HeadFrame(pending, mode, n, keep)>>,
                                   Repeat(Frame(pending, "data"), m)))
    /\ closed' \in BOOLEAN /\ body' \in {None} \cup FileBody \cup StreamBody
    /\ pending' = 0
    /\ UNCHANGED <<script, wire, fed, engine, taken, scanned, chunk, interim, out, failed, at,
                   sent>>
    /\ mode = "none" => m = 0
    /\ mode = "length" => m <= n
    /\ ~closed' => keep
    /\ mode = "close" => closed'
    /\ body' = None /\ ~closed' => mode = "none" \/ (mode = "length" /\ m = n)
    /\ body' # None => body'.req = pending
    /\ body' \in FileBody =>
          /\ mode \in {"close", "length"}
          /\ mode = "length" => m + body'.left = n
    /\ body' \in StreamBody => IF body'.chunked THEN mode = "chunked" ELSE mode = "close"

\* A response of the handler keeps the invariant.
LEMMA ResponseKeeps ==
    ASSUME IInv, Serving, NEW mode, NEW n, NEW keep, NEW m, Response(mode, n, keep, m)
    PROVE  IInv'
<1>. DEFINE i == Heads + 1
            h == HeadFrame(i, mode, n, keep)
            x == Frame(i, "data")
            D == Join(<<h>>, Repeat(x, m))
<1>1. /\ pending = i /\ ~closed /\ body = None /\ Heads \in Nat /\ Len(script) \in Nat
      /\ Done = i
  <2>1. pending = i /\ ~closed /\ body = None
    BY DEF IInv, Turn, Response
  <2>2. Heads \in Nat /\ Len(script) \in Nat
    BY AllTyped DEF IInv, Types
  <2>3. Done = i
    BY DEF Done, Response
  <2>. QED BY <2>1, <2>2, <2>3
<1>2. Heads + 1 <= Len(script) /\ scanned = 0 /\ chunk = None
  BY <1>1 DEF IInv, Cursor, Response
<1>3. i \in Nat /\ mode \in Modes /\ n \in Nat /\ keep \in BOOLEAN /\ m \in Nat
  BY <1>1 DEF Response
<1>. HIDE DEF i
<1>4. /\ h \in AllFrames /\ h.part = "head" /\ h.req = i /\ h.mode = mode /\ h.len = n
      /\ h.keep = keep /\ x \in AllFrames /\ x.part = "data" /\ x.req = i
  BY ONLY <1>3, HeadFrames
<1>5. outbuf' = Join(outbuf, D)
  BY <1>1 DEF Response
<1>. HIDE DEF h, x
<1>6. /\ D \in Seq(AllFrames) /\ Len(D) = m + 1 /\ D[1] = h
      /\ \A j \in 2..m + 1 : D[j] = x
  <2>1. h \in AllFrames /\ x \in AllFrames /\ m \in Nat
    BY <1>3, <1>4
  <2>2. IsHeadThen(HeadThen(h, x, m), h, x, m)
    BY ONLY <2>1, PiecesFollow
  <2>3. IsHeadThen(D, h, x, m)
    BY ONLY <2>2 DEF HeadThen
  <2>. QED BY ONLY <2>3 DEF IsHeadThen
<1>. HIDE DEF D
<1>7. Answers(D)
  <2>1. \A j \in 2..Len(D) : D[j].part = "data" /\ D[j].req = D[1].req
    BY <1>4, <1>6
  <2>2. Len(D) > 0 /\ Len(D) - 1 = m
    BY <1>3, <1>6
  <2>3. /\ D[1].part = "head" /\ D[1].req = Heads + 1
        /\ D[1].mode = "none" => Len(D) = 1
        /\ D[1].mode = "length" => Len(D) - 1 <= D[1].len
    BY <2>2, <1>3, <1>4, <1>6 DEF Response, i
  <2>4. Promised(h, m, body', closed')
    BY <1>1, <1>4 DEF Promised, Response
  <2>5. Promised(D[1], Len(D) - 1, body', closed')
    BY <2>2, <2>4, <1>6
  <2>. QED BY ONLY <2>1, <2>2, <2>3, <2>5, <1>5, <1>6 DEF Answers
<1>8. Closes
  <2>1. /\ UNCHANGED <<script, wire, fed, engine, taken, out, failed, sent>>
        /\ pending' = 0 /\ scanned' = 0 /\ chunk' = None /\ interim' = interim /\ at' = at
        /\ closed' \in BOOLEAN /\ body' \in {None} \cup FileBody \cup StreamBody
    BY <1>2 DEF Response
  <2>2. interim \in BOOLEAN /\ at \in Places
        /\ (out # <<>> => at \in {"again", "append", "write", "lost"})
    BY DEF IInv, Types, Turn, Places
  <2>3. Done = Heads + 1
    BY <1>1 DEF i
  <2>. QED BY <2>1, <2>2, <2>3, <1>1, <1>2 DEF Closes
<1>. QED BY <1>7, <1>8, AnswersKeep

\* Where the rest of a body comes from.
LEMMA BodySourceIs ==
    ASSUME NEW i \in Nat, NEW resp \in Responses, NEW chunked \in BOOLEAN,
           NEW b, b = BodySource(i, resp, chunked)
    PROVE  /\ b \in {None} \cup FileBody \cup StreamBody
           /\ b # None => b.req = i
           /\ b = None => resp.kind # "stream" /\ (resp.kind = "file" => resp.len = 0)
           /\ b \in FileBody => resp.kind = "file" /\ b.left = resp.len
           /\ b \in StreamBody => resp.kind = "stream" /\ b.chunked = chunked
<1>1. resp.kind \in {"bytes", "file", "stream"} /\ resp.len \in Nat
  BY H1Assumption
<1>2. CASE resp.kind = "file" /\ resp.len > 0
  <2>1. b = [kind |-> "file", req |-> i, left |-> resp.len]
    BY <1>2 DEF BodySource
  <2>2. b \in FileBody /\ b.req = i /\ b.left = resp.len
    BY <2>1, <1>1, <1>2 DEF FileBody
  <2>. QED BY <2>2, <1>2, BodiesApart
<1>3. CASE resp.kind = "stream"
  <2>1. b = [kind |-> "stream", req |-> i, chunked |-> chunked]
    BY <1>3 DEF BodySource
  <2>2. b \in StreamBody /\ b.req = i /\ b.chunked = chunked
    BY <2>1 DEF StreamBody
  <2>. QED BY <2>2, <1>3, BodiesApart
<1>4. CASE ~(resp.kind = "file" /\ resp.len > 0) /\ resp.kind # "stream"
  <2>1. b = None
    BY <1>4 DEF BodySource
  <2>. QED BY <2>1, <1>1, <1>4, BodiesApart
<1>. QED BY <1>2, <1>3, <1>4

\* A head and the pieces at hand, put behind outbuf one after the other.
LEMMA HeadPlaced ==
    ASSUME outbuf \in Seq(AllFrames), NEW h \in AllFrames, NEW x \in AllFrames, NEW m \in Nat
    PROVE  /\ outbuf \o <<h>> \o Repeat(x, m) = Join(outbuf, Join(<<h>>, Repeat(x, m)))
           /\ outbuf \o <<h>> \o <<>> = Join(outbuf, Join(<<h>>, Repeat(x, 0)))
<1>1. <<h>> \in Seq(AllFrames)
  OBVIOUS
<1>2. \A n \in Nat : Repeat(x, n) \in Seq(AllFrames)
  BY Repeated
<1>. DEFINE d == <<h>>
<1>3. ASSUME NEW n \in Nat
      PROVE  outbuf \o d \o Repeat(x, n) = Join(outbuf, Join(d, Repeat(x, n)))
  <2>. DEFINE t == Repeat(x, n)
  <2>1. d \in Seq(AllFrames) /\ t \in Seq(AllFrames)
    BY <1>1, <1>2
  <2>. HIDE DEF d, t
  <2>2. Join(outbuf, Join(d, t)) = Join(Join(outbuf, d), t)
    BY <2>1, JoinAssociates
  <2>3. outbuf \o d \o t = Join(Join(outbuf, d), t)
    BY DEF Join
  <2>. QED BY <2>2, <2>3 DEF t
<1>4. Repeat(x, 0) = <<>>
  <2>. DEFINE t == Repeat(x, 0)
  <2>1. t \in Seq(AllFrames) /\ Len(t) = 0
    BY Repeated
  <2>. HIDE DEF t
  <2>2. t = <<>>
    BY <2>1
  <2>. QED BY <2>2 DEF t
<1>. QED BY <1>3, <1>4

\* run_handler and respond: each way the engine frames a response is one of the above,
\* with as many pieces to come as its head announces.
LEMMA HandleKeeps ==
    ASSUME IInv, Handle
    PROVE  IInv'
<1>1. Serving /\ UNCHANGED <<script, wire, fed, engine, out, failed, at, sent>>
  BY DEF Handle, peer
<1>2. PICK resp \in Responses : Respond(resp)
  BY DEF Handle
<1>. DEFINE i == pending
            x == Frame(i, "data")
            m == IF resp.kind = "bytes" THEN resp.len ELSE 0
<1>3. /\ pending # 0 /\ pending' = 0 /\ UNCHANGED <<taken, scanned, chunk, interim>>
      /\ IF resp.raw THEN SerializeRaw(i, resp) ELSE Serialize(i, resp)
  BY <1>2 DEF Respond
<1>4. /\ resp.kind \in {"bytes", "file", "stream"} /\ resp.len \in Nat
  BY H1Assumption
<1>5. i \in Nat /\ outbuf \in Seq(AllFrames) /\ m \in Nat /\ ~closed /\ closed \in BOOLEAN
  BY <1>3, <1>4 DEF IInv, Types, Turn
<1>6. InlineBody(i, resp) = Repeat(x, m)
  BY DEF InlineBody
<1>. HIDE DEF i, x, m
<1>7. ASSUME NEW mode \in Modes, NEW keep \in BOOLEAN, NEW n \in Nat,
             \/ n = m /\ outbuf' = outbuf \o <<HeadFrame(i, mode, resp.len, keep)>> \o Repeat(x, m)
             \/ n = 0 /\ outbuf' = outbuf \o <<HeadFrame(i, mode, resp.len, keep)>> \o <<>>
      PROVE  outbuf' = Join(outbuf, Join(<<HeadFrame(i, mode, resp.len, keep)>>, Repeat(x, n)))
  <2>. DEFINE h == HeadFrame(i, mode, resp.len, keep)
  <2>1. h \in AllFrames /\ x \in AllFrames
    BY <1>4, <1>5, <1>7, HeadFrames DEF x
  <2>. HIDE DEF h
  <2>2. /\ outbuf \o <<h>> \o Repeat(x, m) = Join(outbuf, Join(<<h>>, Repeat(x, m)))
        /\ outbuf \o <<h>> \o <<>> = Join(outbuf, Join(<<h>>, Repeat(x, 0)))
    BY <2>1, <1>5, HeadPlaced
  <2>3. \/ n = m /\ outbuf' = outbuf \o <<h>> \o Repeat(x, m)
        \/ n = 0 /\ outbuf' = outbuf \o <<h>> \o <<>>
    BY <1>7 DEF h
  <2>4. outbuf' = Join(outbuf, Join(<<h>>, Repeat(x, n)))
    BY <2>2, <2>3
  <2>. QED BY <2>4 DEF h
<1>8. CASE resp.raw
  <2>. DEFINE mode == "close"
              zero == 0
              no == FALSE
  <2>1. /\ outbuf' = outbuf \o <<HeadFrame(i, mode, zero, no)>> \o Repeat(x, m)
        /\ body' = BodySource(i, resp, no) /\ closed' = TRUE
    BY <1>3, <1>6, <1>8 DEF SerializeRaw
  <2>2. mode \in Modes /\ zero \in Nat /\ no \in BOOLEAN
    BY DEF Modes
  <2>. HIDE DEF zero, no
  <2>3. outbuf' = Join(outbuf, Join(<<HeadFrame(i, mode, zero, no)>>, Repeat(x, m)))
    <3>. DEFINE h == HeadFrame(i, mode, zero, no)
    <3>1. h \in AllFrames /\ x \in AllFrames
      BY <2>2, <1>5, HeadFrames DEF x
    <3>2. outbuf' = outbuf \o <<h>> \o Repeat(x, m)
      BY <2>1
    <3>. HIDE DEF h
    <3>3. outbuf' = Join(outbuf, Join(<<h>>, Repeat(x, m)))
      BY <3>1, <3>2, <1>5, HeadPlaced
    <3>. QED BY <3>3 DEF h
  <2>4. /\ body' \in {None} \cup FileBody \cup StreamBody
        /\ body' # None => body'.req = i
        /\ body' \in FileBody => mode \in {"close", "length"}
        /\ body' \in StreamBody => body'.chunked = no
    BY <2>1, <2>2, <1>5, BodySourceIs
  <2>5. Response(mode, zero, no, m)
    BY <2>1, <2>2, <2>3, <2>4, <1>1, <1>3, <1>5 DEF Response, i, x, no
  <2>. QED BY <2>5, <1>1, ResponseKeeps
<1>9. CASE ~resp.raw
  <2>. DEFINE req == script[i]
              omitBody == resp.bodyless \/ req.isHead
              chunked == resp.kind = "stream" /\ req.version = "1.1"
              closeDelimited == resp.kind = "stream" /\ ~chunked /\ ~omitBody
              keep == KeepAlive(req.version, req.fields) /\ ~closed /\ ~closeDelimited
              mode == CASE omitBody -> "none"
                        [] closeDelimited -> "close"
                        [] chunked /\ ~omitBody -> "chunked"
                        [] OTHER -> "length"
              n == IF omitBody THEN 0 ELSE m
  <2>1. /\ outbuf' = outbuf \o <<HeadFrame(i, mode, resp.len, keep)>>
                         \o (IF omitBody THEN <<>> ELSE Repeat(x, m))
        /\ body' = IF omitBody THEN None ELSE BodySource(i, resp, chunked)
        /\ closed' = (closed \/ ~keep)
    BY <1>3, <1>6, <1>9 DEF Serialize
  <2>2. keep \in BOOLEAN /\ chunked \in BOOLEAN
    OBVIOUS
  <2>3. /\ omitBody => mode = "none"
        /\ ~omitBody /\ resp.kind # "stream" => mode = "length"
        /\ ~omitBody /\ resp.kind = "stream" =>
              /\ chunked => mode = "chunked"
              /\ ~chunked => mode = "close" /\ ~keep
    OBVIOUS
  <2>. HIDE DEF keep, chunked, omitBody, mode
  <2>4. mode \in Modes
    BY <2>3 DEF Modes
  <2>5. /\ n \in Nat
        /\ omitBody => n = 0
        /\ ~omitBody => n = m
    BY <1>5
  <2>. HIDE DEF n
  <2>6. outbuf' = Join(outbuf, Join(<<HeadFrame(i, mode, resp.len, keep)>>, Repeat(x, n)))
    BY <2>1, <2>2, <2>4, <2>5, <1>7
  <2>7. /\ closed' \in BOOLEAN /\ (~closed' => keep)
        /\ ~keep => closed'
    BY <2>1, <2>2, <1>5
  <2>8. /\ body' \in {None} \cup FileBody \cup StreamBody
        /\ body' # None => body'.req = i /\ ~omitBody
        /\ body' = None => omitBody \/ (resp.kind # "stream" /\ (resp.kind = "file" => resp.len = 0))
        /\ body' \in FileBody => ~omitBody /\ resp.kind = "file" /\ body'.left = resp.len
        /\ body' \in StreamBody => ~omitBody /\ resp.kind = "stream" /\ body'.chunked = chunked
    <3>1. CASE omitBody
      <4>1. body' = None
        BY <2>1, <3>1
      <4>. QED BY <3>1, <4>1, BodiesApart
    <3>2. CASE ~omitBody
      <4>1. body' = BodySource(i, resp, chunked)
        BY <2>1, <3>2
      <4>2. i \in Nat /\ chunked \in BOOLEAN
        BY <1>5, <2>2
      <4>3. /\ body' \in {None} \cup FileBody \cup StreamBody
            /\ body' # None => body'.req = i
            /\ body' = None => resp.kind # "stream" /\ (resp.kind = "file" => resp.len = 0)
            /\ body' \in FileBody => resp.kind = "file" /\ body'.left = resp.len
            /\ body' \in StreamBody => resp.kind = "stream" /\ body'.chunked = chunked
        BY <4>1, <4>2, BodySourceIs
      <4>. QED BY <3>2, <4>3
    <3>. QED BY <3>1, <3>2
  <2>9. /\ resp.kind = "bytes" => m = resp.len
        /\ resp.kind # "bytes" => m = 0
    BY DEF m
  <2>10. /\ mode = "none" => n = 0
         /\ mode = "length" => n <= resp.len
         /\ mode = "close" => closed'
         /\ body' = None /\ ~closed' => mode = "none" \/ (mode = "length" /\ n = resp.len)
    BY <2>3, <2>5, <2>7, <2>8, <2>9, <1>4
  <2>11. /\ body' \in FileBody =>
                /\ mode \in {"close", "length"}
                /\ mode = "length" => n + body'.left = resp.len
         /\ body' \in StreamBody => IF body'.chunked THEN mode = "chunked" ELSE mode = "close"
    <3>1. body' \in FileBody => mode = "length" /\ n = 0 /\ body'.left = resp.len
      BY <2>3, <2>5, <2>8, <2>9
    <3>. QED BY <3>1, <2>3, <2>8, <1>4
  <2>12. Response(mode, resp.len, keep, n)
    BY <2>2, <2>4, <2>5, <2>6, <2>7, <2>8, <2>10, <2>11, <1>1, <1>3, <1>4 DEF Response, i, x
  <2>. QED BY <2>12, <1>1, ResponseKeeps
<1>. QED BY <1>8, <1>9

----------------------------------------------------------------------------
(* All steps, and what follows.                                             *)

\* Every step keeps the invariant.
LEMMA NextKeeps == IInv /\ [Next]_vars => IInv'
<1>. SUFFICES ASSUME IInv, [Next]_vars PROVE IInv'
  OBVIOUS
<1>1. CASE Loop
  BY <1>1, PollLaterKeeps, PollRefusedKeeps, PollMoreKeeps, PollRequestKeeps, HandleKeeps,
     StreamTickKeeps, CheckKeeps, FlushKeeps, FlushHandshakeKeeps, TakeMoreKeeps, WriteKeeps,
     AfterKeeps DEF Loop
<1>2. ASSUME NEW n \in 1..Len(wire), Read(n) PROVE IInv'
  BY <1>2, ReadKeeps
<1>3. CASE ReadBroken \/ ReadLost \/ WriteLost \/ Produce \/ ProducerEnds
  BY <1>3, ReadBrokenKeeps, ReadLostKeeps, WriteLostKeeps, ProduceKeeps
<1>4. CASE Terminated \/ UNCHANGED vars
  BY <1>4, StutterKeeps DEF Terminated
<1>. QED BY <1>1, <1>2, <1>3, <1>4 DEF Next

\* The inductive invariant of the connection: where each request is, that the request at
\* the front of inbuf is the first without an answer and the cursors point into it, and
\* that what was sent, what waits and what the engine still owes make whole responses.
THEOREM InvariantKept == Spec => []IInv
<1>. QED BY InitInvariant, NextKeeps, PTL DEF Spec

\* The cursors of the invariant are those of the type invariant.
LEMMA CursorsWithin == IInv => TypeOK
<1>. SUFFICES ASSUME IInv PROVE TypeOK
  OBVIOUS
<1>1. /\ fed \in 0..Len(wire) /\ taken \in Handshake..Len(wire)
      /\ {closed, interim, failed, engine} \subseteq BOOLEAN
      /\ at \in {"read", "serve", "check", "flush", "again", "append", "write", "after",
                 "closed", "lost"}
  BY DEF IInv, Types
<1>2. engine => taken <= fed /\ scanned \in 0..Buffered
  <2>1. fed \in Int /\ taken \in Int /\ scanned \in Nat
    BY H1Assumption DEF IInv, Types
  <2>2. engine => taken <= fed /\ scanned <= Buffered
    BY DEF IInv, Turn
  <2>. QED BY <2>1, <2>2 DEF Buffered
<1>3. Heads \in Nat /\ Done \in Nat /\ Len(script) \in Nat
  BY AllTyped DEF IInv, Types
<1>4. pending \in 0..Len(script)
  <2>1. pending # 0 => pending = Done
    BY DEF IInv, Turn, Done
  <2>. QED BY <2>1, <1>3 DEF IInv, Types, Cursor
<1>5. ASSUME chunk # None PROVE chunk + BodyStart <= Buffered
  <2>1. pending = 0 /\ body = None /\ ~closed /\ Done < Len(script)
    <3>1. pending = 0 /\ body = None /\ ~closed /\ Done # Len(script) /\ Done <= Len(script)
      BY <1>5 DEF IInv, Cursor
    <3>. QED BY <3>1, <1>3
  <2>2. Done = Heads
    BY <2>1, <1>3 DEF Done
  <2>. DEFINE i == Heads + 1
              r == script[i]
  <2>3. /\ chunk \in Nat /\ chunk <= r.body /\ scanned = r.size + TermLen - 1
        /\ r.size + TermLen + chunk <= Buffered
    BY <2>1, <2>2, <1>5 DEF IInv, Cursor, ScanWithin, Types
  <2>4. /\ r.size \in Nat /\ TermLen \in Nat /\ TermLen > 0 /\ fed \in Nat /\ taken \in Nat
    <3>1. r \in Requests
      <4>1. i \in 1..Len(script) /\ script \in Seq(Requests)
        BY <2>1, <2>2, <1>3 DEF IInv, Types
      <4>. QED BY <4>1
    <3>2. r.size \in Nat /\ TermLen \in Nat /\ TermLen > 0
      BY <3>1, H1Assumption, RequestsHaveSize DEF IsRequest
    <3>. QED BY <3>2, H1Assumption DEF IInv, Types
  <2>5. Fronts(i)
    <3>1. taken <= fed /\ Buffered # 0
      <4>. HIDE DEF r, i
      <4>1. Buffered = fed - taken
        BY DEF Buffered
      <4>. QED BY <4>1, <2>3, <2>4
    <3>2. ~NotNow
      BY <2>1 DEF NotNow
    <3>. QED BY <3>1, <3>2, InFront
  <2>. HIDE DEF i
  <2>6. BodyStart = r.size + TermLen
    <3>1. r.size + TermLen <= Buffered
      <4>. HIDE DEF r
      <4>1. Buffered \in Int
        BY <2>4 DEF Buffered
      <4>. QED BY <4>1, <2>3, <2>4
    <3>. QED BY <3>1, <2>5, HeadEndIs
  <2>. HIDE DEF r
  <2>. QED BY <2>3, <2>4, <2>6
<1>. QED BY <1>1, <1>2, <1>4, <1>5 DEF TypeOK

\* For any requests, responses, limits and cuts of the input, head_scanned and the chunk
\* decoder never point past what is buffered (poll_request, "MUST be reset to 0").
THEOREM TypesKept == Spec => []TypeOK
<1>. QED BY InvariantKept, CursorsWithin, PTL

\* What the client has is a beginning of what it will have.
LEMMA SentBegins ==
    ASSUME IInv
    PROVE  Begins(sent, All) /\ Intact(All) /\ InTime(All)
<1>1. sent \in Seq(AllFrames) /\ Join(out, outbuf) \in Seq(AllFrames)
  BY JoinAssociates DEF IInv, Types
<1>. DEFINE d == Join(out, outbuf)
<1>. HIDE DEF d
<1>2. Begins(sent, Join(sent, d))
  BY <1>1, JoinFrames DEF d
<1>3. All = Join(sent, d)
  BY DEF All, d
<1>. QED BY <1>2, <1>3 DEF IInv, Owes

\* For any requests, responses, limits and cuts of the input, the n-th head the client
\* reads answers its n-th request, each response is framed as its head announces, and no
\* other follows one that is cut or that ends the connection (poll_request, respond and
\* take_out: responses must not interleave).
THEOREM ResponsesStayIntact == Spec => []ResponsesIntact
<1>1. IInv => ResponsesIntact
  <2>1. IInv => Intact(sent)
    BY SentBegins, IntactSoFar
  <2>. QED BY <2>1 DEF Intact, ResponsesIntact
<1>. QED BY <1>1, InvariantKept, PTL

\* For any requests and cuts of the input, 100 Continue is sent at most once for a
\* request and never after its answer (maybe_send_continue).
THEOREM ContinuesInTime == Spec => []ContinueInTime
<1>1. IInv => ContinueInTime
  <2>1. IInv => InTime(sent)
    BY SentBegins, InTimeSoFar
  <2>. QED BY <2>1 DEF InTime, ContinueInTime
<1>. QED BY <1>1, InvariantKept, PTL

=================================================================================
