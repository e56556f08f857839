---------------------------- MODULE ChainProofs -----------------------------
(***************************************************************************)
(* Theorems about module Chain.                                            *)
(*                                                                         *)
(* The argument: every stage of the chain stands where one call for all    *)
(* the samples since the last Reset would have left it (Streams).  For the *)
(* filters that is theorem ExactStream of OverlapSaveProofs, for the noise *)
(* reducer lemma ReducerStep: after n samples its buffers hold what the    *)
(* windows that fit into n samples leave (InReducer).  So a block puts out *)
(* the samples that come next (SoundIs), and what the gate and the encoder *)
(* do to them is a matter of cutting pieces from the front of a buffer     *)
(* (EncodeStep, GateInv).                                                  *)
(*                                                                         *)
(* What the recursive functions of AnalyseAll and FlattenSeq compute is    *)
(* shown by the least argument for which it would be wrong (Least).        *)
(***************************************************************************)
EXTENDS Chain, OverlapSaveProofs, SequenceTheorems, WellFoundedInduction, TLAPS

-----------------------------------------------------------------------------
(* Numbers.                                                                *)

(* A set of naturals that is not empty has a least element.                *)
Below == {e \in Nat \X Nat : e[1] < e[2]}

LEMMA Least ==
  ASSUME NEW S \in SUBSET Nat, S # {}
  PROVE  \E n \in S : \A m \in S : n <= m
<1>1. IsWellFoundedOn(Below, Nat)
  BY NatLessThanWellFounded DEF OpToRel, Below
<1>2. \E n \in S : \A m \in S : ~(<<m, n>> \in Below)
  BY <1>1, WFMin
<1>3. ASSUME NEW n \in S, NEW m \in S, m < n PROVE <<m, n>> \in Below
  BY <1>3 DEF Below
<1>4. \A n \in S, m \in S : ~(m < n) => n <= m
  BY SMT
<1>5. QED
  BY <1>2, <1>3, <1>4, Zenon

LEMMA MinOf ==
  ASSUME NEW S \in SUBSET Nat, S # {}
  PROVE  Min(S) \in S
<1>1. \E n \in S : \A m \in S : n <= m
  BY Least
<1>2. QED
  BY <1>1 DEF Min

(* Dividing twice.                                                         *)
LEMMA DivDiv ==
  ASSUME NEW n \in Nat, NEW a \in Nat \ {0}, NEW b \in Nat \ {0}
  PROVE  (n \div a) \div b = n \div (a * b)
<1>1. PICK q \in Nat, r \in Nat : q = n \div a /\ n = q * a + r /\ r < a
  BY DivMod, Zenon
<1>2. PICK p \in Nat, s \in Nat : p = q \div b /\ q = p * b + s /\ s < b
  BY DivMod, Zenon
<1>3. a * b \in Nat \ {0}
  OBVIOUS
<1>4. PICK u \in Nat, v \in Nat : u = n \div (a * b) /\ n = u * (a * b) + v /\ v < a * b
  BY <1>3, DivMod, Zenon
<1>5. n = p * (a * b) + (s * a + r)
  <2>1. (p * b + s) * a = p * (a * b) + s * a
    OBVIOUS
  <2>2. p * (a * b) \in Nat /\ s * a \in Nat
    OBVIOUS
  <2>3. q * a = p * (a * b) + s * a
    BY <1>2, <2>1
  <2>4. (p * (a * b) + s * a) + r = p * (a * b) + (s * a + r)
    BY <2>2
  <2>5. QED
    BY <1>1, <2>3, <2>4
<1>6. s * a + r \in Nat /\ s * a + r < a * b
  <2>1. (s + 1) * a <= b * a /\ (s + 1) * a = s * a + a /\ b * a = a * b
    BY <1>2
  <2>2. s * a \in Nat /\ a * b \in Nat
    OBVIOUS
  <2>3. QED
    BY <1>1, <2>1, <2>2
<1>7. u = p
  <2>1. PICK d \in Nat \ {0}, x \in Nat : d = a * b /\ x = s * a + r
    BY <1>3, <1>6
  <2>2. u * d + v = p * d + x /\ v < d /\ x < d
    BY <1>4, <1>5, <1>6, <2>1
  <2>3. QED
    BY <2>2, DivUnique
<1>8. QED
  BY <1>1, <1>2, <1>4, <1>7

(* Division rounds down.                                                   *)
LEMMA DivDown ==
  ASSUME NEW x \in Nat, NEW d \in Nat \ {0}
  PROVE  /\ x \div d \in Nat /\ (x \div d) * d \in Nat /\ (x \div d) * d <= x
         /\ x < (x \div d) * d + d
<1>1. PICK q \in Nat, r \in Nat : q = x \div d /\ x = q * d + r /\ r < d
  BY DivMod, Zenon
<1>2. q * d \in Nat
  OBVIOUS
<1>3. q * d <= x /\ x < q * d + d
  BY <1>1, <1>2
<1>4. QED
  BY <1>1, <1>2, <1>3

LEMMA DivIs ==
  ASSUME NEW x \in Nat, NEW d \in Nat \ {0}, NEW q \in Nat, q * d <= x, x < (q + 1) * d
  PROVE  x \div d = q
<1>1. PICK p \in Nat, r \in Nat : p = x \div d /\ x = p * d + r /\ r < d
  BY DivMod, Zenon
<1>2. q * d \in Nat /\ (q + 1) * d = q * d + d
  OBVIOUS
<1>3. PICK s \in Nat : s = x - q * d
  <2>1. x - q * d \in Nat
    BY <1>2
  <2>2. QED
    BY <2>1, Zenon
<1>4. x = q * d + s /\ s < d
  BY <1>2, <1>3
<1>5. QED
  BY <1>1, <1>4, DivUnique

(* Products order as their factors do.                                     *)
LEMMA TimesLess ==
  ASSUME NEW d \in Nat \ {0}, NEW q \in Nat, NEW p \in Nat
  PROVE  /\ q * d \in Nat /\ p * d \in Nat
         /\ q * d <= p * d <=> q <= p
         /\ q < p => q * d + d <= p * d
<1>1. q * d \in Nat /\ p * d \in Nat
  OBVIOUS
<1>2. q <= p => q * d <= p * d
  OBVIOUS
<1>3. ASSUME NEW x \in Nat, NEW y \in Nat, x < y PROVE x * d + d <= y * d
  <2>1. (x + 1) * d <= y * d /\ (x + 1) * d = x * d + d
    BY <1>3
  <2>2. QED
    BY <2>1
<1>4. ~(q <= p) => ~(q * d <= p * d)
  <2>1. ~(q <= p) => p * d + d <= q * d
    BY <1>3
  <2>2. QED
    BY <1>1, <2>1
<1>5. QED
  BY <1>1, <1>2, <1>3, <1>4

-----------------------------------------------------------------------------
(* buildDSPChain always finds a decimation: both are whole, at least 1, and *)
(* together they are the total.                                            *)
LEMMA Decimations ==
  ASSUME NEW m \in Modes
  PROVE  /\ XlatDecim[m] \in Nat \ {0} /\ AudioDecim[m] \in Nat \ {0}
         /\ TotalDecim[m] \in Nat \ {0}
         /\ XlatDecim[m] * AudioDecim[m] = TotalDecim[m]
<1> DEFINE T == TotalDecim[m]
           A == AudioRate[m]
           B == ChannelBandwidth[m]
           M == MinXlatDecim[m]
           S == {d \in M .. T : T % d = 0}
<1>1. /\ sampleRate \in Nat \ {0} /\ A \in Nat \ {0} /\ B \in Nat \ {0}
      /\ sampleRate % A = 0 /\ A <= 2 * B
  BY RateAssumption
<1>2. T = sampleRate \div A /\ M = Max({1, sampleRate \div (B * 2)})
  BY DEF TotalDecim, MinXlatDecim
<1> HIDE DEF A, B, T, M
<1>3. T \in Nat \ {0} /\ sampleRate = T * A
  <2>1. PICK q \in Nat, r \in Nat : q = sampleRate \div A /\ r = sampleRate % A
                                     /\ sampleRate = q * A + r
    <3>1. sampleRate \in Nat /\ A \in Nat \ {0}
      BY <1>1
    <3>2. /\ sampleRate \div A \in Nat /\ sampleRate % A \in Nat
          /\ sampleRate = (sampleRate \div A) * A + (sampleRate % A)
      BY <3>1, DivMod, Zenon
    <3>3. QED
      BY <3>2, Zenon
  <2>2. r = 0 /\ q = T
    BY <1>1, <1>2, <2>1
  <2>3. q * A \in Nat
    BY <1>1
  <2>4. sampleRate = q * A
    BY <2>1, <2>2, <2>3
  <2>5. q # 0
    BY <1>1, <2>4
  <2>6. QED
    BY <2>2, <2>4, <2>5
<1>4. PICK q \in Nat : q = sampleRate \div (B * 2) /\ q <= T
  <2>1. B * 2 \in Nat \ {0}
    BY <1>1
  <2>2. PICK q \in Nat : q = sampleRate \div (B * 2) /\ q * (B * 2) <= sampleRate
    BY <1>1, <2>1, DivDown, Zenon
  <2>3. q * A <= q * (B * 2) /\ q * A \in Nat /\ q * (B * 2) \in Nat
    <3>1. A <= B * 2
      BY <1>1
    <3>2. PICK c \in Nat : c = B * 2
      BY <2>1
    <3>3. q * A <= q * c
      BY <1>1, <3>1, <3>2
    <3>4. QED
      BY <1>1, <2>1, <3>2, <3>3
  <2>4. q * A <= T * A
    BY <1>3, <2>2, <2>3
  <2>5. q <= T
    BY <1>1, <1>3, <2>4, TimesLess
  <2>6. QED
    BY <2>2, <2>5
<1>5. M \in Nat \ {0} /\ M <= T
  <2>1. M \in {1, q} /\ M >= 1
    <3>1. \E x \in {1, q} : \A y \in {1, q} : x >= y
      OBVIOUS
    <3>2. Max({1, q}) \in {1, q} /\ \A y \in {1, q} : Max({1, q}) >= y
      BY <3>1 DEF Max
    <3>3. QED
      BY <1>2, <1>4, <3>2
  <2>2. QED
    BY <1>3, <1>4, <2>1
<1>6. T \in S
  <2>1. T % T = 0
    BY <1>3
  <2>2. QED
    BY <1>3, <1>5, <2>1
<1>7. S \in SUBSET Nat
  BY <1>3, <1>5
<1>8. XlatDecim[m] = Min(S)
  BY DEF XlatDecim, T, M
<1>9. Min(S) \in S
  BY <1>6, <1>7, MinOf
<1>10. PICK d \in Nat \ {0} : d = XlatDecim[m] /\ T % d = 0 /\ d <= T
  <2>1. PICK d \in S : d = Min(S)
    BY <1>9, Zenon
  <2>2. d \in Nat \ {0} /\ T % d = 0 /\ d <= T
    BY <1>3, <1>5
  <2>3. QED
    BY <1>8, <2>1, <2>2, Zenon
<1>11. PICK a \in Nat, r \in Nat : a = T \div d /\ r = T % d /\ T = a * d + r
  <2>1. T \in Nat
    BY <1>3
  <2>2. QED
    BY <2>1, DivMod, Zenon
<1>12. T = a * d
  <2>1. a * d \in Nat
    OBVIOUS
  <2>2. QED
    BY <1>10, <1>11, <2>1
<1>13. a # 0 /\ a = AudioDecim[m]
  <2>1. a # 0
    BY <1>3, <1>12
  <2>2. AudioDecim[m] = T \div d
    BY <1>10 DEF AudioDecim, T
  <2>3. QED
    BY <1>11, <2>1, <2>2
<1>14. d * a = a * d
  OBVIOUS
<1>15. QED
  BY <1>3, <1>10, <1>12, <1>13, <1>14 DEF T

-----------------------------------------------------------------------------
(* Pieces of a stream.                                                     *)
LEMMA Taken == {xlatTaps, audioTaps, voiceTaps, hop, frameSize} \subseteq Nat \ {0}
BY TapAssumption

LEMMA FollowsIs ==
  ASSUME NEW s, NEW n \in Nat, NEW stride \in Nat \ {0}, Follows(s, n, stride)
  PROVE  s = [i \in 1 .. Len(s) |-> (n + i) * stride] /\ Len(s) \in Nat
BY DEF Follows

LEMMA IsFollows ==
  ASSUME NEW l \in Nat, NEW n \in Nat, NEW stride \in Nat \ {0}
  PROVE  LET s == [i \in 1 .. l |-> (n + i) * stride]
         IN  Follows(s, n, stride) /\ Len(s) = l
<1> DEFINE s == [i \in 1 .. l |-> (n + i) * stride]
<1>1. ASSUME NEW i \in 1 .. l PROVE (n + i) * stride \in Nat
  <2>1. n + i \in Nat
    OBVIOUS
  <2>2. QED
    BY <2>1
<1>2. s \in Seq(Nat) /\ Len(s) = l
  BY <1>1
<1>3. QED
  BY <1>2 DEF Follows

LEMMA FollowsJoin ==
  ASSUME NEW s, NEW t, NEW n \in Nat, NEW stride \in Nat \ {0},
         Follows(s, n, stride), Follows(t, n + Len(s), stride)
  PROVE  Follows(s \o t, n, stride) /\ Len(s \o t) = Len(s) + Len(t)
<1>1. /\ s \in Seq(Nat) /\ t \in Seq(Nat) /\ Len(s) \in Nat /\ Len(t) \in Nat
      /\ \A i \in 1 .. Len(s) : s[i] = (n + i) * stride
      /\ \A i \in 1 .. Len(t) : t[i] = (n + Len(s) + i) * stride
  BY DEF Follows
<1>2. /\ s \o t \in Seq(Nat) /\ Len(s \o t) = Len(s) + Len(t)
      /\ \A i \in 1 .. Len(s) : (s \o t)[i] = s[i]
      /\ \A i \in 1 .. Len(t) : (s \o t)[Len(s) + i] = t[i]
  BY <1>1, Joined
<1>3. ASSUME NEW i \in 1 .. Len(s) + Len(t) PROVE (s \o t)[i] = (n + i) * stride
  <2>1. CASE i <= Len(s)
    BY <1>1, <1>2, <2>1
  <2>2. CASE i > Len(s)
    <3>1. PICK j \in 1 .. Len(t) : i = Len(s) + j
      <4>1. i - Len(s) \in 1 .. Len(t) /\ i = Len(s) + (i - Len(s))
        BY <1>1, <2>2
      <4>2. QED
        BY <4>1
    <3>2. n + Len(s) + j = n + i
      BY <1>1, <3>1
    <3>3. QED
      BY <1>1, <1>2, <3>1, <3>2
  <2>3. QED
    BY <1>1, <2>1, <2>2
<1>4. QED
  BY <1>2, <1>3 DEF Follows

-----------------------------------------------------------------------------
(* The noise reducer.  Of n samples it has analysed this many windows:     *)
Heard(n) == IF n < fftSize THEN 0 ELSE (n - fftSize) \div hop + 1

LEMMA HopIs == hop \in Nat \ {0} /\ fftSize = 2 * hop /\ frameSize \in Nat \ {0}
BY Taken DEF fftSize

LEMMA HeardIs ==
  ASSUME NEW n \in Nat
  PROVE  /\ Heard(n) \in Nat /\ Heard(n) * hop \in Nat /\ Heard(n) * hop <= n
         /\ n < Heard(n) * hop + 2 * hop
         /\ Heard(n) > 0 => Heard(n) * hop + hop <= n
<1>1. CASE n < fftSize
  <2>1. Heard(n) = 0 /\ 0 * hop = 0
    BY <1>1, HopIs DEF Heard
  <2>2. QED
    BY <1>1, <2>1, HopIs
<1>2. CASE ~(n < fftSize)
  <2>1. PICK x \in Nat : x = n - fftSize
    <3>1. n - fftSize \in Nat
      BY <1>2, HopIs
    <3>2. QED
      BY <3>1, Zenon
  <2>2. PICK q \in Nat : q = x \div hop /\ q * hop \in Nat /\ q * hop <= x /\ x < q * hop + hop
    BY HopIs, DivDown, Zenon
  <2>3. Heard(n) = q + 1
    BY <1>2, <2>1, <2>2 DEF Heard
  <2>4. (q + 1) * hop = q * hop + hop
    BY HopIs
  <2>5. PICK Q \in Nat : Q = q * hop
    BY <2>2, Zenon
  <2>6. Q <= x /\ x < Q + hop /\ Heard(n) * hop = Q + hop
    BY <2>2, <2>3, <2>4, <2>5
  <2>7. n = x + 2 * hop
    BY <2>1, HopIs
  <2>8. QED
    BY <2>3, <2>6, <2>7, HopIs
<1>3. QED
  BY <1>1, <1>2

LEMMA HeardUnique ==
  ASSUME NEW n \in Nat, NEW h \in Nat, n < h * hop + 2 * hop, h > 0 => h * hop + hop <= n
  PROVE  Heard(n) = h
<1>1. CASE h = 0
  <2>1. 0 * hop = 0
    BY HopIs
  <2>2. n < fftSize
    BY <1>1, <2>1, HopIs
  <2>3. QED
    BY <1>1, <2>2 DEF Heard
<1>2. CASE h > 0
  <2>1. PICK g \in Nat : h = g + 1
    <3>1. h - 1 \in Nat /\ h = (h - 1) + 1
      BY <1>2
    <3>2. QED
      BY <3>1
  <2>2. PICK G \in Nat : G = g * hop
    BY HopIs
  <2>3. h * hop = G + hop
    BY <2>1, <2>2, HopIs
  <2>4. G + 2 * hop <= n /\ n < G + 3 * hop
    BY <1>2, <2>3, HopIs
  <2>5. PICK x \in Nat : x = n - fftSize
    <3>1. n - fftSize \in Nat
      BY <2>4, HopIs
    <3>2. QED
      BY <3>1, Zenon
  <2>6. G <= x /\ x < G + hop
    BY <2>4, <2>5, HopIs
  <2>7. (g + 1) * hop = G + hop
    BY <2>2, HopIs
  <2>8. x \div hop = g
    BY <2>2, <2>6, <2>7, HopIs, DivIs
  <2>9. ~(n < fftSize)
    BY <2>4, HopIs
  <2>10. QED
    BY <2>1, <2>5, <2>8, <2>9 DEF Heard
<1>3. QED
  BY <1>1, <1>2

(* What lies in the output buffer at place i when k windows were analysed  *)
(* after the first h: the sample of that place once, or twice if complete. *)
Parts(h, k, i, stride) ==
  LET x == (h * hop + i) * stride
  IN  IF i <= k * hop /\ h * hop + i > hop THEN <<x, x>> ELSE <<x>>

AfterWindows(h, b, k, stride) ==
  [inBuf |-> [i \in 1 .. b - k * hop |-> (h * hop + k * hop + i) * stride],
   outBuf |-> IF h + k = 0 THEN <<>>
              ELSE [i \in 1 .. k * hop + hop |-> Parts(h, k, i, stride)],
   ready |-> k * hop]

LEMMA AppendOne == \A x : Append(<<x>>, x) = <<x, x>>
<1> SUFFICES ASSUME NEW x PROVE Append(<<x>>, x) = <<x, x>>
  OBVIOUS
<1>1. <<x>> \in Seq({x}) /\ Len(<<x>>) = 1 /\ <<x>>[1] = x
  OBVIOUS
<1>2. /\ Append(<<x>>, x) \in Seq({x}) /\ Len(Append(<<x>>, x)) = 2
      /\ Append(<<x>>, x)[1] = x /\ Append(<<x>>, x)[2] = x
  BY <1>1, AppendProperties
<1>3. Append(<<x>>, x) = [i \in 1 .. 2 |-> x]
  BY <1>2
<1>4. <<x, x>> = [i \in 1 .. 2 |-> x]
  OBVIOUS
<1>5. QED
  BY <1>3, <1>4

LEMMA AnalyseOnce ==
  ASSUME NEW h \in Nat, NEW b \in Nat, NEW k \in Nat, NEW stride \in Nat \ {0},
         k * hop + 2 * hop <= b
  PROVE  Analyse(AfterWindows(h, b, k, stride)) = AfterWindows(h, b, k + 1, stride)
<1> DEFINE state == AfterWindows(h, b, k, stride)
           next == AfterWindows(h, b, k + 1, stride)
<1>1. PICK H \in Nat, K \in Nat : H = h * hop /\ K = k * hop
  BY HopIs
<1>2. (k + 1) * hop = K + hop /\ k + 1 \in Nat
  BY <1>1, HopIs
<1>3. K + 2 * hop <= b /\ b - K \in Nat /\ b - (K + hop) \in Nat
  BY <1>1, HopIs
<1>4. /\ state.inBuf = [i \in 1 .. b - K |-> (H + K + i) * stride]
      /\ state.outBuf = IF h + k = 0 THEN <<>>
                        ELSE [i \in 1 .. K + hop |-> Parts(h, k, i, stride)]
      /\ state.ready = K
  BY <1>1 DEF AfterWindows
<1>5. next = [inBuf |-> [i \in 1 .. b - (K + hop) |-> (H + (K + hop) + i) * stride],
              outBuf |-> [i \in 1 .. K + hop + hop |-> Parts(h, k + 1, i, stride)],
              ready |-> K + hop]
  <2>1. h + (k + 1) # 0
    OBVIOUS
  <2>2. QED
    BY <1>1, <1>2, <2>1 DEF AfterWindows
<1> HIDE DEF state, next
<1>6. Len(state.inBuf) = b - K
  BY <1>3, <1>4
<1>7. SubSeq(state.inBuf, hop + 1, Len(state.inBuf))
        = [i \in 1 .. b - (K + hop) |-> (H + (K + hop) + i) * stride]
  <2>1. 1 + (b - K) - (hop + 1) = b - (K + hop)
    BY <1>3, HopIs
  <2>2. SubSeq(state.inBuf, hop + 1, b - K)
          = [i \in 1 .. b - (K + hop) |-> state.inBuf[i + (hop + 1) - 1]]
    <3>1. PICK l \in Nat, m \in Nat, z \in Nat :
            l = b - K /\ m = hop + 1 /\ z = b - (K + hop) /\ 1 + l - m = z
      BY <1>3, <2>1, HopIs
    <3>2. PICK s : s = state.inBuf
      OBVIOUS
    <3>3. 1 + l - m = z
      BY <3>1
    <3>4. SubSeq(s, m, l) = [i \in 1 .. z |-> s[i + m - 1]]
      BY <3>3
    <3>5. QED
      BY <3>1, <3>2, <3>4
  <2>3. ASSUME NEW i \in 1 .. b - (K + hop)
        PROVE  state.inBuf[i + (hop + 1) - 1] = (H + (K + hop) + i) * stride
    <3>1. PICK e \in 1 .. b - K : e = i + (hop + 1) - 1 /\ H + K + e = H + (K + hop) + i
      <4>1. /\ i + (hop + 1) - 1 \in 1 .. b - K
            /\ H + K + (i + (hop + 1) - 1) = H + (K + hop) + i
        BY <1>3, HopIs
      <4>2. QED
        BY <4>1
    <3>2. state.inBuf[e] = (H + K + e) * stride
      BY <1>4
    <3>3. QED
      BY <3>1, <3>2
  <2>4. QED
    BY <1>6, <2>2, <2>3
<1> DEFINE out == state.outBuf
           buf == Grown(out)
<1>8. Len(out) = IF h + k = 0 THEN 0 ELSE K + hop
  <2>1. K + hop \in Nat
    BY HopIs
  <2>2. QED
    BY <1>4, <2>1
<1>9. buf = [i \in 1 .. K + hop + hop |-> IF i <= Len(out) THEN out[i] ELSE <<>>]
  <2>1. h + k = 0 => K = 0
    BY <1>1, HopIs
  <2>2. (IF Len(out) + hop < fftSize THEN fftSize ELSE Len(out) + hop) = K + hop + hop
    BY <1>8, <2>1, HopIs
  <2>3. QED
    BY <2>2 DEF Grown
<1> HIDE DEF out, buf
<1>10. DOMAIN buf = 1 .. K + hop + hop /\ Len(buf) = K + hop + hop /\ Len(buf) - fftSize = K
  <2>1. K + hop + hop \in Nat /\ K + hop + hop - fftSize = K
    BY HopIs
  <2>2. DOMAIN buf = 1 .. K + hop + hop
    BY <1>9
  <2>3. Len(buf) = K + hop + hop
    BY <1>9, <2>1
  <2>4. Len(buf) - fftSize = K
    BY <2>3, HopIs
  <2>5. QED
    BY <2>2, <2>3, <2>4, Zenon
<1>11. ASSUME NEW i \in 1 .. K + hop + hop
       PROVE  (IF i > K THEN Append(buf[i], state.inBuf[i - K]) ELSE buf[i])
                = Parts(h, k + 1, i, stride)
  <2> DEFINE x == (H + i) * stride
  <2>1. /\ Parts(h, k, i, stride) = IF i <= K /\ H + i > hop THEN <<x, x>> ELSE <<x>>
        /\ Parts(h, k + 1, i, stride)
             = IF i <= K + hop /\ H + i > hop THEN <<x, x>> ELSE <<x>>
    BY <1>1, <1>2 DEF Parts
  <2>2. buf[i] = IF i <= Len(out) THEN out[i] ELSE <<>>
    BY <1>9
  <2>3. i > K => state.inBuf[i - K] = x
    <3> SUFFICES ASSUME i > K PROVE state.inBuf[i - K] = x
      OBVIOUS
    <3>1. PICK e \in 1 .. b - K : e = i - K /\ H + K + e = H + i
      <4>1. i - K \in 1 .. b - K /\ H + K + (i - K) = H + i
        BY <1>3, HopIs
      <4>2. QED
        BY <4>1
    <3>2. state.inBuf[e] = (H + K + e) * stride
      BY <1>4
    <3>3. QED
      BY <3>1, <3>2
  <2> HIDE DEF x
  <2>4. CASE i <= K
    <3>1. h + k # 0
      <4>1. h + k = 0 => K = 0
        BY <1>1, HopIs
      <4>2. QED
        BY <2>4, <4>1
    <3>2. buf[i] = Parts(h, k, i, stride)
      <4>1. i <= Len(out) /\ i \in 1 .. K + hop
        BY <1>8, <2>4, <3>1, HopIs
      <4>2. QED
        BY <1>4, <2>2, <3>1, <4>1 DEF out
    <3>3. i <= K + hop /\ ~(i > K)
      BY <2>4, HopIs
    <3>4. QED
      BY <2>1, <2>4, <3>2, <3>3
  <2>5. CASE i > K /\ i <= K + hop
    <3>1. CASE h + k = 0
      <4>1. H = 0 /\ K = 0
        BY <1>1, <3>1, HopIs
      <4>2. ~(H + i > hop) /\ ~(i <= Len(out))
        BY <1>8, <2>5, <3>1, <4>1, HopIs
      <4>3. buf[i] = <<>>
        BY <2>2, <4>2
      <4>4. Append(<<>>, x) = <<x>>
        OBVIOUS
      <4>5. QED
        BY <2>1, <2>3, <2>5, <4>2, <4>3, <4>4
    <3>2. CASE h + k # 0
      <4>1. H + i > hop
        <5>1. H >= hop \/ K >= hop
          <6>1. h >= 1 => h * hop >= hop
            BY HopIs
          <6>2. k >= 1 => k * hop >= hop
            BY HopIs
          <6>3. QED
            BY <1>1, <3>2, <6>1, <6>2
        <5>2. QED
          BY <2>5, <5>1, HopIs
      <4>2. out[i] = Parts(h, k, i, stride) /\ i <= Len(out)
        <5>1. i \in 1 .. K + hop
          BY <2>5
        <5>2. out = [j \in 1 .. K + hop |-> Parts(h, k, j, stride)]
          BY <1>4, <3>2 DEF out
        <5>3. Len(out) = K + hop
          BY <1>8, <3>2
        <5>4. QED
          BY <2>5, <5>1, <5>2, <5>3
      <4>3. Parts(h, k, i, stride) = <<x>>
        BY <2>1, <2>5
      <4>4. Append(<<x>>, x) = <<x, x>>
        BY AppendOne
      <4>5. buf[i] = <<x>>
        BY <2>2, <4>2, <4>3
      <4>6. QED
        BY <2>1, <2>3, <2>5, <4>1, <4>4, <4>5
    <3>3. QED
      BY <3>1, <3>2
  <2>6. CASE i > K + hop
    <3>1. i > K /\ ~(i <= Len(out)) /\ ~(i <= K + hop)
      BY <1>8, <2>6, HopIs
    <3>2. Append(<<>>, x) = <<x>>
      OBVIOUS
    <3>3. buf[i] = <<>>
      BY <2>2, <3>1
    <3>4. QED
      BY <2>1, <2>3, <3>1, <3>2, <3>3
  <2>7. QED
    BY <2>4, <2>5, <2>6, HopIs
<1>12. [i \in DOMAIN buf |-> IF i > K THEN Append(buf[i], state.inBuf[i - K]) ELSE buf[i]]
         = [i \in 1 .. K + hop + hop |-> Parts(h, k + 1, i, stride)]
  BY <1>10, <1>11
<1>13. Analyse(state) =
         [inBuf |-> SubSeq(state.inBuf, hop + 1, Len(state.inBuf)),
          outBuf |-> [i \in DOMAIN buf |->
                        IF i > K THEN Append(buf[i], state.inBuf[i - K]) ELSE buf[i]],
          ready |-> K + hop]
  BY <1>4, <1>10 DEF Analyse, buf, out
<1>14. Analyse(state) = next
  BY <1>5, <1>7, <1>12, <1>13
<1>15. QED
  BY <1>14 DEF state, next

(* The noise reducer after n samples of a stream.                          *)
InReducer(state, n, stride) ==
  /\ Follows(state.inBuf, Heard(n) * hop, stride)
  /\ Heard(n) * hop + Len(state.inBuf) = n
  /\ state.outBuf = IF Heard(n) = 0 THEN <<>>
                    ELSE [i \in 1 .. hop |-> <<(Heard(n) * hop + i) * stride>>]

(* The recursion of AnalyseAll.                                            *)
Recursion(after, w, first) ==
  after = [k \in 0 .. w |-> IF k = 0 THEN first ELSE Analyse(after[k - 1])]

LEMMA AnalyseAllRec ==
  ASSUME NEW in, NEW buf, buf = nr.inBuf \o in, NEW b \in Nat, Len(buf) = b
  PROVE  AnalyseAll(in) =
           (CHOOSE after :
              Recursion(after, Heard(b),
                        [inBuf |-> buf, outBuf |-> nr.outBuf, ready |-> 0]))[Heard(b)]
BY DEF AnalyseAll, Recursion, Heard

(* Windows are analysed one by one until too little is left for another.   *)
LEMMA RecursionIs ==
  ASSUME NEW h \in Nat, NEW b \in Nat, NEW stride \in Nat \ {0}
  PROVE  (CHOOSE after : Recursion(after, Heard(b), AfterWindows(h, b, 0, stride)))[Heard(b)]
           = AfterWindows(h, b, Heard(b), stride)
<1> DEFINE w == Heard(b)
           first == AfterWindows(h, b, 0, stride)
           f == [k \in 0 .. w |-> AfterWindows(h, b, k, stride)]
           g == CHOOSE after : Recursion(after, w, first)
<1>1. w \in Nat /\ w * hop \in Nat /\ w * hop <= b /\ (w > 0 => w * hop + hop <= b)
  BY HeardIs
<1> HIDE DEF w, first
<1>2. ASSUME NEW k \in 0 .. w, k # 0
      PROVE  AfterWindows(h, b, k, stride) = Analyse(AfterWindows(h, b, k - 1, stride))
  <2>1. PICK j \in Nat : j = k - 1 /\ k = j + 1 /\ j < w
    <3>1. k - 1 \in Nat /\ k = (k - 1) + 1 /\ k - 1 < w
      BY <1>1, <1>2
    <3>2. QED
      BY <3>1
  <2>2. j * hop + hop <= w * hop /\ j * hop \in Nat
    BY <1>1, <2>1, HopIs, TimesLess
  <2>3. j * hop + 2 * hop <= b
    <3>1. w * hop + hop <= b
      BY <1>1, <2>1
    <3>2. QED
      BY <1>1, <2>2, <3>1, HopIs
  <2>4. Analyse(AfterWindows(h, b, j, stride)) = AfterWindows(h, b, j + 1, stride)
    BY <2>3, AnalyseOnce
  <2>5. QED
    BY <2>1, <2>4
<1>3. Recursion(f, w, first)
  <2>1. ASSUME NEW k \in 0 .. w
        PROVE  f[k] = IF k = 0 THEN first ELSE Analyse(f[k - 1])
    <3>1. CASE k = 0
      BY <3>1 DEF first
    <3>2. CASE k # 0
      <4>1. k - 1 \in 0 .. w
        BY <1>1, <3>2
      <4>2. QED
        BY <1>2, <3>2, <4>1
    <3>3. QED
      BY <3>1, <3>2
  <2>2. f = [k \in 0 .. w |-> f[k]]
    OBVIOUS
  <2> HIDE DEF f
  <2>3. QED
    BY <2>1, <2>2 DEF Recursion
<1>4. Recursion(g, w, first)
  BY <1>3
<1> HIDE DEF g, f
<1>5. \A k \in 0 .. w : g[k] = f[k]
  <2> DEFINE Bad == {k \in 0 .. w : g[k] # f[k]}
  <2> SUFFICES ASSUME Bad # {} PROVE FALSE
    OBVIOUS
  <2>1. Bad \in SUBSET Nat
    BY <1>1
  <2>2. PICK k \in Bad : \A j \in Bad : k <= j
    BY <2>1, Least
  <2>3. k \in 0 .. w /\ g[k] # f[k]
    OBVIOUS
  <2>4. k # 0
    BY <1>3, <1>4, <2>3 DEF Recursion
  <2>5. g[k] = Analyse(g[k - 1]) /\ f[k] = Analyse(f[k - 1])
    BY <1>3, <1>4, <2>3, <2>4 DEF Recursion
  <2>6. k - 1 \in 0 .. w /\ ~(k <= k - 1)
    BY <1>1, <2>3, <2>4
  <2>7. k - 1 \notin Bad
    BY <2>2, <2>6
  <2>8. g[k - 1] = f[k - 1]
    BY <2>6, <2>7
  <2>9. QED
    BY <2>3, <2>5, <2>8
<1>6. w \in 0 .. w
  BY <1>1
<1>7. g[w] = f[w]
  BY <1>5, <1>6
<1>8. f[w] = AfterWindows(h, b, w, stride)
  BY <1>6 DEF f
<1>9. QED
  BY <1>7, <1>8 DEF g, w, first

LEMMA AnalyseAllIs ==
  ASSUME NEW n \in Nat, NEW stride \in Nat \ {0}, InReducer(nr, n, stride),
         NEW in, Follows(in, n, stride)
  PROVE  \E b \in Nat :
           /\ Heard(n) * hop + b = n + Len(in)
           /\ Heard(n + Len(in)) = Heard(n) + Heard(b)
           /\ AnalyseAll(in) = AfterWindows(Heard(n), b, Heard(b), stride)
<1> DEFINE buf == nr.inBuf \o in
           h == Heard(n)
           b == Len(buf)
           l == Len(in)
<1>1. /\ h \in Nat /\ h * hop \in Nat /\ h * hop <= n /\ n < h * hop + 2 * hop
      /\ h > 0 => h * hop + hop <= n
  BY HeardIs
<1>2. PICK H \in Nat : H = h * hop
  BY <1>1, Zenon
<1>3. /\ Follows(nr.inBuf, H, stride) /\ H + Len(nr.inBuf) = n
      /\ nr.outBuf = IF h = 0 THEN <<>> ELSE [i \in 1 .. hop |-> <<(H + i) * stride>>]
  BY <1>2 DEF InReducer
<1>4. Len(nr.inBuf) \in Nat /\ l \in Nat
  BY <1>3 DEF Follows
<1> HIDE DEF h, l
<1>5. Follows(buf, H, stride) /\ Len(buf) = Len(nr.inBuf) + l
  BY <1>3, FollowsJoin DEF l
<1> HIDE DEF buf, b
<1>6. b \in Nat /\ H + b = n + l /\ b >= n - H
  BY <1>3, <1>4, <1>5 DEF b
<1>7. buf = [i \in 1 .. b |-> (H + i) * stride]
  BY <1>5, FollowsIs DEF b
<1>8. [inBuf |-> buf, outBuf |-> nr.outBuf, ready |-> 0] = AfterWindows(h, b, 0, stride)
  <2>1. 0 * hop = 0
    BY HopIs
  <2>2. AfterWindows(h, b, 0, stride) =
          [inBuf |-> [i \in 1 .. b - 0 |-> (H + 0 + i) * stride],
           outBuf |-> IF h + 0 = 0 THEN <<>> ELSE [i \in 1 .. 0 + hop |-> Parts(h, 0, i, stride)],
           ready |-> 0]
    BY <1>2, <2>1 DEF AfterWindows
  <2>3. [i \in 1 .. b - 0 |-> (H + 0 + i) * stride] = buf
    <3>1. b - 0 = b /\ H + 0 = H
      BY <1>6
    <3>2. QED
      BY <1>7, <3>1
  <2>4. ASSUME NEW i \in 1 .. hop PROVE Parts(h, 0, i, stride) = <<(H + i) * stride>>
    <3>1. ~(i <= 0)
      BY HopIs
    <3>2. QED
      BY <1>2, <2>1, <3>1 DEF Parts
  <2>5. (IF h + 0 = 0 THEN <<>> ELSE [i \in 1 .. 0 + hop |-> Parts(h, 0, i, stride)])
          = nr.outBuf
    <3>1. h + 0 = h /\ 0 + hop = hop
      BY <1>1, HopIs
    <3>2. [i \in 1 .. hop |-> Parts(h, 0, i, stride)] = [i \in 1 .. hop |-> <<(H + i) * stride>>]
      BY <2>4
    <3>3. QED
      BY <1>3, <3>1, <3>2
  <2>6. QED
    BY <2>2, <2>3, <2>5
<1>9. AnalyseAll(in) = AfterWindows(h, b, Heard(b), stride)
  <2>1. AnalyseAll(in) =
          (CHOOSE after :
             Recursion(after, Heard(b),
                       [inBuf |-> buf, outBuf |-> nr.outBuf, ready |-> 0]))[Heard(b)]
    BY <1>6, AnalyseAllRec DEF buf, b
  <2>2. (CHOOSE after : Recursion(after, Heard(b), AfterWindows(h, b, 0, stride)))[Heard(b)]
          = AfterWindows(h, b, Heard(b), stride)
    BY <1>1, <1>6, RecursionIs
  <2>3. QED
    BY <1>8, <2>1, <2>2
<1>10. Heard(n + l) = h + Heard(b)
  <2>1. PICK w \in Nat : w = Heard(b)
    BY <1>6, HeardIs, Zenon
  <2>2. PICK W \in Nat : W = w * hop
    BY HopIs
  <2>3. /\ W <= b /\ b < W + 2 * hop /\ (w > 0 => W + hop <= b) /\ (w = 0 => W = 0)
    BY <1>6, <2>1, <2>2, HeardIs, HopIs
  <2>4. (h + w) * hop = H + W
    BY <1>1, <1>2, <2>2, HopIs
  <2>5. n + l < (h + w) * hop + 2 * hop
    BY <1>6, <2>3, <2>4, HopIs
  <2>6. h + w > 0 => (h + w) * hop + hop <= n + l
    <3>1. CASE w > 0
      BY <1>6, <2>3, <2>4, <3>1, HopIs
    <3>2. CASE w = 0 /\ h > 0
      <4>1. H + hop <= n
        BY <1>1, <1>2, <3>2
      <4>2. QED
        BY <1>4, <2>3, <2>4, <3>2, <4>1, HopIs
    <3>3. QED
      BY <1>1, <3>1, <3>2
  <2>7. n + l \in Nat /\ h + w \in Nat
    BY <1>1, <1>4
  <2>8. QED
    BY <2>1, <2>5, <2>6, <2>7, HeardUnique
<1>11. QED
  BY <1>2, <1>6, <1>9, <1>10 DEF h, l

(* What a block makes of the noise reducer, and what it puts out: the      *)
(* samples that were heard twice, or once at the very beginning.           *)
ReducerAfter(r) ==
  [inBuf |-> r.inBuf,
   outBuf |-> SubSeq(r.outBuf, r.ready + 1, Len(r.outBuf)),
   allocated |-> nr.allocated \/ r.ready > 0]

EmittedOf(r, stride) == [i \in 1 .. r.ready |-> Emitted(r.outBuf[i], stride)]

LEMMA ReducerStep ==
  ASSUME NEW n \in Nat, NEW stride \in Nat \ {0}, InReducer(nr, n, stride),
         NEW in, Follows(in, n, stride)
  PROVE  LET r == AnalyseAll(in)
             sound == EmittedOf(r, stride)
         IN  /\ InReducer(ReducerAfter(r), n + Len(in), stride)
             /\ Follows(sound, Heard(n) * hop, stride)
             /\ Len(sound) = r.ready /\ r.ready \in Nat /\ r.ready < Len(in) + hop
             /\ Heard(n) * hop + Len(sound) = Heard(n + Len(in)) * hop
             /\ Len(r.inBuf) \in Nat
<1> DEFINE r == AnalyseAll(in)
           h == Heard(n)
           l == Len(in)
           sound == EmittedOf(r, stride)
           next == ReducerAfter(r)
<1>1. PICK b \in Nat : /\ h * hop + b = n + l /\ Heard(n + l) = h + Heard(b)
                       /\ r = AfterWindows(h, b, Heard(b), stride)
  BY AnalyseAllIs
<1>2. /\ h \in Nat /\ h * hop \in Nat /\ h * hop <= n /\ n < h * hop + 2 * hop
  BY HeardIs
<1>3. l \in Nat
  BY DEF Follows
<1> HIDE DEF h, l, r, sound, next
<1>4. PICK H \in Nat, w \in Nat : H = h * hop /\ w = Heard(b)
  BY <1>1, <1>2, HeardIs, Zenon
<1>5. PICK W \in Nat : W = w * hop
  BY HopIs
<1>6. /\ W <= b /\ b < W + 2 * hop /\ (w > 0 => W + hop <= b) /\ (w = 0 => W = 0)
  <2>1. /\ Heard(b) * hop <= b /\ b < Heard(b) * hop + 2 * hop
        /\ Heard(b) > 0 => Heard(b) * hop + hop <= b
    BY HeardIs, Zenon
  <2>2. W <= b /\ b < W + 2 * hop /\ (w > 0 => W + hop <= b)
    BY <1>4, <1>5, <2>1, Zenon
  <2>3. w = 0 => W = 0
    BY <1>5, HopIs
  <2>4. QED
    BY <2>2, <2>3
<1>7. (h + w) * hop = H + W /\ H + b = n + l /\ Heard(n + l) = h + w
  BY <1>1, <1>2, <1>4, <1>5, HopIs
<1>8. /\ r.inBuf = [i \in 1 .. b - W |-> (H + W + i) * stride]
      /\ r.outBuf = IF h + w = 0 THEN <<>>
                    ELSE [i \in 1 .. W + hop |-> Parts(h, w, i, stride)]
      /\ r.ready = W
  BY <1>1, <1>4, <1>5 DEF AfterWindows
<1>9. W < l + hop
  <2>1. CASE w > 0
    <3>1. W + hop <= b /\ H + b = n + l /\ n < H + 2 * hop
      BY <1>2, <1>4, <1>6, <1>7, <2>1
    <3>2. QED
      BY <1>3, <3>1, HopIs
  <2>2. CASE w = 0
    BY <1>3, <1>6, <2>2, HopIs
  <2>3. QED
    BY <2>1, <2>2
<1>10. ASSUME NEW i \in 1 .. W PROVE Emitted(r.outBuf[i], stride) = (H + i) * stride
  <2> DEFINE x == (H + i) * stride
  <2>1. h + w # 0 /\ i \in 1 .. W + hop /\ i <= W
    BY <1>2, <1>6, HopIs
  <2>2. r.outBuf[i] = Parts(h, w, i, stride)
    BY <1>8, <2>1
  <2>3. Parts(h, w, i, stride) = IF H + i > hop THEN <<x, x>> ELSE <<x>>
    BY <1>4, <1>5, <2>1 DEF Parts
  <2>4. ~(H + i > hop) => x <= hop * stride
    <3>1. H + i \in Nat
      BY <2>1
    <3>2. ~(H + i > hop) => H + i <= hop
      BY <3>1, HopIs
    <3>3. H + i <= hop => (H + i) * stride <= hop * stride
      BY <3>1, HopIs, TimesLess
    <3>4. QED
      BY <3>2, <3>3
  <2> HIDE DEF x
  <2>5. CASE H + i > hop
    <3>1. r.outBuf[i] = <<x, x>>
      BY <2>2, <2>3, <2>5
    <3>2. Head(<<x, x>>) = x
      OBVIOUS
    <3>3. QED
      BY <3>1, <3>2 DEF Emitted, x
  <2>6. CASE ~(H + i > hop)
    <3>1. r.outBuf[i] = <<x>>
      BY <2>2, <2>3, <2>6
    <3>2. Head(<<x>>) = x
      OBVIOUS
    <3>3. QED
      BY <2>4, <2>6, <3>1, <3>2 DEF Emitted, x
  <2>7. QED
    BY <2>5, <2>6
<1>11. sound = [i \in 1 .. W |-> (H + i) * stride]
  BY <1>8, <1>10 DEF sound, EmittedOf
<1>12. Follows(sound, H, stride) /\ Len(sound) = W
  BY <1>11, IsFollows
<1>13. Follows(r.inBuf, H + W, stride) /\ Len(r.inBuf) = b - W
  <2>1. PICK d \in Nat, o \in Nat : d = b - W /\ o = H + W
    BY <1>6
  <2>2. r.inBuf = [i \in 1 .. d |-> (o + i) * stride]
    BY <1>8, <2>1
  <2>3. stride \in Nat \ {0}
    OBVIOUS
  <2>4. /\ Follows([i \in 1 .. d |-> (o + i) * stride], o, stride)
        /\ Len([i \in 1 .. d |-> (o + i) * stride]) = d
    BY <2>3, IsFollows
  <2>5. QED
    BY <2>1, <2>2, <2>4
<1>14. next.outBuf = IF h + w = 0 THEN <<>>
                     ELSE [i \in 1 .. hop |-> <<((H + W) + i) * stride>>]
  <2>1. next.outBuf = SubSeq(r.outBuf, W + 1, Len(r.outBuf))
    BY <1>8 DEF next, ReducerAfter
  <2>2. CASE h + w = 0
    <3>1. W = 0
      BY <1>2, <1>6, <2>2
    <3>2. r.outBuf = <<>>
      BY <1>8, <2>2
    <3>3. SubSeq(<<>>, 0 + 1, Len(<<>>)) = <<>>
      OBVIOUS
    <3>4. QED
      BY <2>1, <2>2, <3>1, <3>2, <3>3
  <2>3. CASE h + w # 0
    <3>1. PICK s : s = r.outBuf
      OBVIOUS
    <3>2. s = [i \in 1 .. W + hop |-> Parts(h, w, i, stride)] /\ W + hop \in Nat
      BY <1>8, <2>3, <3>1, HopIs
    <3>3. PICK z \in Nat : z = W + hop /\ Len(s) = z
      BY <3>2
    <3>4. 1 + z - (W + 1) = hop
      BY <3>3, HopIs
    <3>5. SubSeq(s, W + 1, z) = [i \in 1 .. hop |-> s[i + (W + 1) - 1]]
      BY <3>4
    <3>6. ASSUME NEW i \in 1 .. hop
          PROVE  s[i + (W + 1) - 1] = <<((H + W) + i) * stride>>
      <4>1. PICK e \in 1 .. W + hop : e = i + (W + 1) - 1 /\ ~(e <= W) /\ H + e = (H + W) + i
        <5>1. /\ i + (W + 1) - 1 \in 1 .. W + hop /\ ~(i + (W + 1) - 1 <= W)
              /\ H + (i + (W + 1) - 1) = (H + W) + i
          BY HopIs
        <5>2. QED
          BY <5>1
      <4>2. s[e] = Parts(h, w, e, stride)
        BY <3>2
      <4>3. Parts(h, w, e, stride) = <<(H + e) * stride>>
        BY <1>4, <1>5, <4>1 DEF Parts
      <4>4. QED
        BY <4>1, <4>2, <4>3
    <3>7. SubSeq(s, W + 1, z) = [i \in 1 .. hop |-> <<((H + W) + i) * stride>>]
      BY <3>5, <3>6
    <3>8. QED
      BY <2>1, <2>3, <3>1, <3>3, <3>7
  <2>4. QED
    BY <2>2, <2>3
<1>15. next.inBuf = r.inBuf
  BY DEF next, ReducerAfter
<1>16. InReducer(next, n + l, stride)
  <2>1. H + W + (b - W) = n + l
    BY <1>3, <1>6, <1>7
  <2>2. QED
    BY <1>7, <1>13, <1>14, <1>15, <2>1 DEF InReducer
<1>17. Len(r.inBuf) \in Nat
  BY <1>6, <1>13
<1>18. QED
  BY <1>4, <1>7, <1>8, <1>9, <1>12, <1>16, <1>17 DEF r, h, l, sound, next

-----------------------------------------------------------------------------
(* A chain in the middle of a stream: every stage has taken all that the   *)
(* stages before it made of the first f raw samples.                       *)
Streams(m, f, x, a, v, r) ==
  /\ m \in Modes /\ f \in Nat
  /\ InStream(x, xlatTaps, f, XlatDecim[m], 1)
  /\ InStream(a, audioTaps, f \div XlatDecim[m], AudioDecim[m], XlatDecim[m])
  /\ IF m = "FM" THEN v = FreshStage(voiceTaps) /\ r.inBuf = <<>> /\ r.outBuf = <<>>
     ELSE /\ InStream(v, voiceTaps, f \div TotalDecim[m], 1, TotalDecim[m])
          /\ InReducer(r, f \div TotalDecim[m], TotalDecim[m])

(* Audio samples put out so far.                                           *)
OutAt(m, f) ==
  IF m = "FM" THEN f \div TotalDecim[m] ELSE Heard(f \div TotalDecim[m]) * hop

LEMMA FreshStreams ==
  ASSUME NEW m \in Modes, NEW r, r.inBuf = <<>>, r.outBuf = <<>>
  PROVE  /\ Streams(m, 0, FreshStage(xlatTaps), FreshStage(audioTaps),
                    FreshStage(voiceTaps), r)
         /\ OutAt(m, 0) = 0
<1>1. /\ xlatTaps \in Nat \ {0} /\ audioTaps \in Nat \ {0} /\ voiceTaps \in Nat \ {0}
      /\ hop \in Nat \ {0} /\ 1 \in Nat \ {0}
  BY Taken
<1>2. PICK X \in Nat \ {0}, A \in Nat \ {0}, T \in Nat \ {0} :
        X = XlatDecim[m] /\ A = AudioDecim[m] /\ T = TotalDecim[m]
  BY Decimations
<1>3. 0 \div X = 0 /\ 0 \div T = 0
  OBVIOUS
<1>4. Heard(0) = 0 /\ 0 * hop = 0
  BY HopIs DEF Heard
<1>5. InStream(FreshStage(xlatTaps), xlatTaps, 0, X, 1)
  BY <1>1, FreshInStream
<1>6. InStream(FreshStage(audioTaps), audioTaps, 0, A, X)
  BY <1>1, FreshInStream
<1>7. InStream(FreshStage(voiceTaps), voiceTaps, 0, 1, T)
  BY <1>1, FreshInStream
<1>8. InReducer(r, 0, T)
  <2>1. Follows(<<>>, 0, T) /\ Len(<<>>) = 0
    BY DEF Follows
  <2>2. QED
    BY <1>4, <2>1 DEF InReducer
<1>9. QED
  BY <1>2, <1>3, <1>4, <1>5, <1>6, <1>7, <1>8 DEF Streams, OutAt

-----------------------------------------------------------------------------
(* One block, in the terms of Block.                                       *)
In(n) == [i \in 1 .. n |-> fed + i]
ChannelOf(n) == Filter(xlat, In(n), XlatDecim[mode], 1)
BaseOf(n) == AudioFilter(ChannelOf(n))
Pace == XlatDecim[mode] * AudioDecim[mode]
CleanOf(n) == Filter(voice, BaseOf(n), 1, Pace)
ReducedOf(n) == AnalyseAll(CleanOf(n))
SoundOf(n) == IF mode = "FM" THEN BaseOf(n) ELSE EmittedOf(ReducedOf(n), Pace)
Judged == SetThreshold(squelch, squelchDb)

StreamsNow == Streams(mode, fed, xlat, audio, voice, nr)

(* The filters of a block.                                                 *)
LEMMA BlockFilters ==
  ASSUME StreamsNow, NEW n \in Nat
  PROVE  LET X == XlatDecim[mode]
             A == AudioDecim[mode]
             T == TotalDecim[mode]
             channel == ChannelOf(n)
             base == BaseOf(n)
         IN  /\ InStream(Save(xlat, In(n), X), xlatTaps, fed + n, X, 1)
             /\ Follows(channel, fed \div X, X)
             /\ fed \div X + Len(channel) = (fed + n) \div X
             /\ InStream(Save(audio, channel, A), audioTaps, (fed + n) \div X, A, X)
             /\ Follows(base, fed \div T, T)
             /\ fed \div T + Len(base) = (fed + n) \div T
<1>1. PICK X \in Nat \ {0}, A \in Nat \ {0}, T \in Nat \ {0} :
        /\ X = XlatDecim[mode] /\ A = AudioDecim[mode] /\ T = TotalDecim[mode]
        /\ X * A = T
  BY Decimations DEF StreamsNow, Streams
<1>2. /\ fed \in Nat /\ InStream(xlat, xlatTaps, fed, X, 1)
      /\ InStream(audio, audioTaps, fed \div X, A, X)
  BY <1>1 DEF StreamsNow, Streams
<1>3. xlatTaps \in Nat \ {0} /\ audioTaps \in Nat \ {0} /\ 1 \in Nat \ {0}
  BY Taken
<1>u. PICK u \in Nat \ {0}, f \in Nat, c \in Nat :
        u = 1 /\ f = fed /\ c = f \div X
  <2>1. fed \div X \in Nat
    BY <1>2, DivDown
  <2>2. QED
    BY <1>2, <2>1
<1>4. Follows(In(n), f, u) /\ Len(In(n)) = n
  <2>1. In(n) = [i \in 1 .. n |-> (f + i) * u]
    BY <1>u DEF In
  <2>2. QED
    BY <2>1, IsFollows
<1> DEFINE channel == ChannelOf(n)
           base == BaseOf(n)
<1>5. channel = Filter(xlat, In(n), X, u) /\ base = Filter(audio, channel, A, X)
  BY <1>1, <1>u DEF ChannelOf, BaseOf, AudioFilter
<1> HIDE DEF channel, base
<1>x. InStream(xlat, xlatTaps, f, X, u) /\ InStream(audio, audioTaps, c, A, X)
  BY <1>2, <1>u
<1>6. /\ InStream(Save(xlat, In(n), X), xlatTaps, f + Len(In(n)), X, u)
      /\ Follows(channel, f \div X, u * X)
      /\ f \div X + Len(channel) = (f + Len(In(n))) \div X
  <2>1. InStream(Save(xlat, In(n), X), xlatTaps, f + Len(In(n)), X, u)
    BY <1>3, <1>4, <1>x, ExactStream
  <2>2. OutputsOf(channel, In(n), f, X, u)
    BY <1>3, <1>4, <1>5, <1>x, ExactStream
  <2>3. QED
    BY <2>1, <2>2 DEF OutputsOf
<1>7. u * X = X
  BY <1>u
<1>8. Follows(channel, c, X) /\ Len(channel) \in Nat /\ c + Len(channel) = (f + n) \div X
  BY <1>4, <1>6, <1>7, <1>u DEF Follows
<1>9. /\ InStream(Save(audio, channel, A), audioTaps, c + Len(channel), A, X)
      /\ Follows(base, c \div A, X * A)
      /\ c \div A + Len(base) = (c + Len(channel)) \div A
  <2>1. InStream(Save(audio, channel, A), audioTaps, c + Len(channel), A, X)
    BY <1>3, <1>8, <1>x, ExactStream
  <2>2. OutputsOf(base, channel, c, A, X)
    BY <1>3, <1>5, <1>8, <1>x, ExactStream
  <2>3. QED
    BY <2>1, <2>2 DEF OutputsOf
<1>10. c \div A = f \div T /\ ((f + n) \div X) \div A = (f + n) \div T
  <2>1. PICK g \in Nat : g = f + n
    OBVIOUS
  <2>2. (f \div X) \div A = f \div (X * A) /\ (g \div X) \div A = g \div (X * A)
    BY DivDiv
  <2>3. QED
    BY <1>1, <1>u, <2>1, <2>2
<1>11. QED
  BY <1>1, <1>4, <1>6, <1>8, <1>9, <1>10, <1>u DEF channel, base

(* For AM, the stages behind them.                                         *)
LEMMA BlockVoice ==
  ASSUME StreamsNow, mode = "AM", NEW n \in Nat
  PROVE  LET T == TotalDecim[mode]
             r == ReducedOf(n)
         IN  /\ InStream(Save(voice, BaseOf(n), 1), voiceTaps, (fed + n) \div T, 1, T)
             /\ InReducer(ReducerAfter(r), (fed + n) \div T, T)
             /\ Follows(SoundOf(n), Heard(fed \div T) * hop, T)
             /\ Len(SoundOf(n)) = r.ready /\ r.ready \in Nat
             /\ r.ready < Len(BaseOf(n)) + hop
             /\ Heard(fed \div T) * hop + Len(SoundOf(n)) = Heard((fed + n) \div T) * hop
<1>1. PICK T \in Nat \ {0} : T = TotalDecim[mode] /\ Pace = T
  BY Decimations DEF StreamsNow, Streams, Pace
<1>2. /\ fed \in Nat /\ InStream(voice, voiceTaps, fed \div T, 1, T)
      /\ InReducer(nr, fed \div T, T)
  BY <1>1 DEF StreamsNow, Streams
<1>3. voiceTaps \in Nat \ {0} /\ 1 \in Nat \ {0}
  BY Taken
<1>4. Follows(BaseOf(n), fed \div T, T) /\ fed \div T + Len(BaseOf(n)) = (fed + n) \div T
  BY <1>1, BlockFilters
<1>5. PICK f \in Nat, g \in Nat : f = fed \div T /\ g = (fed + n) \div T
  <2>1. fed + n \in Nat
    BY <1>2
  <2>2. QED
    BY <1>2, <2>1, DivDown, Zenon
<1> DEFINE base == BaseOf(n)
           clean == CleanOf(n)
           r == ReducedOf(n)
<1>u. PICK u \in Nat \ {0} : u = 1
  OBVIOUS
<1>6. clean = Filter(voice, base, u, T) /\ r = AnalyseAll(clean)
  BY <1>1, <1>u DEF CleanOf, ReducedOf
<1>7. SoundOf(n) = EmittedOf(r, T)
  BY <1>1 DEF SoundOf
<1> HIDE DEF base, clean, r
<1>8. Follows(base, f, T) /\ f + Len(base) = g
  BY <1>4, <1>5 DEF base
<1>x. InStream(voice, voiceTaps, f, u, T)
  BY <1>2, <1>5, <1>u
<1>9. /\ InStream(Save(voice, base, u), voiceTaps, f + Len(base), u, T)
      /\ Follows(clean, f \div u, T * u)
      /\ f \div u + Len(clean) = (f + Len(base)) \div u
  <2>1. InStream(Save(voice, base, u), voiceTaps, f + Len(base), u, T)
    BY <1>3, <1>8, <1>x, ExactStream
  <2>2. OutputsOf(clean, base, f, u, T)
    BY <1>3, <1>6, <1>8, <1>x, ExactStream
  <2>3. QED
    BY <2>1, <2>2 DEF OutputsOf
<1>10. f \div u = f /\ T * u = T /\ g \div u = g
  BY <1>u
<1>11. Follows(clean, f, T) /\ f + Len(clean) = g
  BY <1>8, <1>9, <1>10
<1>12. Len(clean) = Len(base)
  <2>1. Len(clean) \in Nat /\ Len(base) \in Nat
    BY <1>8, <1>11 DEF Follows
  <2>2. QED
    BY <1>8, <1>11, <2>1
<1>13. InReducer(nr, f, T)
  BY <1>2, <1>5
<1>14. /\ InReducer(ReducerAfter(r), f + Len(clean), T)
       /\ Follows(EmittedOf(r, T), Heard(f) * hop, T)
       /\ Len(EmittedOf(r, T)) = r.ready /\ r.ready \in Nat /\ r.ready < Len(clean) + hop
       /\ Heard(f) * hop + Len(EmittedOf(r, T)) = Heard(f + Len(clean)) * hop
  BY <1>6, <1>11, <1>13, ReducerStep
<1>15. QED
  BY <1>1, <1>5, <1>7, <1>8, <1>9, <1>11, <1>12, <1>14, <1>u DEF base, r

(* What a block does, its length and level given.                          *)
BlockWith(n, level) ==
  /\ fed + n <= MaxFed /\ fed' = fed + n
  /\ xlat' = Save(xlat, In(n), XlatDecim[mode])
  /\ IF ChannelOf(n) = <<>>
     THEN UNCHANGED <<audio, voice, nr, squelch, quiet, tuner, gateVars>>
     ELSE /\ squelch' = Update(Judged, level, Len(ChannelOf(n)))
          /\ NoteQuiet(Judged, level, Len(ChannelOf(n)))
          /\ TrackCarrier(squelch'.open)
          /\ audio' = Save(audio, ChannelOf(n), AudioDecim[mode])
          /\ IF mode = "FM" THEN UNCHANGED <<voice, nr>>
             ELSE /\ voice' = Save(voice, BaseOf(n), 1)
                  /\ nr' = ReducerAfter(ReducedOf(n))
          /\ IF mode = "AM" /\ ~nr'.allocated
             THEN UNCHANGED gateVars
             ELSE Gate(squelch'.open, SoundOf(n))
  /\ UNCHANGED <<mode, commandVars>>

LEMMA BlockIs ==
  ASSUME Block
  PROVE  \E n \in BlockLens, level \in Levels : BlockWith(n, level)
BY DEF Block, BlockWith, In, ChannelOf, BaseOf, Pace, CleanOf, ReducedOf, SoundOf, Judged,
       ReducerAfter, EmittedOf

LEMMA BlockTypes ==
  /\ BlockLens \subseteq Nat \ {0} /\ Levels \subseteq Int /\ MaxFed \in Nat
  /\ \E n \in BlockLens : TRUE
BY BlockAssumption, LevelAssumption

(* A block too short for the filters to put anything out counts all the    *)
(* same: the rates see to it that no audio sample was due.                 *)
LEMMA NothingDue ==
  ASSUME StreamsNow, NEW n \in Nat, ChannelOf(n) = <<>>
  PROVE  /\ (fed + n) \div XlatDecim[mode] = fed \div XlatDecim[mode]
         /\ (fed + n) \div TotalDecim[mode] = fed \div TotalDecim[mode]
<1>1. PICK X \in Nat \ {0}, A \in Nat \ {0}, T \in Nat \ {0} :
        /\ X = XlatDecim[mode] /\ A = AudioDecim[mode] /\ T = TotalDecim[mode]
        /\ X * A = T
  BY Decimations DEF StreamsNow, Streams
<1>2. PICK f \in Nat, g \in Nat : f = fed /\ g = fed + n
  BY DEF StreamsNow, Streams
<1>3. f \div X + Len(ChannelOf(n)) = g \div X
  BY <1>1, <1>2, BlockFilters
<1>4. f \div X \in Nat /\ Len(<<>>) = 0
  BY DivDown
<1>5. f \div X = g \div X
  BY <1>3, <1>4
<1>6. (f \div X) \div A = f \div (X * A) /\ (g \div X) \div A = g \div (X * A)
  BY DivDiv
<1>7. QED
  BY <1>1, <1>2, <1>5, <1>6

LEMMA BlockStreams ==
  ASSUME StreamsNow, NEW n \in BlockLens, NEW level \in Levels, BlockWith(n, level)
  PROVE  StreamsNow'
<1>1. n \in Nat
  BY BlockTypes
<1>2. PICK X \in Nat \ {0}, A \in Nat \ {0}, T \in Nat \ {0} :
        /\ X = XlatDecim[mode] /\ A = AudioDecim[mode] /\ T = TotalDecim[mode]
        /\ Pace = T
  BY Decimations DEF StreamsNow, Streams, Pace
<1>3. /\ mode \in Modes /\ mode' = mode /\ fed \in Nat /\ fed' = fed + n /\ fed' \in Nat
  BY <1>1 DEF StreamsNow, Streams, BlockWith
<1>4. InStream(xlat', xlatTaps, fed', X, 1)
  BY <1>1, <1>2, <1>3, BlockFilters DEF BlockWith
<1>5. CASE ChannelOf(n) = <<>>
  <2>1. fed' \div X = fed \div X /\ fed' \div T = fed \div T
    BY <1>1, <1>2, <1>3, <1>5, NothingDue
  <2>2. audio' = audio /\ voice' = voice /\ nr' = nr
    BY <1>5 DEF BlockWith
  <2>3. QED
    BY <1>2, <1>3, <1>4, <2>1, <2>2 DEF StreamsNow, Streams
<1>6. CASE ChannelOf(n) # <<>>
  <2>1. InStream(audio', audioTaps, fed' \div X, A, X)
    BY <1>1, <1>2, <1>3, <1>6, BlockFilters DEF BlockWith
  <2>2. CASE mode = "FM"
    <3>1. voice' = voice /\ nr' = nr
      BY <1>6, <2>2 DEF BlockWith
    <3>2. QED
      BY <1>2, <1>3, <1>4, <2>1, <2>2, <3>1 DEF StreamsNow, Streams
  <2>3. CASE mode = "AM"
    <3>1. voice' = Save(voice, BaseOf(n), 1) /\ nr' = ReducerAfter(ReducedOf(n))
      BY <1>6, <2>3 DEF BlockWith
    <3>2. InStream(voice', voiceTaps, fed' \div T, 1, T) /\ InReducer(nr', fed' \div T, T)
      BY <1>1, <1>2, <1>3, <2>3, <3>1, BlockVoice
    <3>3. QED
      BY <1>2, <1>3, <1>4, <2>1, <2>3, <3>2 DEF StreamsNow, Streams
  <2>4. QED
    BY <1>3, <2>2, <2>3 DEF Modes
<1>7. QED
  BY <1>5, <1>6

(* A Reset, and another mode, begin a stream.                              *)
LEMMA ResetStreams ==
  ASSUME mode \in Modes, Reset
  PROVE  StreamsNow' /\ mode' = mode /\ OutAt(mode', fed') = 0
<1>1. nr'.inBuf = <<>> /\ nr'.outBuf = <<>> /\ mode' = mode
  BY DEF Reset, FreshNR
<1>2. QED
  BY <1>1, FreshStreams DEF Reset, StreamsNow

LEMMA RebuildStreams ==
  ASSUME Rebuild
  PROVE  StreamsNow' /\ OutAt(mode', fed') = 0
<1>1. PICK m \in Modes : BuildDSPChain(m)
  BY DEF Rebuild
<1>2. nr'.inBuf = <<>> /\ nr'.outBuf = <<>>
  BY <1>1 DEF BuildDSPChain, FreshNR
<1>3. QED
  BY <1>1, <1>2, FreshStreams DEF BuildDSPChain, StreamsNow

(* What commands leave alone.                                              *)
Untouched == UNCHANGED <<mode, fed, filters, squelch, tuner, gateVars, quiet>>

LEMMA NextIs ==
  ASSUME [Next]_vars
  PROVE  \/ \E n \in BlockLens, level \in Levels : BlockWith(n, level)
         \/ /\ Reset /\ packets' = <<>> /\ wasOpen' = wasOpen /\ heard' = heard
            /\ squelchDb' = squelchDb
         \/ Rebuild
         \/ Untouched
BY BlockIs DEF Next, Dropped, Flush, SetFrequency, Notify, SetSquelch, vars, Untouched,
               commandVars

LEMMA StreamsInit == Init => StreamsNow /\ OutAt(mode, fed) = 0
<1> SUFFICES ASSUME Init PROVE StreamsNow /\ OutAt(mode, fed) = 0
  OBVIOUS
<1>1. nr.inBuf = <<>> /\ nr.outBuf = <<>> /\ mode \in Modes
  BY DEF Init, FreshNR
<1>2. QED
  BY <1>1, FreshStreams DEF Init, StreamsNow

LEMMA StreamsStep == ASSUME StreamsNow, [Next]_vars PROVE StreamsNow'
<1>1. CASE \E n \in BlockLens, level \in Levels : BlockWith(n, level)
  BY <1>1, BlockStreams
<1>2. CASE Reset
  BY <1>2, ResetStreams DEF StreamsNow, Streams
<1>3. CASE Rebuild
  BY <1>3, RebuildStreams
<1>4. CASE Untouched
  BY <1>4 DEF Untouched, StreamsNow, filters
<1>5. QED
  BY <1>1, <1>2, <1>3, <1>4, NextIs

-----------------------------------------------------------------------------
(* The fine tuner.  What it stands on, whether or not a retune is under    *)
(* way, and what is promised when none is.                                 *)
TunerInv ==
  tuner.offset \in Int /\ tunedHz \in Nat /\ TunedWithinChannel

LEMMA SearchIsNat == ASSUME NEW hz \in Nat PROVE AirbandSearchHz(hz) \in Nat
BY SMT DEF AirbandSearchHz

LEMMA FreshTunerIs == FreshTuner.offset = 0 /\ Distance(0, 0) = 0
BY DEF FreshTuner, Distance

LEMMA ScanStep ==
  ASSUME NEW open, TrackCarrier(open), tuner.offset \in Int
  PROVE  /\ tuner'.offset \in Int
         /\ \/ tuner'.offset = tuner.offset
            \/ Distance(tuner'.offset, 0) <= AirbandSearchHz(tunedHz)
<1>1. CASE UNCHANGED tuner
  BY <1>1
<1>2. CASE \E found \in Carriers : /\ Distance(found, 0) <= AirbandSearchHz(tunedHz)
                                   /\ tuner' = Scanned(tuner, found)
  <2>1. PICK found \in Carriers : /\ Distance(found, 0) <= AirbandSearchHz(tunedHz)
                                  /\ tuner' = Scanned(tuner, found)
    BY <1>2
  <2>2. found \in Int
    BY CarrierAssumption
  <2>3. tuner'.offset = found \/ tuner'.offset = tuner.offset
    BY <2>1 DEF Scanned
  <2>4. QED
    BY <2>1, <2>2, <2>3
<1>3. QED
  BY <1>1, <1>2 DEF TrackCarrier

LEMMA TunerStep == ASSUME TunerInv, [Next]_vars PROVE TunerInv'
<1> USE DEF TunerInv, TunedWithinChannel
<1>0. AirbandSearchHz(tunedHz) \in Nat
  BY SearchIsNat
<1>1. CASE Block
  <2>1. PICK n \in BlockLens, level \in Levels : BlockWith(n, level)
    BY <1>1, BlockIs
  <2>2. UNCHANGED <<tunedHz, retuning, flush>>
    BY <2>1 DEF BlockWith, commandVars
  <2>3. CASE UNCHANGED tuner
    BY <2>2, <2>3
  <2>4. CASE TrackCarrier(squelch'.open)
    <3>1. /\ tuner'.offset \in Int
          /\ \/ tuner'.offset = tuner.offset
             \/ Distance(tuner'.offset, 0) <= AirbandSearchHz(tunedHz)
      BY <2>4, ScanStep
    <3>2. QED
      BY <2>2, <3>1
  <2>5. QED
    BY <2>1, <2>3, <2>4 DEF BlockWith
<1>2. CASE Dropped \/ Flush
  <2>1. tuner' = FreshTuner /\ tunedHz' = tunedHz
    BY <1>2 DEF Dropped, Flush, Reset, commandVars
  <2>2. QED
    BY <1>0, <2>1, FreshTunerIs
<1>3. CASE Rebuild
  <2>1. tuner' = FreshTuner /\ tunedHz' = tunedHz
    BY <1>3 DEF Rebuild, BuildDSPChain, commandVars
  <2>2. QED
    BY <1>0, <2>1, FreshTunerIs
<1>4. CASE SetFrequency
  BY <1>4, CarrierAssumption DEF SetFrequency
<1>5. CASE Notify
  BY <1>5 DEF Notify
<1>6. CASE SetSquelch
  BY <1>6 DEF SetSquelch
<1>7. CASE UNCHANGED vars
  BY <1>7 DEF vars, commandVars
<1>8. QED
  BY <1>1, <1>2, <1>3, <1>4, <1>5, <1>6, <1>7 DEF Next

(* When no retune is under way the narrow filter of AM stands on a carrier *)
(* within the search window of the channel that is tuned (trackCarrier,    *)
(* Reset and the flush that follows a command).                            *)
THEOREM StandsOnItsChannel == Spec => []TunedWithinChannel
<1>1. Init => TunerInv
  <2> SUFFICES ASSUME Init PROVE TunerInv
    OBVIOUS
  <2>1. tuner = FreshTuner /\ tunedHz \in Nat
    BY CarrierAssumption DEF Init
  <2>2. AirbandSearchHz(tunedHz) \in Nat
    BY <2>1, SearchIsNat
  <2>3. QED
    BY <2>1, <2>2, FreshTunerIs DEF TunerInv, TunedWithinChannel
<1>2. TunerInv /\ [Next]_vars => TunerInv'
  BY TunerStep
<1>3. TunerInv => TunedWithinChannel
  BY DEF TunerInv
<1>4. QED
  BY <1>1, <1>2, <1>3, PTL DEF Spec

-----------------------------------------------------------------------------
(* The squelch.  While it is open the hang time is split into what was     *)
(* quiet and what is left, and something is left if it was quiet at all.   *)
Squelches ==
  [threshold : Int, level : Int, seeded : BOOLEAN, open : BOOLEAN, hangLeft : Nat]

HangInv ==
  /\ squelch.open => /\ quiet + squelch.hangLeft = hangSamples
                     /\ squelch.hangLeft > 0 \/ quiet = 0
  /\ squelch \in Squelches
  /\ quiet \in Nat

(* The action of ClosesAfterHang.                                          *)
Closing ==
  LET steady == squelch'.threshold = squelch.threshold /\ fed' > fed
  IN  /\ steady /\ squelch.open /\ ~squelch'.open => quiet' >= hangSamples
      /\ squelch'.open => quiet' < hangSamples \/ quiet' = 0

LEMMA SquelchTypes ==
  /\ Levels \subseteq Int /\ cfgSquelchDb \in Int /\ hysteresis \in Nat
  /\ hangSamples \in Nat
BY LevelAssumption

LEMMA JudgedIs ==
  ASSUME HangInv, squelchDb \in Int
  PROVE  /\ Judged \in Squelches
         /\ Judged.threshold = squelchDb
         /\ Judged.open => squelch.open /\ Judged.hangLeft = squelch.hangLeft
         /\ squelchDb = squelch.threshold => Judged.open = squelch.open
BY DEF HangInv, Judged, SetThreshold, Squelches

LEMMA UpdateStep ==
  ASSUME HangInv, squelchDb \in Int, NEW level \in Int, NEW l \in Nat,
         squelch' = Update(Judged, level, l), NoteQuiet(Judged, level, l)
  PROVE  /\ HangInv'
         /\ squelch'.threshold = squelchDb
         /\ squelchDb = squelch.threshold /\ squelch.open /\ ~squelch'.open
              => quiet' >= hangSamples
<1>1. /\ Judged \in Squelches
      /\ Judged.threshold = squelchDb
      /\ Judged.open => squelch.open /\ Judged.hangLeft = squelch.hangLeft
      /\ squelchDb = squelch.threshold => Judged.open = squelch.open
  BY JudgedIs
<1>2. PICK s \in Squelches : s = Judged
  BY <1>1
<1> DEFINE t == [s EXCEPT !.level = level, !.seeded = TRUE]
<1>3. /\ hysteresis \in Nat /\ hangSamples \in Nat
  BY SquelchTypes
<1>4. /\ t \in Squelches /\ t.open = s.open /\ t.hangLeft = s.hangLeft
      /\ t.threshold = s.threshold
  BY DEF Squelches
<1>5. s.open => quiet + s.hangLeft = hangSamples /\ (s.hangLeft > 0 \/ quiet = 0)
  BY <1>1, <1>2 DEF HangInv
<1>6. quiet \in Nat
  BY DEF HangInv
<1> HIDE DEF t
<1>7. CASE level >= s.threshold
  <2>1. /\ squelch' = [t EXCEPT !.open = TRUE, !.hangLeft = hangSamples]
        /\ quiet' = 0
    BY <1>2, <1>7 DEF Update, NoteQuiet, t, Squelches
  <2>2. /\ squelch' \in Squelches /\ squelch'.open /\ squelch'.hangLeft = hangSamples
        /\ squelch'.threshold = s.threshold
    BY <1>3, <1>4, <2>1 DEF Squelches
  <2>3. QED
    BY <1>1, <1>2, <1>3, <2>1, <2>2 DEF HangInv
<1>8. CASE level < s.threshold /\ ~s.open
  <2>1. squelch' = t /\ quiet' = 0
    BY <1>2, <1>8 DEF Update, NoteQuiet, t, Squelches
  <2>2. QED
    BY <1>1, <1>2, <1>3, <1>4, <1>8, <2>1 DEF HangInv
<1>9. CASE level < s.threshold /\ s.open /\ level >= s.threshold - hysteresis
  <2>1. squelch' = t /\ quiet' = quiet
    BY <1>2, <1>3, <1>9 DEF Update, NoteQuiet, t, Squelches
  <2>2. QED
    BY <1>1, <1>2, <1>3, <1>4, <1>5, <1>6, <1>9, <2>1 DEF HangInv
<1>10. CASE /\ level < s.threshold /\ s.open /\ ~(level >= s.threshold - hysteresis)
            /\ s.hangLeft - l <= 0
  <2>1. /\ squelch' = [t EXCEPT !.open = FALSE, !.hangLeft = 0]
        /\ quiet' = quiet + l
    BY <1>2, <1>3, <1>10 DEF Update, NoteQuiet, t, Squelches
  <2>2. quiet + l >= hangSamples
    BY <1>3, <1>5, <1>6, <1>10 DEF Squelches
  <2>3. /\ squelch' \in Squelches /\ squelch'.open = FALSE
        /\ squelch'.threshold = s.threshold
    <3>1. 0 \in Nat /\ FALSE \in BOOLEAN
      OBVIOUS
    <3>2. QED
      BY <1>4, <2>1, <3>1 DEF Squelches
  <2>4. QED
    BY <1>1, <1>2, <1>6, <2>1, <2>2, <2>3 DEF HangInv
<1>11. CASE /\ level < s.threshold /\ s.open /\ ~(level >= s.threshold - hysteresis)
            /\ ~(s.hangLeft - l <= 0)
  <2>1. /\ squelch' = [t EXCEPT !.hangLeft = s.hangLeft - l]
        /\ quiet' = quiet + l
    BY <1>2, <1>3, <1>11 DEF Update, NoteQuiet, t, Squelches
  <2>2. s.hangLeft - l \in Nat /\ s.hangLeft - l > 0
        /\ (quiet + l) + (s.hangLeft - l) = hangSamples
    BY <1>3, <1>5, <1>6, <1>11 DEF Squelches
  <2>3. PICK h \in Nat : h = s.hangLeft - l
    BY <2>2
  <2>4. /\ squelch' \in Squelches /\ squelch'.open = s.open
        /\ squelch'.hangLeft = h /\ squelch'.threshold = s.threshold
    BY <1>4, <2>1, <2>3 DEF Squelches
  <2>5. h > 0 /\ (quiet + l) + h = hangSamples /\ quiet + l \in Nat
    BY <1>6, <2>2, <2>3
  <2>6. HangInv'
    BY <2>1, <2>4, <2>5 DEF HangInv
  <2>7. squelch'.open = TRUE /\ squelch'.threshold = squelchDb
    BY <1>1, <1>2, <1>11, <2>4 DEF Squelches
  <2>8. QED
    BY <2>6, <2>7
<1>12. level \in Int /\ s.threshold \in Int
  BY DEF Squelches
<1>13. QED
  BY <1>7, <1>8, <1>9, <1>10, <1>11, <1>12

SquelchInv == StreamsNow /\ HangInv /\ squelchDb \in Int

LEMMA HangStep ==
  ASSUME SquelchInv, [Next]_vars
  PROVE  SquelchInv' /\ (Closing \/ UNCHANGED vars)
<1>0. StreamsNow' /\ fed \in Nat /\ hangSamples \in Nat
  BY StreamsStep, SquelchTypes DEF SquelchInv, StreamsNow, Streams
<1>1. CASE \E n \in BlockLens, level \in Levels : BlockWith(n, level)
  <2>1. PICK n \in BlockLens, level \in Levels : BlockWith(n, level)
    BY <1>1
  <2>2. n \in Nat /\ level \in Int
    BY BlockTypes
  <2>3. squelchDb' = squelchDb
    BY <2>1 DEF BlockWith, commandVars
  <2>4. CASE ChannelOf(n) = <<>>
    <3>1. squelch' = squelch /\ quiet' = quiet
      BY <2>1, <2>4 DEF BlockWith
    <3>2. QED
      BY <1>0, <2>3, <3>1 DEF SquelchInv, HangInv, Closing, Squelches
  <2>5. CASE ChannelOf(n) # <<>>
    <3>1. PICK l \in Nat : l = Len(ChannelOf(n))
      <4>1. Follows(ChannelOf(n), fed \div XlatDecim[mode], XlatDecim[mode])
        BY <2>2, BlockFilters DEF SquelchInv
      <4>2. QED
        BY <4>1 DEF Follows
    <3>2. squelch' = Update(Judged, level, l) /\ NoteQuiet(Judged, level, l)
      BY <2>1, <2>5, <3>1 DEF BlockWith
    <3>3. /\ HangInv' /\ squelch'.threshold = squelchDb
          /\ squelchDb = squelch.threshold /\ squelch.open /\ ~squelch'.open
               => quiet' >= hangSamples
      BY <2>2, <3>2, UpdateStep DEF SquelchInv
    <3>4. QED
      BY <1>0, <2>3, <3>3 DEF SquelchInv, HangInv, Closing, Squelches
  <2>6. QED
    BY <2>4, <2>5
<1>2. CASE Reset /\ squelchDb' = squelchDb
  <2>1. /\ squelch' = [squelch EXCEPT !.seeded = FALSE, !.open = FALSE, !.hangLeft = 0]
        /\ quiet' = 0 /\ fed' = 0
    BY <1>2 DEF Reset
  <2>2. HangInv' /\ ~squelch'.open
    BY <2>1 DEF SquelchInv, HangInv, Squelches
  <2>3. QED
    BY <1>0, <1>2, <2>1, <2>2 DEF SquelchInv, Closing
<1>3. CASE Rebuild
  <2>1. /\ squelch' = FreshSquelch(cfgSquelchDb) /\ quiet' = 0 /\ fed' = 0
        /\ squelchDb' = squelchDb
    BY <1>3 DEF Rebuild, BuildDSPChain, commandVars
  <2>2. HangInv' /\ ~squelch'.open
    BY <2>1, SquelchTypes DEF FreshSquelch, HangInv, Squelches
  <2>3. QED
    BY <1>0, <2>1, <2>2 DEF SquelchInv, Closing
<1>4. CASE Untouched /\ squelchDb' \in Int
  <2>1. UNCHANGED <<squelch, quiet, fed>>
    BY <1>4 DEF Untouched
  <2>2. QED
    BY <1>0, <1>4, <2>1 DEF SquelchInv, HangInv, Closing, Squelches
<1>5. squelchDb' \in Int
  <2>1. CASE Block
    BY <2>1, BlockIs DEF BlockWith, commandVars, SquelchInv
  <2>2. CASE SetSquelch
    BY <2>2, LevelAssumption DEF SetSquelch
  <2>3. CASE \/ Dropped \/ Flush \/ Rebuild \/ SetFrequency \/ Notify \/ UNCHANGED vars
    BY <2>3 DEF Dropped, Flush, Rebuild, SetFrequency, Notify, vars, commandVars, SquelchInv
  <2>4. QED
    BY <2>1, <2>2, <2>3 DEF Next
<1>6. QED
  BY <1>1, <1>2, <1>3, <1>4, <1>5, NextIs

(* The gate closes by itself only after the hang time of samples below the *)
(* close level, and is not held open longer (Update of squelch.go).        *)
THEOREM HoldsForTheHangTime == Spec => ClosesAfterHang
<1>1. Init => SquelchInv
  <2> SUFFICES ASSUME Init PROVE SquelchInv
    OBVIOUS
  <2>1. squelch = FreshSquelch(cfgSquelchDb) /\ quiet = 0 /\ squelchDb \in Int
    BY LevelAssumption DEF Init
  <2>2. HangInv
    BY <2>1, SquelchTypes DEF FreshSquelch, HangInv, Squelches
  <2>3. QED
    BY <2>1, <2>2, StreamsInit DEF SquelchInv
<1>2. SquelchInv /\ [Next]_vars => SquelchInv' /\ [Closing]_vars
  BY HangStep
<1>3. [][Closing]_vars => ClosesAfterHang
  BY DEF Closing, ClosesAfterHang
<1>4. QED
  BY <1>1, <1>2, <1>3, PTL DEF Spec

-----------------------------------------------------------------------------
(* Pieces of a buffer.                                                     *)
Between(s, a, b) == SubSeq(s, a + 1, b)

LEMMA BetweenIs ==
  ASSUME NEW s \in Seq(Nat), NEW a \in Nat, NEW b \in Nat, a <= b, b <= Len(s)
  PROVE  /\ Between(s, a, b) \in Seq(Nat) /\ Len(Between(s, a, b)) = b - a
         /\ \A i \in 1 .. b - a : Between(s, a, b)[i] = s[a + i]
<1> DEFINE w == Between(s, a, b)
<1>1. PICK l \in Nat : l = b - a
  <2>1. b - a \in Nat
    OBVIOUS
  <2>2. QED
    BY <2>1
<1>2. w = [i \in 1 .. l |-> s[i + (a + 1) - 1]]
  <2>1. 1 + b - (a + 1) = l
    BY <1>1
  <2>2. QED
    BY <2>1 DEF Between
<1> HIDE DEF w
<1>3. ASSUME NEW i \in 1 .. l PROVE w[i] = s[a + i] /\ s[a + i] \in Nat
  <2>1. i + (a + 1) - 1 = a + i
    OBVIOUS
  <2>2. PICK e \in 1 .. Len(s) : e = a + i
    BY <1>1
  <2>3. QED
    BY <1>2, <2>1, <2>2
<1>4. w = [i \in 1 .. l |-> s[a + i]]
  BY <1>2, <1>3
<1>5. w \in Seq(Nat) /\ Len(w) = l
  BY <1>3, <1>4
<1>6. QED
  BY <1>1, <1>3, <1>5 DEF w

LEMMA SameSeq ==
  ASSUME NEW s \in Seq(Nat), NEW t \in Seq(Nat), Len(s) = Len(t),
         \A i \in 1 .. Len(s) : s[i] = t[i]
  PROVE  s = t
OBVIOUS

LEMMA BetweenHas ==
  \A s \in Seq(Nat), a \in Nat, b \in Nat : a <= b /\ b <= Len(s) =>
    \E w \in Seq(Nat) : /\ w = Between(s, a, b) /\ Len(w) = b - a
                        /\ \A i \in 1 .. b - a : w[i] = s[a + i]
<1> SUFFICES ASSUME NEW s \in Seq(Nat), NEW a \in Nat, NEW b \in Nat,
                    a <= b, b <= Len(s)
             PROVE  \E w \in Seq(Nat) : /\ w = Between(s, a, b) /\ Len(w) = b - a
                                        /\ \A i \in 1 .. b - a : w[i] = s[a + i]
  OBVIOUS
<1>1. /\ Between(s, a, b) \in Seq(Nat) /\ Len(Between(s, a, b)) = b - a
      /\ \A i \in 1 .. b - a : Between(s, a, b)[i] = s[a + i]
  BY BetweenIs, Zenon
<1>2. QED
  BY <1>1, Zenon

LEMMA JoinedIs ==
  \A u \in Seq(Nat), v \in Seq(Nat) :
    /\ u \o v \in Seq(Nat) /\ Len(u \o v) = Len(u) + Len(v)
    /\ \A i \in 1 .. Len(u) : (u \o v)[i] = u[i]
    /\ \A i \in 1 .. Len(v) : (u \o v)[Len(u) + i] = v[i]
BY Joined

LEMMA BetweenJoin ==
  ASSUME NEW s \in Seq(Nat), NEW a \in Nat, NEW b \in Nat, NEW c \in Nat,
         a <= b, b <= c, c <= Len(s)
  PROVE  Between(s, a, b) \o Between(s, b, c) = Between(s, a, c)
<1>1. PICK u \in Seq(Nat) : /\ u = Between(s, a, b) /\ Len(u) = b - a
                            /\ \A i \in 1 .. b - a : u[i] = s[a + i]
  <2>1. b <= Len(s)
    OBVIOUS
  <2>2. QED
    BY <2>1, BetweenHas
<1>2. PICK v \in Seq(Nat) : /\ v = Between(s, b, c) /\ Len(v) = c - b
                            /\ \A i \in 1 .. c - b : v[i] = s[b + i]
  BY BetweenHas
<1>3. a <= c
  OBVIOUS
<1>4. PICK w \in Seq(Nat) : /\ w = Between(s, a, c) /\ Len(w) = c - a
                            /\ \A i \in 1 .. c - a : w[i] = s[a + i]
  BY <1>3, BetweenHas
<1>5. /\ u \o v \in Seq(Nat) /\ Len(u \o v) = c - a
      /\ \A i \in 1 .. b - a : (u \o v)[i] = u[i]
      /\ \A i \in 1 .. c - b : (u \o v)[(b - a) + i] = v[i]
  <2>1. u \in Seq(Nat) /\ v \in Seq(Nat) /\ Len(u) = b - a /\ Len(v) = c - b
    BY <1>1, <1>2
  <2>2. /\ u \o v \in Seq(Nat) /\ Len(u \o v) = Len(u) + Len(v)
        /\ \A i \in 1 .. Len(u) : (u \o v)[i] = u[i]
        /\ \A i \in 1 .. Len(v) : (u \o v)[Len(u) + i] = v[i]
    BY <2>1, JoinedIs
  <2>3. (b - a) + (c - b) = c - a
    OBVIOUS
  <2>4. Len(u \o v) = c - a
    BY <2>1, <2>2, <2>3
  <2>5. QED
    BY <2>1, <2>2, <2>4, Zenon
<1>6. ASSUME NEW i \in 1 .. c - a PROVE (u \o v)[i] = w[i]
  <2>1. CASE i <= b - a
    <3>1. i \in 1 .. b - a
      BY <2>1
    <3>2. QED
      BY <1>1, <1>4, <1>5, <3>1
  <2>2. CASE i > b - a
    <3>1. PICK j \in 1 .. c - b : i = (b - a) + j
      <4>1. i - (b - a) \in 1 .. c - b /\ i = (b - a) + (i - (b - a))
        BY <2>2
      <4>2. QED
        BY <4>1
    <3>2. b + j = a + i
      BY <3>1
    <3>3. (u \o v)[i] = v[j]
      BY <1>5, <3>1, Zenon
    <3>4. v[j] = s[b + j] /\ w[i] = s[a + i]
      BY <1>2, <1>4, Zenon
    <3>5. QED
      BY <3>2, <3>3, <3>4, Zenon
  <2>3. i <= b - a \/ i > b - a
    OBVIOUS
  <2>4. QED
    BY <2>1, <2>2, <2>3, Zenon
<1>7. u \o v = w
  BY <1>4, <1>5, <1>6, SameSeq
<1>8. QED
  BY <1>1, <1>2, <1>4, <1>7

LEMMA BetweenFollows ==
  ASSUME NEW s, NEW n \in Nat, NEW stride \in Nat \ {0}, Follows(s, n, stride),
         NEW a \in Nat, NEW b \in Nat, a <= b, b <= Len(s)
  PROVE  Follows(Between(s, a, b), n + a, stride)
<1>1. s \in Seq(Nat) /\ \A i \in 1 .. Len(s) : s[i] = (n + i) * stride
  BY DEF Follows
<1>2. PICK w \in Seq(Nat) : /\ w = Between(s, a, b) /\ Len(w) = b - a
                            /\ \A i \in 1 .. b - a : w[i] = s[a + i]
  BY <1>1, BetweenHas
<1>3. ASSUME NEW i \in 1 .. b - a PROVE w[i] = (n + a + i) * stride
  <2>1. PICK e \in 1 .. Len(s) : e = a + i
    BY <1>1
  <2>2. n + e = n + a + i
    BY <2>1
  <2>3. QED
    BY <1>1, <1>2, <2>1, <2>2
<1>4. QED
  BY <1>2, <1>3 DEF Follows

(* A buffer that follows its stream is Continuous.                         *)
LEMMA FollowsContinuous ==
  ASSUME NEW s, NEW n \in Nat, Stride \in Nat \ {0}, Follows(s, n, Stride)
  PROVE  Continuous(s)
<1>1. PICK T \in Nat \ {0} : T = Stride
  OBVIOUS
<1>2. s \in Seq(Nat) /\ Len(s) \in Nat /\ \A i \in 1 .. Len(s) : s[i] = (n + i) * T
  BY <1>1 DEF Follows
<1>3. ASSUME NEW i \in 1 .. Len(s) PROVE s[i] > 0 /\ s[i] % T = 0
  <2>1. PICK q \in Nat \ {0} : q = n + i
    <3>1. n + i \in Nat \ {0}
      BY <1>2
    <3>2. QED
      BY <3>1
  <2>2. s[i] = q * T /\ q * T \in Nat /\ q * T > 0
    BY <1>2, <2>1
  <2>3. PICK x \in Nat : x = q * T
    BY <2>2
  <2>4. x % T = 0
    <3>1. /\ x % T \in Nat /\ x \div T \in Nat
          /\ x = (x \div T) * T + (x % T) /\ x % T < T
      BY DivMod
    <3>2. q * T + 0 = (x \div T) * T + (x % T) /\ 0 < T
      BY <2>3, <3>1
    <3>3. PICK p \in Nat, r \in Nat : p = x \div T /\ r = x % T
      BY <3>1, Zenon
    <3>4. 0 = r
      BY <3>1, <3>2, <3>3, DivUnique
    <3>5. QED
      BY <3>3, <3>4
  <2>5. QED
    BY <2>2, <2>3, <2>4
<1>4. ASSUME NEW i \in 1 .. Len(s) - 1 PROVE s[i + 1] = s[i] + T
  <2>1. PICK j \in 1 .. Len(s) : j = i + 1
    BY <1>2
  <2>2. i \in 1 .. Len(s)
    BY <1>2
  <2>3. PICK q \in Nat : q = n + i
    BY <1>2
  <2>4. n + j = q + 1 /\ (q + 1) * T = q * T + T
    BY <2>1, <2>3
  <2>5. QED
    BY <1>2, <2>1, <2>2, <2>3, <2>4
<1>5. DOMAIN s = 1 .. Len(s)
  BY <1>2
<1>6. QED
  BY <1>1, <1>3, <1>4, <1>5 DEF Continuous

-----------------------------------------------------------------------------
(* The frames of a buffer, put together again, are its beginning.          *)
FrameCount(buf) == Len(buf) \div frameSize

LEMMA FramesAre ==
  ASSUME NEW buf \in Seq(Nat), NEW l \in Nat, l = FrameCount(buf)
  PROVE  /\ Frames(buf) = [k \in 1 .. l |-> Between(buf, (k - 1) * frameSize, k * frameSize)]
         /\ Len(Frames(buf)) = l /\ DOMAIN Frames(buf) = 1 .. l
         /\ l * frameSize \in Nat
         /\ l * frameSize <= Len(buf) /\ Len(buf) < l * frameSize + frameSize
<1>1. Frames(buf) = [k \in 1 .. l |-> Between(buf, (k - 1) * frameSize, k * frameSize)]
  BY DEF Frames, FrameCount, Between
<1>2. Len(Frames(buf)) = l /\ DOMAIN Frames(buf) = 1 .. l
  BY <1>1
<1>3. /\ l * frameSize \in Nat
      /\ l * frameSize <= Len(buf) /\ Len(buf) < l * frameSize + frameSize
  <2>1. PICK x \in Nat, d \in Nat \ {0} : x = Len(buf) /\ d = frameSize
    BY HopIs
  <2>2. l = x \div d
    BY <2>1 DEF FrameCount
  <2>3. (x \div d) * d \in Nat /\ (x \div d) * d <= x /\ x < (x \div d) * d + d
    BY DivDown
  <2>4. QED
    BY <2>1, <2>2, <2>3
<1>4. QED
  BY <1>1, <1>2, <1>3

Joins(flatten, n, seqs) ==
  flatten = [i \in 1 .. n |-> IF i = 1 THEN seqs[i] ELSE flatten[i - 1] \o seqs[i]]

LEMMA FlattenIs ==
  ASSUME NEW seqs, NEW n \in Nat \ {0}, Len(seqs) = n
  PROVE  FlattenSeq(seqs) = (CHOOSE flatten : Joins(flatten, n, seqs))[n]
BY DEF FlattenSeq, Joins

LEMMA FlattenNone == FlattenSeq(<<>>) = <<>>
BY DEF FlattenSeq

LEMMA FlattenFrames ==
  ASSUME NEW buf \in Seq(Nat), NEW l \in Nat, l = FrameCount(buf)
  PROVE  FlattenSeq(Frames(buf)) = Between(buf, 0, l * frameSize)
<1> DEFINE frames == Frames(buf)
           f == [i \in 1 .. l |-> Between(buf, 0, i * frameSize)]
           g == CHOOSE flatten : Joins(flatten, l, frames)
<1>1. /\ frames = [k \in 1 .. l |-> Between(buf, (k - 1) * frameSize, k * frameSize)]
      /\ Len(frames) = l
      /\ l * frameSize \in Nat /\ l * frameSize <= Len(buf)
  BY FramesAre
<1>2. frameSize \in Nat \ {0} /\ Len(buf) \in Nat
  BY HopIs
<1> HIDE DEF frames
<1>3. CASE l = 0
  <2>1. frames = <<>>
    BY <1>1, <1>3
  <2>2. l * frameSize = 0 /\ Between(buf, 0, 0) = <<>>
    BY <1>2, <1>3 DEF Between
  <2>3. QED
    BY <2>1, <2>2, FlattenNone DEF frames
<1>4. CASE l # 0
  <2>1. FlattenSeq(frames) = g[l]
    BY <1>1, <1>4, FlattenIs
  <2>2. ASSUME NEW i \in 1 .. l
        PROVE  Between(buf, 0, i * frameSize)
                 = IF i = 1 THEN frames[i]
                   ELSE Between(buf, 0, (i - 1) * frameSize) \o frames[i]
    <3>1. PICK j \in Nat : j = i - 1 /\ i = j + 1
      OBVIOUS
    <3>2. PICK a \in Nat, b \in Nat : a = j * frameSize /\ b = i * frameSize
      BY <1>2, <3>1
    <3>3. a <= b /\ b <= Len(buf)
      <4>1. b <= l * frameSize
        <5>1. PICK e \in Nat : e = i /\ e <= l
          OBVIOUS
        <5>2. e * frameSize <= l * frameSize
          BY <1>2, <5>1, TimesLess
        <5>3. QED
          BY <3>2, <5>1, <5>2
      <4>2. b = a + frameSize
        BY <1>2, <3>1, <3>2
      <4>3. QED
        BY <1>1, <1>2, <4>1, <4>2
    <3>4. frames[i] = Between(buf, a, b)
      BY <1>1, <3>1, <3>2
    <3>5. CASE i = 1
      <4>1. a = 0
        BY <1>2, <3>1, <3>2, <3>5
      <4>2. QED
        BY <3>2, <3>4, <3>5, <4>1
    <3>6. CASE i # 1
      <4>1. Between(buf, 0, a) \o Between(buf, a, b) = Between(buf, 0, b)
        BY <3>3, BetweenJoin
      <4>2. QED
        BY <3>1, <3>2, <3>4, <3>6, <4>1
    <3>7. QED
      BY <3>5, <3>6
  <2>3. Joins(f, l, frames)
    <3>1. ASSUME NEW i \in 1 .. l
          PROVE  f[i] = IF i = 1 THEN frames[i] ELSE f[i - 1] \o frames[i]
      <4>1. CASE i = 1
        BY <2>2, <4>1
      <4>2. CASE i # 1
        <5>1. i - 1 \in 1 .. l
          BY <4>2
        <5>2. QED
          BY <2>2, <4>2, <5>1
      <4>3. QED
        BY <4>1, <4>2
    <3>2. f = [i \in 1 .. l |-> f[i]]
      OBVIOUS
    <3> HIDE DEF f
    <3>3. QED
      BY <3>1, <3>2 DEF Joins
  <2>4. Joins(g, l, frames)
    BY <2>3
  <2> HIDE DEF f, g
  <2>5. \A i \in 1 .. l : g[i] = f[i]
    <3> DEFINE Bad == {i \in 1 .. l : g[i] # f[i]}
    <3> SUFFICES ASSUME Bad # {} PROVE FALSE
      OBVIOUS
    <3>1. Bad \in SUBSET Nat
      OBVIOUS
    <3>2. PICK i \in Bad : \A j \in Bad : i <= j
      BY <3>1, Least
    <3>3. i \in 1 .. l /\ g[i] # f[i]
      OBVIOUS
    <3>4. i # 1
      BY <2>3, <2>4, <3>3 DEF Joins
    <3>5. g[i] = g[i - 1] \o frames[i] /\ f[i] = f[i - 1] \o frames[i]
      BY <2>3, <2>4, <3>3, <3>4 DEF Joins
    <3>6. i - 1 \in 1 .. l /\ ~(i <= i - 1)
      BY <3>3, <3>4
    <3>7. i - 1 \notin Bad
      BY <3>2, <3>6
    <3>8. g[i - 1] = f[i - 1]
      BY <3>6, <3>7
    <3>9. QED
      BY <3>3, <3>5, <3>8
  <2>6. l \in 1 .. l
    BY <1>4
  <2>7. f[l] = Between(buf, 0, l * frameSize)
    BY <2>6 DEF f
  <2>8. QED
    BY <2>1, <2>5, <2>6, <2>7 DEF frames
<1>5. QED
  BY <1>3, <1>4

-----------------------------------------------------------------------------
(* What waits in the encoder when o audio samples were put out: the last   *)
(* ones.                                                                   *)
Waits(buf, o, stride) ==
  buf \in Seq(Nat) /\ Len(buf) <= o /\ Follows(buf, o - Len(buf), stride)

(* What the last block broadcast, and what it left behind, are one stream. *)
OneStream(frames, buf, stride) ==
  \E n \in Nat : Follows(FlattenSeq(frames) \o buf, n, stride)

LEMMA NoFrames ==
  ASSUME NEW buf \in Seq(Nat), NEW n \in Nat, NEW stride, Follows(buf, n, stride)
  PROVE  OneStream(<<>>, buf, stride)
<1>1. FlattenSeq(<<>>) \o buf = buf
  BY FlattenNone
<1>2. QED
  BY <1>1 DEF OneStream

(* Whole frames are taken from the front: all of them, or all up to one    *)
(* that is refused.                                                        *)
LEMMA EncodeIs ==
  ASSUME NEW samples, Encode(samples), NEW q \in Nat,
         q = Len(Frames(opusBuf \o samples)), DOMAIN Frames(opusBuf \o samples) = 1 .. q
  PROVE  LET buf == opusBuf \o samples
         IN  \E k \in 0 .. q :
               /\ opusBuf' = Between(buf, k * frameSize, Len(buf))
               /\ \/ k = q /\ packets' = Frames(buf)
                  \/ k # 0 /\ packets' = <<>>
<1> DEFINE buf == opusBuf \o samples
<1>1. CASE packets' = Frames(buf) /\ opusBuf' = Between(buf, q * frameSize, Len(buf))
  BY <1>1
<1>2. CASE /\ packets' = <<>>
           /\ \E k \in DOMAIN Frames(buf) :
                opusBuf' = Between(buf, k * frameSize, Len(buf))
  <2>1. PICK k \in 1 .. q : opusBuf' = Between(buf, k * frameSize, Len(buf))
    BY <1>2
  <2>2. k \in 0 .. q /\ k # 0
    OBVIOUS
  <2>3. QED
    BY <1>2, <2>1, <2>2
<1>3. QED
  BY <1>1, <1>2 DEF Encode, Between

(* Encode keeps the stream.  A whole frame is left behind only if nothing  *)
(* is broadcast, and one that waited is not left in front.                 *)
LEMMA EncodeStep ==
  ASSUME NEW o \in Nat, NEW stride \in Nat \ {0}, Waits(opusBuf, o, stride),
         NEW samples, Follows(samples, o, stride), Encode(samples)
  PROVE  /\ Waits(opusBuf, o + Len(samples), stride)'
         /\ OneStream(packets, opusBuf, stride)'
         /\ Len(opusBuf') >= frameSize => packets' = <<>>
         /\ Len(opusBuf) >= frameSize /\ opusBuf' # <<>>
              => Head(opusBuf') > Head(opusBuf)
<1> DEFINE buf == opusBuf \o samples
           frames == Frames(buf)
<1>2. PICK n \in Nat, w \in Nat, l \in Nat, F \in Nat \ {0} :
        /\ n = o - Len(opusBuf) /\ w = Len(opusBuf) /\ l = Len(samples)
        /\ o = n + w /\ F = frameSize
  <2>1. Len(opusBuf) \in Nat /\ Len(samples) \in Nat /\ Len(opusBuf) <= o
    BY DEF Waits, Follows
  <2>2. o - Len(opusBuf) \in Nat /\ o = (o - Len(opusBuf)) + Len(opusBuf)
    BY <2>1
  <2>3. QED
    BY <2>1, <2>2, HopIs
<1>3. Follows(buf, n, stride) /\ Len(buf) = w + l
  <2>1. Follows(opusBuf, n, stride) /\ Follows(samples, n + Len(opusBuf), stride)
    BY <1>2 DEF Waits
  <2>2. Follows(opusBuf \o samples, n, stride)
        /\ Len(opusBuf \o samples) = Len(opusBuf) + Len(samples)
    BY <1>2, <2>1, FollowsJoin
  <2>3. QED
    BY <1>2, <2>2
<1>4. buf \in Seq(Nat)
  BY <1>3 DEF Follows
<1>5. PICK q \in Nat : q = FrameCount(buf)
  <2>1. w + l \in Nat
    OBVIOUS
  <2>2. QED
    BY <1>2, <1>3, <2>1, DivDown DEF FrameCount
<1>6. /\ Len(frames) = q /\ DOMAIN frames = 1 .. q
      /\ q * F \in Nat /\ q * F <= w + l /\ w + l < q * F + F
  <2>1. /\ Len(frames) = q /\ DOMAIN frames = 1 .. q
        /\ q * frameSize \in Nat /\ q * frameSize <= Len(buf)
        /\ Len(buf) < q * frameSize + frameSize
    BY <1>4, <1>5, FramesAre
  <2>2. QED
    BY <1>2, <1>3, <2>1
<1>7. PICK k \in 0 .. q : /\ opusBuf' = Between(buf, k * F, Len(buf))
                          /\ \/ k = q /\ packets' = frames
                             \/ k # 0 /\ packets' = <<>>
  BY <1>2, <1>6, EncodeIs
<1> HIDE DEF buf
<1>8. PICK a \in Nat : a = k * F /\ a <= w + l /\ (k # 0 => F <= a)
  <2>1. k * F <= q * F /\ k * F \in Nat
    <3>1. PICK e \in Nat : e = k /\ e <= q
      OBVIOUS
    <3>2. e * F <= q * F /\ e * F \in Nat
      BY <3>1, TimesLess
    <3>3. QED
      BY <3>1, <3>2
  <2>2. k # 0 => F <= k * F
    <3>1. ASSUME k # 0 PROVE 1 * F <= k * F
      <4>1. PICK e \in Nat : e = k /\ 1 <= e
        BY <3>1
      <4>2. 1 * F <= e * F
        BY <4>1, TimesLess
      <4>3. QED
        BY <4>1, <4>2
    <3>2. 1 * F = F
      OBVIOUS
    <3>3. QED
      BY <3>1, <3>2
  <2>3. PICK a \in Nat, c \in Nat : a = k * F /\ c = q * F
    BY <1>6, <2>1, Zenon
  <2>4. QED
    BY <1>6, <2>1, <2>2, <2>3
<1>9. opusBuf' = Between(buf, a, Len(buf))
  BY <1>7, <1>8
<1>10. a <= Len(buf) /\ Len(buf) \in Nat /\ Len(buf) <= Len(buf)
  BY <1>2, <1>3, <1>8
<1>11. Follows(opusBuf', n + a, stride)
  BY <1>2, <1>3, <1>8, <1>9, <1>10, BetweenFollows
<1>12. opusBuf' \in Seq(Nat) /\ Len(opusBuf') = (w + l) - a
  <2>1. Len(Between(buf, a, Len(buf))) = Len(buf) - a
    BY <1>4, <1>8, <1>10, BetweenIs, Zenon
  <2>2. QED
    BY <1>3, <1>9, <1>11, <2>1 DEF Follows
<1>13. Waits(opusBuf, o + Len(samples), stride)'
  <2>1. (o + l) - ((w + l) - a) = n + a /\ (w + l) - a <= o + l
    BY <1>2, <1>8
  <2>2. QED
    BY <1>2, <1>11, <1>12, <2>1 DEF Waits
<1>14. ASSUME k = q, packets' = frames
       PROVE  OneStream(packets, opusBuf, stride)' /\ Len(opusBuf') < F
  <2>1. Len(opusBuf') < F
    <3>1. w + l < a + F
      BY <1>6, <1>8, <1>14
    <3>2. QED
      BY <1>12, <3>1
  <2>2. FlattenSeq(frames) \o opusBuf' = Between(buf, 0, Len(buf))
    <3>1. FlattenSeq(frames) = Between(buf, 0, a)
      BY <1>2, <1>4, <1>5, <1>8, <1>14, FlattenFrames
    <3>2. 0 <= a /\ 0 \in Nat
      OBVIOUS
    <3>3. Between(buf, 0, a) \o Between(buf, a, Len(buf)) = Between(buf, 0, Len(buf))
      BY <1>4, <1>8, <1>10, <3>2, BetweenJoin
    <3>4. QED
      BY <1>9, <3>1, <3>3
  <2>3. Follows(Between(buf, 0, Len(buf)), n + 0, stride) /\ n + 0 \in Nat
    <3>1. 0 <= Len(buf) /\ 0 \in Nat
      BY <1>10
    <3>2. QED
      BY <1>2, <1>3, <1>10, <3>1, BetweenFollows
  <2>4. OneStream(packets, opusBuf, stride)'
    BY <1>14, <2>2, <2>3 DEF OneStream
  <2>5. QED
    BY <2>1, <2>4
<1>15. ASSUME packets' = <<>> PROVE OneStream(packets, opusBuf, stride)'
  <2>1. FlattenSeq(<<>>) \o opusBuf' = opusBuf' /\ n + a \in Nat
    BY <1>12, FlattenNone
  <2>2. QED
    BY <1>11, <1>15, <2>1 DEF OneStream
<1>16. ASSUME w >= F, opusBuf' # <<>> PROVE Head(opusBuf') > Head(opusBuf)
  <2>1. F <= a
    <3>1. CASE k = 0
      <4>1. q * F = 0 /\ w + l < q * F + F
        BY <1>6, <1>7, <3>1
      <4>2. QED
        BY <1>16, <4>1
    <3>2. QED
      BY <1>8, <3>1
  <2>2. Len(opusBuf') \in Nat /\ Len(opusBuf') # 0
    BY <1>12, <1>16
  <2>3. 1 \in 1 .. Len(opusBuf') /\ 1 \in 1 .. Len(opusBuf)
    BY <1>2, <1>16, <2>2
  <2>4. opusBuf'[1] = ((n + a) + 1) * stride /\ opusBuf[1] = (n + 1) * stride
    BY <1>2, <1>11, <2>3 DEF Waits, Follows
  <2>5. ((n + a) + 1) * stride > (n + 1) * stride
    <3>1. PICK x \in Nat, y \in Nat : x = (n + a) + 1 /\ y = n + 1 /\ y + 1 <= x
      BY <2>1
    <3>2. PICK s \in Nat \ {0} : s = stride
      OBVIOUS
    <3>3. (y + 1) * s <= x * s /\ (y + 1) * s = y * s + s
      BY <3>1, TimesLess
    <3>4. x * s \in Nat /\ y * s \in Nat
      OBVIOUS
    <3>5. PICK c \in Nat, d \in Nat : c = x * s /\ d = y * s
      BY <3>4, Zenon
    <3>6. d + s <= c
      BY <3>3, <3>5
    <3>7. c > d
      BY <3>6
    <3>8. QED
      BY <3>1, <3>2, <3>5, <3>7
  <2>6. Head(opusBuf') = opusBuf'[1] /\ Head(opusBuf) = opusBuf[1]
    OBVIOUS
  <2>7. QED
    BY <2>4, <2>5, <2>6
<1>17. OneStream(packets, opusBuf, stride)'
  BY <1>7, <1>14, <1>15
<1>18. Len(opusBuf') >= frameSize => packets' = <<>>
  <2>1. ASSUME Len(opusBuf') < F PROVE ~(Len(opusBuf') >= F)
    BY <1>12, <2>1
  <2>2. QED
    BY <1>2, <1>7, <1>14, <2>1
<1>19. QED
  BY <1>2, <1>13, <1>16, <1>17, <1>18

-----------------------------------------------------------------------------
(* What one block puts out.                                                *)
LEMMA OutIs ==
  ASSUME StreamsNow
  PROVE  Out = OutAt(mode, fed) /\ Out \in Nat /\ Stride \in Nat \ {0}
<1>1. PICK T \in Nat \ {0} : T = TotalDecim[mode] /\ Stride = T
  BY Decimations DEF StreamsNow, Streams, Stride
<1>2. fed \in Nat /\ mode \in Modes
  BY DEF StreamsNow, Streams
<1>3. PICK f \in Nat : f = fed \div T
  BY <1>2, DivDown, Zenon
<1>4. CASE mode = "FM"
  BY <1>1, <1>3, <1>4 DEF Out, OutAt
<1>5. CASE mode = "AM"
  <2>1. Heard(f) * hop \in Nat /\ 0 * hop = 0
    BY HeardIs, HopIs
  <2>2. Out = IF f < fftSize THEN 0 ELSE ((f - fftSize) \div hop + 1) * hop
    BY <1>1, <1>3, <1>5 DEF Out
  <2>3. OutAt(mode, fed) = Heard(f) * hop
    BY <1>1, <1>3, <1>5 DEF OutAt
  <2>4. Out = Heard(f) * hop
    BY <2>1, <2>2 DEF Heard
  <2>5. QED
    BY <1>1, <2>1, <2>3, <2>4
<1>6. QED
  BY <1>2, <1>4, <1>5 DEF Modes

LEMMA SoundIs ==
  ASSUME StreamsNow, NEW n \in Nat
  PROVE  /\ Follows(SoundOf(n), OutAt(mode, fed), Stride)
         /\ OutAt(mode, fed) + Len(SoundOf(n)) = OutAt(mode, fed + n)
         /\ mode = "AM" => Len(SoundOf(n)) = ReducedOf(n).ready
<1>1. PICK T \in Nat \ {0} : T = TotalDecim[mode] /\ Stride = T
  BY Decimations DEF StreamsNow, Streams, Stride
<1>2. mode \in Modes
  BY DEF StreamsNow, Streams
<1>3. CASE mode = "FM"
  <2>1. Follows(BaseOf(n), fed \div T, T) /\ fed \div T + Len(BaseOf(n)) = (fed + n) \div T
    BY <1>1, BlockFilters
  <2>2. SoundOf(n) = BaseOf(n)
    BY <1>3 DEF SoundOf
  <2>3. OutAt(mode, fed) = fed \div T /\ OutAt(mode, fed + n) = (fed + n) \div T
    BY <1>1, <1>3 DEF OutAt
  <2>4. QED
    BY <1>1, <1>3, <2>1, <2>2, <2>3
<1>4. CASE mode = "AM"
  <2>1. /\ Follows(SoundOf(n), Heard(fed \div T) * hop, T)
        /\ Len(SoundOf(n)) = ReducedOf(n).ready
        /\ Heard(fed \div T) * hop + Len(SoundOf(n)) = Heard((fed + n) \div T) * hop
    BY <1>1, <1>4, BlockVoice
  <2>2. /\ OutAt(mode, fed) = Heard(fed \div T) * hop
        /\ OutAt(mode, fed + n) = Heard((fed + n) \div T) * hop
    BY <1>1, <1>4 DEF OutAt
  <2>3. QED
    BY <1>1, <2>1, <2>2
<1>5. QED
  BY <1>2, <1>3, <1>4 DEF Modes

-----------------------------------------------------------------------------
(* The gate and the encoder behind it.                                     *)
GateInv ==
  /\ StreamsNow
  /\ wasOpen \in BOOLEAN /\ (opusBuf # <<>> => wasOpen)
  /\ Waits(opusBuf, OutAt(mode, fed), Stride)
  /\ OneStream(packets, opusBuf, Stride)
  /\ Len(opusBuf) >= frameSize => packets = <<>>

(* A whole frame that waited is not left in front.                         *)
MovesOn == Len(opusBuf) >= frameSize /\ opusBuf' \notin {<<>>, opusBuf}
             => Head(opusBuf') > Head(opusBuf)

(* Nothing waits.                                                          *)
LEMMA EmptyIs ==
  ASSUME NEW o \in Nat, NEW stride \in Nat \ {0}
  PROVE  Waits(<<>>, o, stride) /\ OneStream(<<>>, <<>>, stride)
<1>1. <<>> \in Seq(Nat) /\ Len(<<>>) = 0 /\ 0 \in Nat /\ o - 0 = o
  OBVIOUS
<1>2. Follows(<<>>, o, stride)
  BY DEF Follows
<1>3. Waits(<<>>, o, stride)
  BY <1>1, <1>2 DEF Waits
<1>4. OneStream(<<>>, <<>>, stride)
  BY <1>1, <1>2, NoFrames
<1>5. QED
  BY <1>3, <1>4

LEMMA GateStep ==
  ASSUME GateInv, NEW n \in BlockLens, NEW level \in Levels, BlockWith(n, level)
  PROVE  GateInv' /\ MovesOn
<1>1. n \in Nat
  BY BlockTypes
<1>2. PICK T \in Nat \ {0} : T = Stride /\ T = Stride' /\ T = TotalDecim[mode]
  BY OutIs DEF GateInv, Stride, BlockWith
<1>3. StreamsNow'
  BY BlockStreams DEF GateInv
<1>4. mode' = mode /\ fed' = fed + n
  BY DEF BlockWith
<1>5. PICK o \in Nat : o = OutAt(mode, fed)
  BY OutIs DEF GateInv
<1>6. PICK p \in Nat : p = OutAt(mode, fed)' /\ p = OutAt(mode, fed + n)
  <2>1. Len(SoundOf(n)) \in Nat /\ o + Len(SoundOf(n)) = OutAt(mode, fed + n)
    BY <1>1, <1>5, SoundIs DEF GateInv, Follows
  <2>2. OutAt(mode, fed)' = OutAt(mode, fed + n)
    BY <1>4
  <2>3. QED
    BY <2>1, <2>2
<1>7. /\ Follows(SoundOf(n), o, T) /\ o + Len(SoundOf(n)) = p
      /\ mode = "AM" => Len(SoundOf(n)) = ReducedOf(n).ready
  BY <1>1, <1>2, <1>4, <1>5, <1>6, SoundIs DEF GateInv
<1>8. Len(SoundOf(n)) \in Nat
  BY <1>7 DEF Follows
<1>9. ASSUME p = o, UNCHANGED gateVars PROVE GateInv' /\ MovesOn
  <2>1. UNCHANGED <<opusBuf, packets, wasOpen>>
    BY <1>9 DEF gateVars
  <2>2. Waits(opusBuf, p, T)'
    BY <1>2, <1>4, <1>5, <1>9, <2>1 DEF GateInv, Waits
  <2>3. QED
    BY <1>2, <1>3, <1>6, <2>1, <2>2 DEF GateInv, MovesOn
<1>10. CASE ChannelOf(n) = <<>>
  <2>1. (fed + n) \div TotalDecim[mode] = fed \div TotalDecim[mode]
    BY <1>1, <1>10, NothingDue DEF GateInv
  <2>2. p = o
    BY <1>4, <1>5, <1>6, <2>1 DEF OutAt
  <2>3. UNCHANGED gateVars
    BY <1>10 DEF BlockWith
  <2>4. QED
    BY <1>9, <2>2, <2>3
<1>11. CASE ChannelOf(n) # <<>> /\ mode = "AM" /\ ~nr'.allocated
  <2>1. nr' = ReducerAfter(ReducedOf(n)) /\ UNCHANGED gateVars
    BY <1>11 DEF BlockWith
  <2>2. ~(ReducedOf(n).ready > 0)
    BY <1>11, <2>1 DEF ReducerAfter
  <2>3. p = o
    BY <1>7, <1>8, <1>11, <2>2
  <2>4. QED
    BY <1>9, <2>1, <2>3
<1>12. CASE ChannelOf(n) # <<>> /\ ~(mode = "AM" /\ ~nr'.allocated)
  <2>1. Gate(squelch'.open, SoundOf(n))
    BY <1>12 DEF BlockWith
  <2>2. CASE squelch'.open
    <3>1. wasOpen' = TRUE /\ Encode(SoundOf(n))
      BY <2>1, <2>2 DEF Gate
    <3>2. Waits(opusBuf, o, T)
      BY <1>2, <1>5 DEF GateInv
    <3>3. PICK samples : samples = SoundOf(n)
      OBVIOUS
    <3>4. /\ Waits(opusBuf, p, T)' /\ OneStream(packets, opusBuf, T)'
          /\ Len(opusBuf') >= frameSize => packets' = <<>>
          /\ Len(opusBuf) >= frameSize /\ opusBuf' # <<>>
               => Head(opusBuf') > Head(opusBuf)
      <4>1. Follows(samples, o, T) /\ Encode(samples) /\ o + Len(samples) = p
        BY <1>7, <3>1, <3>3
      <4>2. /\ Waits(opusBuf, o + Len(samples), T)'
            /\ OneStream(packets, opusBuf, T)'
            /\ Len(opusBuf') >= frameSize => packets' = <<>>
            /\ Len(opusBuf) >= frameSize /\ opusBuf' # <<>>
                 => Head(opusBuf') > Head(opusBuf)
        BY <3>2, <4>1, EncodeStep
      <4>3. QED
        BY <4>1, <4>2
    <3>5. QED
      BY <1>2, <1>3, <1>6, <3>1, <3>4 DEF GateInv, MovesOn
  <2>3. CASE ~squelch'.open
    <3>1. wasOpen' = FALSE /\ opusBuf' = <<>> /\ packets' = <<>>
      BY <2>1, <2>3 DEF Gate, GateInv
    <3>2. Waits(<<>>, p, T) /\ OneStream(<<>>, <<>>, T)
      BY EmptyIs
    <3>3. QED
      BY <1>2, <1>3, <1>6, <3>1, <3>2 DEF GateInv, MovesOn
  <2>4. QED
    BY <2>2, <2>3
<1>13. QED
  BY <1>10, <1>11, <1>12

(* A stream that begins.                                                   *)
LEMMA GateFresh ==
  ASSUME GateInv, StreamsNow', OutAt(mode, fed)' = 0, opusBuf' = <<>>, packets' = <<>>,
         wasOpen' = wasOpen
  PROVE  GateInv' /\ MovesOn
<1>1. PICK T \in Nat \ {0} : T = Stride'
  BY Decimations DEF StreamsNow, Streams, Stride
<1>2. Waits(<<>>, 0, T) /\ OneStream(<<>>, <<>>, T)
  BY EmptyIs
<1>3. QED
  BY <1>1, <1>2 DEF GateInv, MovesOn

LEMMA GateInvStep == ASSUME GateInv, [Next]_vars PROVE GateInv' /\ MovesOn
<1>1. CASE \E n \in BlockLens, level \in Levels : BlockWith(n, level)
  BY <1>1, GateStep
<1>2. CASE Reset /\ packets' = <<>> /\ wasOpen' = wasOpen
  <2>1. StreamsNow' /\ OutAt(mode, fed)' = 0
    BY <1>2, ResetStreams DEF GateInv, StreamsNow, Streams
  <2>2. opusBuf' = <<>>
    BY <1>2 DEF Reset
  <2>3. QED
    BY <1>2, <2>1, <2>2, GateFresh
<1>3. CASE Rebuild
  <2>1. StreamsNow' /\ OutAt(mode, fed)' = 0
    BY <1>3, RebuildStreams
  <2>2. opusBuf' = <<>> /\ packets' = <<>> /\ wasOpen' = wasOpen
    BY <1>3 DEF Rebuild, BuildDSPChain
  <2>3. QED
    BY <2>1, <2>2, GateFresh
<1>4. CASE Untouched
  BY <1>4 DEF Untouched, GateInv, MovesOn, gateVars, StreamsNow, filters, Stride, Waits
<1>5. QED
  BY <1>1, <1>2, <1>3, <1>4, NextIs

LEMMA GateInit == Init => GateInv
<1> SUFFICES ASSUME Init PROVE GateInv
  OBVIOUS
<1>1. StreamsNow /\ OutAt(mode, fed) = 0
  BY StreamsInit
<1>2. PICK T \in Nat \ {0} : T = Stride
  BY <1>1, OutIs
<1>3. opusBuf = <<>> /\ packets = <<>> /\ wasOpen = FALSE
  BY DEF Init
<1>4. Waits(<<>>, 0, T) /\ OneStream(<<>>, <<>>, T)
  BY EmptyIs
<1>5. QED
  BY <1>1, <1>2, <1>3, <1>4 DEF GateInv

LEMMA GateAlways == Spec => []GateInv
<1>1. GateInv /\ [Next]_vars => GateInv'
  BY GateInvStep
<1>2. QED
  BY <1>1, GateInit, PTL DEF Spec

(* However the samples are cut into blocks, the frames that are broadcast, *)
(* and what is left for the next one, hold every audio sample of the       *)
(* stream since the last Reset and closing gate once, evenly spaced and in *)
(* order (demodBlock and the framing of the encoder).                      *)
THEOREM OneUnbrokenStream == Spec => []FramesContinuous
<1>1. GateInv => FramesContinuous
  <2> SUFFICES ASSUME GateInv PROVE FramesContinuous
    OBVIOUS
  <2>1. Stride \in Nat \ {0}
    BY OutIs DEF GateInv
  <2>2. PICK n \in Nat : Follows(FlattenSeq(packets) \o opusBuf, n, Stride)
    BY DEF GateInv, OneStream
  <2>3. Continuous(FlattenSeq(packets) \o opusBuf)
    BY <2>1, <2>2, FollowsContinuous
  <2>4. QED
    BY <2>3 DEF FramesContinuous
<1>2. QED
  BY <1>1, GateAlways, PTL

(* What waits in the encoder is the end of what came out of the chain and  *)
(* of a transmission that is not over; a whole frame waits only behind a   *)
(* refused one, and every call, refused or not, takes one that waits       *)
(* (Encode of opus.go).                                                    *)
THEOREM NothingHeldBack == Spec => EncoderKeepsUp
<1>1. GateInv => IsTheEnd(opusBuf)
  <2> SUFFICES ASSUME GateInv, opusBuf # <<>> PROVE wasOpen /\ Last(opusBuf) = Out * Stride
    BY DEF IsTheEnd
  <2>1. PICK T \in Nat \ {0}, o \in Nat : T = Stride /\ o = Out
    BY OutIs DEF GateInv
  <2>2. Waits(opusBuf, o, T)
    BY <2>1, OutIs DEF GateInv
  <2>3. PICK l \in Nat : l = Len(opusBuf) /\ l <= o /\ opusBuf \in Seq(Nat)
    BY <2>2 DEF Waits
  <2>4. l \in 1 .. l
    BY <2>3
  <2>5. opusBuf[l] = ((o - l) + l) * T
    BY <2>2, <2>3, <2>4 DEF Waits, Follows
  <2>6. (o - l) + l = o
    BY <2>3
  <2>7. QED
    BY <2>1, <2>3, <2>5, <2>6 DEF Last, GateInv
<1>2. GateInv /\ GateInv' /\ [Next]_vars
        => /\ IsTheEnd(opusBuf)'
           /\ Len(opusBuf') >= frameSize => packets' = <<>>
           /\ Len(opusBuf) >= frameSize /\ opusBuf' \notin {<<>>, opusBuf}
                => Head(opusBuf') > Head(opusBuf)
  <2>1. GateInv' => IsTheEnd(opusBuf)'
    BY <1>1, PTL
  <2>2. QED
    BY <2>1, GateInvStep DEF GateInv, MovesOn
<1>3. QED
  BY <1>2, GateAlways, PTL DEF Spec, EncoderKeepsUp

-----------------------------------------------------------------------------
(* The AGC of AM: what is promised of it, and the ranges of its counter    *)
(* and of the history it is measured by.                                   *)
AGCStates ==
  [gain : {"nothing", "this", "earlier"}, hang : {"nobody", "this", "earlier"},
   fast : 0 .. fastSamples]

AGCInv == agc \in AGCStates /\ heard \in 0 .. fastSamples /\ FindsTheStation

LEMMA AGCTypes ==
  /\ fastSamples \in Nat /\ 0 \in 0 .. fastSamples /\ fastSamples \in 0 .. fastSamples
  /\ FreshAGC \in AGCStates /\ FreshAGC.gain = "nothing"
BY LevelAssumption DEF FreshAGC, AGCStates

LEMMA AGCReset ==
  ASSUME NEW a \in AGCStates
  PROVE  ResetAGC(a) \in AGCStates /\ ResetAGC(a).gain = "nothing"
BY AGCTypes DEF ResetAGC, FreshAGC, AGCStates

LEMMA AGCRestart ==
  ASSUME NEW a \in AGCStates
  PROVE  /\ RestartAGC(a) \in AGCStates
         /\ RestartAGC(a).hang = "nobody" /\ RestartAGC(a).fast = fastSamples
BY AGCTypes DEF RestartAGC, AGCStates

LEMMA AGCEnded == ASSUME NEW a \in AGCStates PROVE Ended(a) \in AGCStates
BY DEF Ended, AGCStates

(* Samples use up the window and arm no hang but this transmission's.      *)
LEMMA AGCProcessed ==
  ASSUME NEW a \in AGCStates, NEW n \in Nat, NEW b \in Processed(a, n)
  PROVE  /\ b \in AGCStates
         /\ b.gain = "earlier" => a.gain = "earlier"
         /\ b.hang = "earlier" => a.hang = "earlier"
         /\ b.fast = IF a.fast < n THEN 0 ELSE a.fast - n
<1>1. PICK f \in 0 .. fastSamples : f = a.fast
  BY DEF AGCStates
<1>2. CASE n = 0
  <2>1. b = a
    BY <1>2 DEF Processed
  <2>2. f = IF f < n THEN 0 ELSE f - n
    BY <1>2, AGCTypes
  <2>3. QED
    BY <1>1, <2>1, <2>2
<1>3. CASE n # 0
  <2>1. PICK g \in 0 .. fastSamples : g = IF f < n THEN 0 ELSE f - n
    BY AGCTypes
  <2>2. PICK whose \in {"this", "nobody", a.hang} :
          b = [gain |-> IF a.gain = "nothing" THEN "this" ELSE a.gain,
               hang |-> whose, fast |-> g]
    BY <1>1, <1>3, <2>1 DEF Processed
  <2>3. QED
    BY <1>1, <2>1, <2>2 DEF AGCStates
<1>4. QED
  BY <1>2, <1>3

(* The samples heard and what is left of the window add up to all of it.   *)
LEMMA CappedIs ==
  ASSUME NEW h \in 0 .. fastSamples, NEW n \in Nat
  PROVE  /\ Capped(h + n) \in 0 .. fastSamples
         /\ \A f \in 0 .. fastSamples : f >= fastSamples - h =>
              (IF f < n THEN 0 ELSE f - n) >= fastSamples - Capped(h + n)
BY AGCTypes DEF Capped

LEMMA AGCGate ==
  ASSUME AGCInv, NEW open, NEW samples, Len(samples) \in Nat, Gate(open, samples),
         mode' = mode
  PROVE  AGCInv'
<1>1. CASE open /\ mode = "FM"
  <2>1. PICK h \in 0 .. fastSamples : h = IF wasOpen THEN heard ELSE 0
    BY AGCTypes DEF AGCInv
  <2>2. agc' = agc /\ heard' = Capped(h + Len(samples))
    BY <1>1, <2>1 DEF Gate
  <2>3. heard' \in 0 .. fastSamples
    BY <2>2, CappedIs
  <2>4. QED
    BY <1>1, <2>2, <2>3 DEF AGCInv, FindsTheStation
<1>2. CASE open /\ mode # "FM"
  <2>1. PICK n \in Nat : n = Len(samples)
    OBVIOUS
  <2>2. PICK a \in AGCStates, h \in 0 .. fastSamples :
          /\ a = IF wasOpen THEN agc ELSE RestartAGC(agc)
          /\ h = IF wasOpen THEN heard ELSE 0
    BY AGCRestart, AGCTypes DEF AGCInv
  <2>3. agc' \in Processed(a, n) /\ heard' = Capped(h + n)
    BY <1>2, <2>1, <2>2 DEF Gate
  <2>4. /\ agc' \in AGCStates /\ heard' \in 0 .. fastSamples
        /\ agc'.gain = "earlier" => a.gain = "earlier"
        /\ agc'.hang = "earlier" => a.hang = "earlier"
        /\ agc'.fast = IF a.fast < n THEN 0 ELSE a.fast - n
    BY <2>3, AGCProcessed, CappedIs
  <2>5. ASSUME mode = "AM", a.gain = "earlier"
        PROVE  a.hang # "earlier" /\ a.fast >= fastSamples - h
    <3>1. CASE wasOpen
      BY <2>2, <2>5, <3>1 DEF AGCInv, FindsTheStation
    <3>2. CASE ~wasOpen
      <4>1. a.hang = "nobody" /\ a.fast = fastSamples /\ h = 0
        BY <2>2, <3>2, AGCRestart DEF AGCInv
      <4>2. QED
        BY <4>1, AGCTypes
    <3>3. QED
      BY <3>1, <3>2
  <2>6. ASSUME mode = "AM", agc'.gain = "earlier"
        PROVE  agc'.hang # "earlier" /\ agc'.fast >= fastSamples - heard'
    <3>1. a.hang # "earlier" /\ a.fast >= fastSamples - h
      BY <2>4, <2>5, <2>6
    <3>2. a.fast \in 0 .. fastSamples
      BY DEF AGCStates
    <3>3. (IF a.fast < n THEN 0 ELSE a.fast - n) >= fastSamples - Capped(h + n)
      BY <3>1, <3>2, CappedIs
    <3>4. QED
      BY <2>3, <2>4, <3>1, <3>3
  <2>7. QED
    BY <2>4, <2>6 DEF AGCInv, FindsTheStation
<1>3. CASE ~open
  <2>1. agc' = Ended(agc) /\ heard' = 0 /\ wasOpen' = FALSE
    BY <1>3 DEF Gate
  <2>2. QED
    BY <2>1, AGCEnded, AGCTypes DEF AGCInv, FindsTheStation
<1>4. QED
  BY <1>1, <1>2, <1>3

LEMMA SoundLen ==
  ASSUME StreamsNow, NEW n \in Nat
  PROVE  Len(SoundOf(n)) \in Nat
<1>1. Follows(SoundOf(n), OutAt(mode, fed), Stride)
  BY SoundIs
<1>2. QED
  BY <1>1 DEF Follows

LEMMA AGCStep == ASSUME StreamsNow, AGCInv, [Next]_vars PROVE AGCInv'
<1>1. CASE \E n \in BlockLens, level \in Levels : BlockWith(n, level)
  <2>1. PICK n \in BlockLens, level \in Levels : BlockWith(n, level)
    BY <1>1
  <2>2. mode' = mode
    BY <2>1 DEF BlockWith
  <2>3. CASE UNCHANGED gateVars
    BY <2>2, <2>3 DEF gateVars, AGCInv, FindsTheStation
  <2>4. CASE Gate(squelch'.open, SoundOf(n))
    <3>1. Len(SoundOf(n)) \in Nat
      BY BlockTypes, SoundLen
    <3>2. PICK open, samples : open = squelch'.open /\ samples = SoundOf(n)
      OBVIOUS
    <3>3. Gate(open, samples) /\ Len(samples) \in Nat
      BY <2>4, <3>1, <3>2
    <3>4. QED
      BY <2>2, <3>3, AGCGate
  <2>5. QED
    BY <2>1, <2>3, <2>4 DEF BlockWith, gateVars
<1>2. CASE Reset /\ heard' = heard
  <2>1. agc' = ResetAGC(agc)
    BY <1>2 DEF Reset
  <2>2. agc' \in AGCStates /\ agc'.gain = "nothing"
    BY <2>1, AGCReset DEF AGCInv
  <2>3. QED
    BY <1>2, <2>2 DEF AGCInv, FindsTheStation
<1>3. CASE Rebuild
  <2>1. agc' = FreshAGC /\ heard' = heard
    BY <1>3 DEF Rebuild, BuildDSPChain
  <2>2. QED
    BY <2>1, AGCTypes DEF AGCInv, FindsTheStation
<1>4. CASE Untouched
  BY <1>4 DEF Untouched, gateVars, AGCInv, FindsTheStation
<1>5. QED
  BY <1>1, <1>2, <1>3, <1>4, NextIs

LEMMA AGCAlways == Spec => [](StreamsNow /\ AGCInv)
<1>1. Init => StreamsNow /\ AGCInv
  <2> SUFFICES ASSUME Init PROVE StreamsNow /\ AGCInv
    OBVIOUS
  <2>1. agc = FreshAGC /\ heard = 0
    BY DEF Init
  <2>2. QED
    BY <2>1, AGCTypes, StreamsInit DEF AGCInv, FindsTheStation
<1>2. (StreamsNow /\ AGCInv) /\ [Next]_vars => (StreamsNow /\ AGCInv)'
  BY StreamsStep, AGCStep
<1>3. QED
  BY <1>1, <1>2, PTL DEF Spec

(* While the AGC of AM still has the gain of an earlier transmission, that *)
(* transmission's hang does not hold it, and over the first fastSamples of *)
(* audio it moves at attack speed, whatever Resets and changes of mode     *)
(* come between the blocks (the gate of runPipeline, Restart and Reset of  *)
(* AudioAGC).                                                              *)
THEOREM StationIsFound == Spec => []FindsTheStation
<1>1. StreamsNow /\ AGCInv => FindsTheStation
  BY DEF AGCInv
<1>2. QED
  BY <1>1, AGCAlways, PTL

-----------------------------------------------------------------------------
(* Types.  Those of the filters follow from where they are in the stream.  *)
LEMMA StageTyped ==
  ASSUME NEW taps \in Nat \ {0}, NEW decim \in Nat \ {0}, NEW stride \in Nat \ {0},
         NEW n \in Nat, NEW stage, InStream(stage, taps, n, decim, stride),
         n * stride <= MaxFed
  PROVE  stage \in Stage(taps, decim)
<1>1. /\ stage \in [carry : Seq(Nat), phase : 0 .. decim - 1]
      /\ Len(stage.carry) = taps - 1
      /\ \A i \in 1 .. taps - 1 : stage.carry[i] = Place(n + i + 1 - taps, stride)
  BY DEF InStream, StageOf
<1>2. ASSUME NEW i \in 1 .. taps - 1 PROVE Place(n + i + 1 - taps, stride) \in 0 .. MaxFed
  <2>1. PICK k \in Int : k = n + i + 1 - taps /\ k <= n
    OBVIOUS
  <2>2. CASE k > 0
    <3>1. k \in Nat /\ k * stride <= n * stride /\ k * stride \in Nat /\ n * stride \in Nat
      BY <2>1, <2>2, TimesLess
    <3>2. k * stride <= MaxFed
      <4>1. PICK x \in Nat, y \in Nat : x = k * stride /\ y = n * stride
        BY <3>1, Zenon
      <4>2. QED
        BY <3>1, <4>1, BlockTypes
    <3>3. QED
      BY <2>1, <2>2, <3>1, <3>2 DEF Place
  <2>3. CASE ~(k > 0)
    BY <2>1, <2>3, BlockTypes DEF Place
  <2>4. QED
    BY <2>2, <2>3
<1>3. stage.carry \in [1 .. taps - 1 -> 0 .. MaxFed]
  <2>1. PICK c \in Seq(Nat) : c = stage.carry /\ Len(c) = taps - 1
    BY <1>1
  <2>2. c \in [1 .. taps - 1 -> Nat]
    BY <2>1
  <2>3. \A i \in 1 .. taps - 1 : c[i] \in 0 .. MaxFed
    BY <1>1, <1>2, <2>1
  <2>4. QED
    BY <2>1, <2>2, <2>3
<1>4. QED
  BY <1>1, <1>3 DEF Stage

LEMMA ReducerTyped ==
  ASSUME NEW n \in Nat, NEW stride \in Nat \ {0}, n * stride <= MaxFed,
         NEW r, InReducer(r, n, stride)
  PROVE  /\ r.inBuf \in Seq(1 .. MaxFed) /\ Len(r.inBuf) < fftSize
         /\ Len(r.outBuf) \in {0, hop}
<1>1. PICK H \in Nat : H = Heard(n) * hop /\ H <= n /\ n < H + 2 * hop
  BY HeardIs
<1>2. PICK buf \in Seq(Nat), l \in Nat :
        /\ buf = r.inBuf /\ l = Len(buf) /\ H + l = n
        /\ \A i \in 1 .. l : buf[i] = (H + i) * stride
  <2>1. Follows(r.inBuf, H, stride) /\ H + Len(r.inBuf) = n
    BY <1>1 DEF InReducer
  <2>2. /\ r.inBuf \in Seq(Nat)
        /\ \A i \in 1 .. Len(r.inBuf) : r.inBuf[i] = (H + i) * stride
    BY <2>1 DEF Follows
  <2>3. Len(r.inBuf) \in Nat
    BY <2>2
  <2>4. QED
    BY <2>1, <2>2, <2>3, Zenon
<1>3. ASSUME NEW i \in 1 .. l PROVE buf[i] \in 1 .. MaxFed
  <2>1. PICK k \in Nat \ {0} : k = H + i /\ k <= n
    BY <1>2
  <2>2. k * stride <= n * stride /\ k * stride \in Nat \ {0} /\ n * stride \in Nat
    BY <2>1, TimesLess
  <2>3. PICK x \in Nat \ {0}, y \in Nat : x = k * stride /\ y = n * stride
    BY <2>2, Zenon
  <2>4. x \in 1 .. MaxFed
    BY <2>2, <2>3, BlockTypes
  <2>5. QED
    BY <1>2, <2>1, <2>3, <2>4
<1>4. buf \in Seq(1 .. MaxFed)
  <2>1. buf = [i \in 1 .. l |-> buf[i]]
    BY <1>2
  <2>2. buf \in [1 .. l -> 1 .. MaxFed]
    BY <1>3, <2>1
  <2>3. QED
    <3>1. PICK S : S = 1 .. MaxFed
      OBVIOUS
    <3>2. l \in Nat /\ buf \in [1 .. l -> S]
      BY <1>2, <2>2, <3>1
    <3>3. buf \in UNION {[1 .. m -> S] : m \in Nat}
      BY <3>2, Zenon
    <3>4. buf \in Seq(S)
      BY <3>3, SeqDef, Zenon
    <3>5. QED
      BY <3>1, <3>4
<1>5. l < fftSize
  BY <1>1, <1>2, HopIs
<1>6. Len(r.outBuf) \in {0, hop}
  BY HopIs DEF InReducer
<1>7. QED
  BY <1>2, <1>4, <1>5, <1>6

LEMMA FiltersTyped ==
  ASSUME StreamsNow, fed \in 0 .. MaxFed
  PROVE  /\ xlat \in Stage(xlatTaps, XlatDecim[mode])
         /\ audio \in Stage(audioTaps, AudioDecim[mode])
         /\ voice \in Stage(voiceTaps, 1)
         /\ nr.inBuf \in Seq(1 .. MaxFed) /\ Len(nr.inBuf) < fftSize
         /\ Len(nr.outBuf) \in {0, hop}
<1>1. PICK X \in Nat \ {0}, A \in Nat \ {0}, T \in Nat \ {0} :
        X = XlatDecim[mode] /\ A = AudioDecim[mode] /\ T = TotalDecim[mode]
  BY Decimations DEF StreamsNow, Streams
<1>2. /\ InStream(xlat, xlatTaps, fed, X, 1) /\ mode \in Modes
      /\ InStream(audio, audioTaps, fed \div X, A, X)
      /\ IF mode = "FM" THEN voice = FreshStage(voiceTaps) /\ nr.inBuf = <<>> /\ nr.outBuf = <<>>
         ELSE /\ InStream(voice, voiceTaps, fed \div T, 1, T)
              /\ InReducer(nr, fed \div T, T)
  BY <1>1 DEF StreamsNow, Streams
<1>3. xlatTaps \in Nat \ {0} /\ audioTaps \in Nat \ {0} /\ voiceTaps \in Nat \ {0}
  BY Taken
<1>4. MaxFed \in Nat
  BY BlockTypes
<1>5. PICK f \in Nat, c \in Nat, n \in Nat, u \in Nat \ {0} :
        /\ f = fed /\ c = fed \div X /\ n = fed \div T /\ u = 1
        /\ f * u <= MaxFed /\ c * X <= MaxFed /\ n * T <= MaxFed
  <2>1. PICK f \in Nat : f = fed /\ f <= MaxFed
    BY <1>4
  <2>2. PICK c \in Nat, n \in Nat : c = f \div X /\ n = f \div T
    BY DivDown, Zenon
  <2>3. c * X \in Nat /\ c * X <= f /\ n * T \in Nat /\ n * T <= f
    BY <2>2, DivDown
  <2>4. PICK x \in Nat, y \in Nat : x = c * X /\ y = n * T
    BY <2>3, Zenon
  <2>5. x <= MaxFed /\ y <= MaxFed
    BY <1>4, <2>1, <2>3, <2>4
  <2>6. PICK u \in Nat \ {0} : u = 1 /\ f * u <= MaxFed
    <3>1. 1 \in Nat \ {0} /\ f * 1 <= MaxFed
      BY <2>1
    <3>2. QED
      BY <3>1, Zenon
  <2>7. c * X <= MaxFed /\ n * T <= MaxFed
    BY <2>4, <2>5, Zenon
  <2>8. c = fed \div X /\ n = fed \div T
    BY <2>1, <2>2, Zenon
  <2>9. QED
    BY <2>1, <2>6, <2>7, <2>8, Zenon
<1>6. xlat \in Stage(xlatTaps, X) /\ audio \in Stage(audioTaps, A)
  <2>1. InStream(xlat, xlatTaps, f, X, u) /\ InStream(audio, audioTaps, c, A, X)
    BY <1>2, <1>5
  <2>2. QED
    BY <1>3, <1>5, <2>1, StageTyped
<1>7. CASE mode = "FM"
  <2>1. voice \in Stage(voiceTaps, 1)
    BY <1>2, <1>3, <1>4, <1>7 DEF FreshStage, Stage
  <2>2. nr.inBuf \in Seq(1 .. MaxFed) /\ Len(nr.inBuf) = 0 /\ Len(nr.outBuf) = 0
    <3>1. <<>> \in Seq(1 .. MaxFed) /\ Len(<<>>) = 0
      OBVIOUS
    <3>2. nr.inBuf = <<>> /\ nr.outBuf = <<>>
      BY <1>2, <1>7
    <3>3. QED
      BY <3>1, <3>2
  <2>3. QED
    BY <1>1, <1>6, <2>1, <2>2, HopIs
<1>8. CASE mode = "AM"
  <2>1. InStream(voice, voiceTaps, n, u, T) /\ InReducer(nr, n, T)
    BY <1>2, <1>5, <1>8
  <2>2. voice \in Stage(voiceTaps, u)
    BY <1>3, <1>5, <2>1, StageTyped
  <2>3. /\ nr.inBuf \in Seq(1 .. MaxFed) /\ Len(nr.inBuf) < fftSize
        /\ Len(nr.outBuf) \in {0, hop}
    BY <1>5, <2>1, ReducerTyped
  <2>4. QED
    BY <1>1, <1>5, <1>6, <2>2, <2>3
<1>9. QED
  BY <1>2, <1>7, <1>8 DEF Modes

(* The rest is typed by what each step writes.                             *)
TypedSquelches ==
  [threshold : Thresholds, level : Levels \cup {0}, seeded : BOOLEAN, open : BOOLEAN,
   hangLeft : 0 .. hangSamples]

Typed ==
  /\ fed \in 0 .. MaxFed /\ squelch \in TypedSquelches /\ nr.allocated \in BOOLEAN
  /\ wasOpen \in BOOLEAN
  /\ squelchDb \in Thresholds /\ tunedHz \in Channels
  /\ retuning \in BOOLEAN /\ flush \in BOOLEAN

LEMMA UpdateTyped ==
  ASSUME NEW s \in TypedSquelches, NEW level \in Levels, NEW l \in Nat
  PROVE  Update(s, level, l) \in TypedSquelches
<1> DEFINE t == [s EXCEPT !.level = level, !.seeded = TRUE]
<1>1. t \in TypedSquelches
  BY DEF TypedSquelches
<1>2. s.hangLeft \in 0 .. hangSamples /\ hangSamples \in Nat
  BY LevelAssumption DEF TypedSquelches
<1> HIDE DEF t
<1>w. ASSUME NEW o \in BOOLEAN, NEW h \in 0 .. hangSamples
      PROVE  [t EXCEPT !.open = o, !.hangLeft = h] \in TypedSquelches
  BY <1>1 DEF TypedSquelches
<1>3. [t EXCEPT !.open = TRUE, !.hangLeft = hangSamples] \in TypedSquelches
  <2>1. hangSamples \in 0 .. hangSamples
    BY <1>2
  <2>2. QED
    BY <1>w, <2>1
<1>4. [t EXCEPT !.open = FALSE, !.hangLeft = 0] \in TypedSquelches
  <2>1. 0 \in 0 .. hangSamples
    BY <1>2
  <2>2. QED
    BY <1>w, <2>1
<1>5. ASSUME ~(s.hangLeft - l <= 0)
      PROVE  [t EXCEPT !.hangLeft = s.hangLeft - l] \in TypedSquelches
  <2>1. PICK h \in 0 .. hangSamples : h = s.hangLeft - l
    BY <1>2, <1>5
  <2>2. [t EXCEPT !.hangLeft = h] \in TypedSquelches
    BY <1>1 DEF TypedSquelches
  <2>3. QED
    BY <2>1, <2>2
<1>6. QED
  BY <1>1, <1>3, <1>4, <1>5, Zenon DEF Update, t

LEMMA JudgedTyped ==
  ASSUME squelch \in TypedSquelches, squelchDb \in Thresholds
  PROVE  Judged \in TypedSquelches
<1>1. 0 \in 0 .. hangSamples
  BY LevelAssumption
<1>2. QED
  BY <1>1 DEF Judged, SetThreshold, TypedSquelches

LEMMA TypedReset ==
  ASSUME Typed, Reset
  PROVE  /\ fed' \in 0 .. MaxFed /\ squelch' \in TypedSquelches
         /\ nr'.allocated \in BOOLEAN
<1>1. 0 \in 0 .. hangSamples /\ 0 \in 0 .. MaxFed
  BY LevelAssumption, BlockTypes
<1>2. squelch' = [squelch EXCEPT !.seeded = FALSE, !.open = FALSE, !.hangLeft = 0]
  BY DEF Reset
<1>3. squelch' \in TypedSquelches
  BY <1>1, <1>2 DEF Typed, TypedSquelches
<1>4. nr'.allocated = nr.allocated
  BY DEF Reset, FreshNR
<1>5. fed' = 0
  BY DEF Reset
<1>6. QED
  BY <1>1, <1>3, <1>4, <1>5 DEF Typed

LEMMA FreshTyped ==
  /\ 0 \in 0 .. MaxFed /\ FreshSquelch(cfgSquelchDb) \in TypedSquelches
  /\ FreshNR.allocated \in BOOLEAN
<1>1. 0 \in 0 .. hangSamples /\ 0 \in 0 .. MaxFed /\ cfgSquelchDb \in Thresholds
  BY LevelAssumption, BlockTypes
<1>2. QED
  BY <1>1 DEF FreshSquelch, TypedSquelches, FreshNR

LEMMA TypedBlock ==
  ASSUME StreamsNow, Typed, NEW n \in BlockLens, NEW level \in Levels, BlockWith(n, level)
  PROVE  Typed'
<1>1. n \in Nat
  BY BlockTypes
<1>2. fed' \in 0 .. MaxFed
  BY <1>1, BlockTypes DEF BlockWith, Typed
<1>3. UNCHANGED <<squelchDb, tunedHz, retuning, flush>>
  BY DEF BlockWith, commandVars
<1>4. CASE ChannelOf(n) = <<>>
  <2>1. UNCHANGED <<squelch, nr, wasOpen>>
    BY <1>4 DEF BlockWith, gateVars
  <2>2. QED
    BY <1>2, <1>3, <2>1 DEF Typed
<1>5. CASE ChannelOf(n) # <<>>
  <2>1. Len(ChannelOf(n)) \in Nat
    <3>1. Follows(ChannelOf(n), fed \div XlatDecim[mode], XlatDecim[mode])
      BY <1>1, BlockFilters
    <3>2. QED
      BY <3>1 DEF Follows
  <2>2. squelch' \in TypedSquelches
    <3>1. squelch' = Update(Judged, level, Len(ChannelOf(n)))
      BY <1>5 DEF BlockWith
    <3>2. Judged \in TypedSquelches
      BY JudgedTyped DEF Typed
    <3>3. QED
      BY <2>1, <3>1, <3>2, UpdateTyped
  <2>3. nr'.allocated \in BOOLEAN
    <3>1. nr' = nr \/ nr' = ReducerAfter(ReducedOf(n))
      BY <1>5 DEF BlockWith
    <3>2. QED
      <4>1. CASE nr' = nr
        BY <4>1 DEF Typed
      <4>2. CASE nr' = ReducerAfter(ReducedOf(n))
        <5>1. nr'.allocated = (nr.allocated \/ ReducedOf(n).ready > 0)
          BY <4>2 DEF ReducerAfter
        <5>2. QED
          BY <5>1, Zenon
      <4>3. QED
        BY <3>1, <4>1, <4>2
  <2>4. wasOpen' \in BOOLEAN
    <3>1. UNCHANGED gateVars \/ Gate(squelch'.open, SoundOf(n))
      BY <1>5 DEF BlockWith
    <3>2. CASE UNCHANGED gateVars
      BY <3>2 DEF gateVars, Typed
    <3>3. CASE Gate(squelch'.open, SoundOf(n))
      BY <3>3 DEF Gate, Typed
    <3>4. QED
      BY <3>1, <3>2, <3>3
  <2>5. QED
    BY <1>2, <1>3, <2>2, <2>3, <2>4 DEF Typed
<1>6. QED
  BY <1>4, <1>5

LEMMA TypedStep == ASSUME StreamsNow, Typed, [Next]_vars PROVE Typed'
<1>1. CASE Block
  BY <1>1, BlockIs, TypedBlock
<1>2. CASE Dropped \/ Flush
  <2>1. /\ fed' \in 0 .. MaxFed /\ squelch' \in TypedSquelches
        /\ nr'.allocated \in BOOLEAN
    BY <1>2, TypedReset DEF Dropped, Flush
  <2>2. /\ wasOpen' = wasOpen /\ squelchDb' = squelchDb /\ tunedHz' = tunedHz
        /\ retuning' = retuning /\ flush' \in {flush, FALSE}
    BY <1>2 DEF Dropped, Flush, commandVars
  <2>3. QED
    BY <2>1, <2>2 DEF Typed
<1>3. CASE Rebuild
  <2>1. /\ fed' = 0 /\ squelch' = FreshSquelch(cfgSquelchDb) /\ nr' = FreshNR
        /\ wasOpen' = wasOpen /\ UNCHANGED commandVars
    BY <1>3 DEF Rebuild, BuildDSPChain
  <2>2. QED
    BY <2>1, FreshTyped DEF Typed, commandVars
<1>4. CASE SetFrequency
  BY <1>4 DEF SetFrequency, Typed, filters, gateVars
<1>5. CASE Notify
  BY <1>5 DEF Notify, Typed, filters, gateVars
<1>6. CASE SetSquelch
  BY <1>6 DEF SetSquelch, Typed, filters, gateVars
<1>7. CASE UNCHANGED vars
  BY <1>7 DEF vars, Typed, filters, gateVars, commandVars
<1>8. QED
  BY <1>1, <1>2, <1>3, <1>4, <1>5, <1>6, <1>7 DEF Next

(* Type correctness: the carries are as long as their filters ask and hold *)
(* samples that were fed, the noise reducer never waits with a full window *)
(* and never has more than half of one unfinished.                         *)
THEOREM TypeCorrect == Spec => []TypeOK
<1>1. Init => StreamsNow /\ Typed
  <2> SUFFICES ASSUME Init PROVE StreamsNow /\ Typed
    OBVIOUS
  <2>1. /\ fed = 0 /\ squelch = FreshSquelch(cfgSquelchDb) /\ nr = FreshNR
        /\ wasOpen = FALSE /\ squelchDb \in Thresholds
        /\ tunedHz \in Channels /\ retuning = FALSE /\ flush = FALSE
    BY DEF Init
  <2>2. Typed
    BY <2>1, FreshTyped DEF Typed
  <2>3. QED
    BY <2>2, StreamsInit
<1>2. (StreamsNow /\ Typed) /\ [Next]_vars => (StreamsNow /\ Typed)'
  BY StreamsStep, TypedStep
<1>3. StreamsNow /\ AGCInv /\ Typed => TypeOK
  <2> SUFFICES ASSUME StreamsNow, AGCInv, Typed PROVE TypeOK
    OBVIOUS
  <2>1. mode \in Modes /\ fed \in 0 .. MaxFed
    BY DEF StreamsNow, Streams, Typed
  <2>2. /\ squelch.level \in Levels \cup {0} /\ squelch.threshold \in Thresholds
        /\ squelch.hangLeft \in 0 .. hangSamples
        /\ squelch.seeded \in BOOLEAN /\ squelch.open \in BOOLEAN
    BY DEF Typed, TypedSquelches
  <2>3. QED
    BY <2>1, <2>2, FiltersTyped DEF TypeOK, Typed, AGCInv, AGCStates
<1>4. QED
  BY <1>1, <1>2, <1>3, AGCAlways, PTL DEF Spec
=============================================================================
