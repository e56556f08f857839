------------------------- MODULE OverlapSaveProofs --------------------------
(***************************************************************************)
(* How a stream is cut into blocks makes no difference to a filter: for    *)
(* blocks of any length, taps and decimation, what comes out of one block  *)
(* and then of the next is what would come out of both as one, and it is   *)
(* exactly the outputs of the stream, each at the sample where it is due.  *)
(***************************************************************************)
EXTENDS OverlapSave, TLAPS

-----------------------------------------------------------------------------
(* Division.                                                               *)
LEMMA DivMod ==
  ASSUME NEW x \in Nat, NEW d \in Nat \ {0}
  PROVE  /\ x \div d \in Nat /\ x % d \in Nat
         /\ x = (x \div d) * d + (x % d) /\ x % d < d
<1>1. /\ x % d \in 0 .. d - 1 /\ x - (x \div d) * d = x % d
      /\ (x \div d) * d <= x /\ x < (x \div d) * d + d /\ x \div d \in Int
  OBVIOUS
<1>2. PICK f \in Int : f = x \div d
  BY <1>1, Zenon
<1>3. f * d <= x /\ x < f * d + d /\ f * d \in Int
  BY <1>1, <1>2
<1>4. f >= 0
  <2> SUFFICES ASSUME f <= -1 PROVE FALSE
    OBVIOUS
  <2>1. f * d <= -d
    OBVIOUS
  <2> QED BY <2>1, <1>3
<1>5. x = f * d + (x % d)
  <2>1. PICK r \in 0 .. d - 1 : r = x % d
    BY <1>1, Zenon
  <2>2. PICK y \in Int : y = f * d
    BY <1>3, Zenon
  <2>3. x - y = r
    BY <1>1, <1>2, <2>1, <2>2
  <2>4. x = y + r
    BY <2>3
  <2> QED BY <2>1, <2>2, <2>4
<1> QED BY <1>1, <1>2, <1>4, <1>5

LEMMA DivUnique ==
  ASSUME NEW d \in Nat \ {0}, NEW q \in Nat, NEW r \in Nat, NEW p \in Nat, NEW s \in Nat,
         r < d, s < d, q * d + r = p * d + s
  PROVE  q = p /\ r = s
<1>1. q * d \in Nat /\ p * d \in Nat
  OBVIOUS
<1>2. ~(q < p)
  <2> SUFFICES ASSUME q + 1 <= p PROVE FALSE
    OBVIOUS
  <2>1. (q + 1) * d <= p * d /\ (q + 1) * d = q * d + d
    OBVIOUS
  <2> QED BY <1>1, <2>1
<1>3. ~(p < q)
  <2> SUFFICES ASSUME p + 1 <= q PROVE FALSE
    OBVIOUS
  <2>1. (p + 1) * d <= q * d /\ (p + 1) * d = p * d + d
    OBVIOUS
  <2> QED BY <1>1, <2>1
<1>4. q = p
  BY <1>2, <1>3
<1> QED BY <1>1, <1>4

(* Outputs and phase of two blocks.                                        *)
LEMMA DivSplit ==
  ASSUME NEW x \in Nat, NEW y \in Nat, NEW d \in Nat \ {0}
  PROVE  /\ (x + y) \div d = x \div d + ((x % d) + y) \div d
         /\ (x + y) % d = ((x % d) + y) % d
<1>1. PICK q \in Nat, r \in Nat : q = x \div d /\ r = x % d
  BY DivMod, Zenon
<1>2. x = q * d + r /\ r < d
  BY <1>1, DivMod
<1>3. x + y \in Nat /\ r + y \in Nat
  OBVIOUS
<1>4. PICK p \in Nat, s \in Nat : p = (r + y) \div d /\ s = (r + y) % d
  BY <1>3, DivMod, Zenon
<1>5. r + y = p * d + s /\ s < d
  BY <1>3, <1>4, DivMod
<1>6. PICK u \in Nat, v \in Nat : u = (x + y) \div d /\ v = (x + y) % d
  BY <1>3, DivMod, Zenon
<1>7. x + y = u * d + v /\ v < d
  BY <1>3, <1>6, DivMod
<1>8. (q + p) * d = q * d + p * d
  OBVIOUS
<1>9. u * d + v = (q + p) * d + s
  <2>1. q * d \in Nat /\ p * d \in Nat /\ u * d \in Nat
    OBVIOUS
  <2> QED BY <1>2, <1>5, <1>7, <1>8, <2>1
<1>10. q + p \in Nat
  OBVIOUS
<1>11. u = q + p /\ v = s
  BY <1>5, <1>7, <1>9, <1>10, DivUnique
<1> QED BY <1>1, <1>4, <1>6, <1>11

-----------------------------------------------------------------------------
(* Concatenation, element by element.                                      *)
LEMMA Joined ==
  ASSUME NEW S, NEW s \in Seq(S), NEW t \in Seq(S)
  PROVE  /\ s \o t \in Seq(S) /\ Len(s \o t) = Len(s) + Len(t)
         /\ \A i \in 1 .. Len(s) : (s \o t)[i] = s[i]
         /\ \A i \in 1 .. Len(t) : (s \o t)[Len(s) + i] = t[i]
OBVIOUS

(* A stage whose filter has `taps' taps, in the middle of a stream.        *)
StageOf(S, decim) == [carry : Seq(S), phase : 0 .. decim - 1]

(* What the second block is filtered in is the end of what both would be   *)
(* filtered in together.                                                   *)
LEMMA WindowTail ==
  ASSUME NEW S, NEW decim \in Nat \ {0}, NEW stage \in StageOf(S, decim),
         NEW a \in Seq(S), NEW b \in Seq(S)
  PROVE  LET next == Save(stage, a, decim)
             both == Window(stage, a \o b)
         IN  /\ next \in StageOf(S, decim) /\ Taps(next) = Taps(stage)
             /\ next.phase = (stage.phase + Len(a)) % decim
             /\ Len(Window(stage, a)) = Len(stage.carry) + Len(a)
             /\ \A i \in 1 .. Len(stage.carry) + Len(a) : both[i] = Window(stage, a)[i]
             /\ Len(Window(next, b)) = Len(stage.carry) + Len(b)
             /\ \A i \in 1 .. Len(stage.carry) + Len(b) :
                  Window(next, b)[i] = both[i + Len(a)]
<1> DEFINE c == stage.carry
           next == Save(stage, a, decim)
           both == Window(stage, a \o b)
           work == Window(stage, a)
<1>1. /\ c \in Seq(S) /\ Len(c) \in Nat /\ Len(a) \in Nat /\ Len(b) \in Nat
      /\ stage.phase \in Nat
  BY DEF StageOf
<1>2. /\ work \in Seq(S) /\ Len(work) = Len(c) + Len(a)
      /\ \A i \in 1 .. Len(c) : work[i] = c[i]
      /\ \A i \in 1 .. Len(a) : work[Len(c) + i] = a[i]
  BY <1>1, Joined DEF Window
<1>3. /\ \A i \in 1 .. Len(c) : both[i] = c[i]
      /\ \A i \in 1 .. Len(a) : both[Len(c) + i] = a[i]
      /\ \A i \in 1 .. Len(b) : both[Len(c) + (Len(a) + i)] = b[i]
  <2> DEFINE ab == a \o b
  <2>1. /\ ab \in Seq(S) /\ Len(ab) = Len(a) + Len(b)
        /\ \A i \in 1 .. Len(a) : ab[i] = a[i]
        /\ \A i \in 1 .. Len(b) : ab[Len(a) + i] = b[i]
    BY <1>1, Joined
  <2>2. both = c \o ab
    BY DEF Window
  <2> HIDE DEF ab, both, c
  <2>3. /\ \A i \in 1 .. Len(c) : both[i] = c[i]
        /\ \A i \in 1 .. Len(ab) : both[Len(c) + i] = ab[i]
    BY <1>1, <2>1, <2>2, Joined
  <2>4. ASSUME NEW i \in 1 .. Len(b) PROVE both[Len(c) + (Len(a) + i)] = b[i]
    <3>1. Len(a) + i \in 1 .. Len(ab)
      BY <1>1, <2>1
    <3> QED BY <2>1, <2>3, <3>1
  <2>5. ASSUME NEW i \in 1 .. Len(a) PROVE both[Len(c) + i] = a[i]
    <3>1. i \in 1 .. Len(ab)
      BY <1>1, <2>1
    <3> QED BY <2>1, <2>3, <3>1
  <2> QED BY <2>3, <2>4, <2>5
<1>4. next.carry = SubSeq(work, Len(a) + 1, Len(c) + Len(a))
  <2>1. Len(work) - Taps(stage) + 2 = Len(a) + 1
    BY <1>1, <1>2 DEF Taps
  <2>2. next.carry = SubSeq(work, Len(work) - Taps(stage) + 2, Len(work))
    BY DEF Save
  <2> QED BY <1>2, <2>1, <2>2
<1>5. /\ next.carry \in Seq(S) /\ Len(next.carry) = Len(c)
      /\ \A i \in 1 .. Len(c) : next.carry[i] = work[i + Len(a)]
  <2> HIDE DEF work, next, c
  <2>1. Len(a) + 1 \in 1 .. Len(work) + 1 /\ Len(c) + Len(a) = Len(work)
    BY <1>1, <1>2
  <2> QED BY <1>1, <1>2, <1>4, <2>1
<1>6. next.phase = (stage.phase + Len(a)) % decim /\ next.phase \in 0 .. decim - 1
  BY <1>1 DEF Save
<1>7. next \in StageOf(S, decim) /\ Taps(next) = Taps(stage)
  <2>1. next = [carry |-> next.carry, phase |-> next.phase]
    BY DEF Save
  <2> HIDE DEF next
  <2> QED BY <1>5, <1>6, <2>1 DEF StageOf, Taps
<1>8. /\ Len(Window(next, b)) = Len(c) + Len(b)
      /\ \A i \in 1 .. Len(c) : Window(next, b)[i] = next.carry[i]
      /\ \A i \in 1 .. Len(b) : Window(next, b)[Len(c) + i] = b[i]
  <2>1. Window(next, b) = next.carry \o b
    BY DEF Window
  <2> HIDE DEF next, c
  <2>2. /\ Len(next.carry \o b) = Len(next.carry) + Len(b)
        /\ \A i \in 1 .. Len(next.carry) : (next.carry \o b)[i] = next.carry[i]
        /\ \A i \in 1 .. Len(b) : (next.carry \o b)[Len(next.carry) + i] = b[i]
    <3>1. PICK carry \in Seq(S) : carry = next.carry
      BY <1>5, Zenon
    <3>2. /\ Len(carry \o b) = Len(carry) + Len(b)
          /\ \A i \in 1 .. Len(carry) : (carry \o b)[i] = carry[i]
          /\ \A i \in 1 .. Len(b) : (carry \o b)[Len(carry) + i] = b[i]
      BY Joined
    <3> QED BY <3>1, <3>2
  <2> QED BY <1>5, <2>1, <2>2
<1> HIDE DEF c, next, both, work
<1>9. ASSUME NEW i \in 1 .. Len(c) + Len(a) PROVE both[i] = work[i]
  <2>1. CASE i <= Len(c)
    BY <1>1, <1>2, <1>3, <2>1
  <2>2. CASE i > Len(c)
    <3>1. i - Len(c) \in 1 .. Len(a) /\ Len(c) + (i - Len(c)) = i
      BY <1>1, <2>2
    <3> QED BY <1>2, <1>3, <3>1
  <2> QED BY <1>1, <2>1, <2>2
<1>10. ASSUME NEW i \in 1 .. Len(c) + Len(b) PROVE Window(next, b)[i] = both[i + Len(a)]
  <2>1. CASE i <= Len(c)
    <3>1. i \in 1 .. Len(c) /\ i + Len(a) \in 1 .. Len(c) + Len(a)
      BY <1>1, <2>1
    <3>2. Window(next, b)[i] = work[i + Len(a)]
      BY <1>5, <1>8, <3>1
    <3> QED BY <1>9, <3>1, <3>2
  <2>2. CASE i > Len(c)
    <3>1. /\ i - Len(c) \in 1 .. Len(b) /\ Len(c) + (i - Len(c)) = i
          /\ Len(c) + (Len(a) + (i - Len(c))) = i + Len(a)
      BY <1>1, <2>2
    <3>2. Window(next, b)[i] = b[i - Len(c)]
      BY <1>8, <3>1
    <3>3. both[i + Len(a)] = b[i - Len(c)]
      BY <1>3, <3>1
    <3> QED BY <3>2, <3>3
  <2> QED BY <1>1, <2>1, <2>2
<1> QED BY <1>2, <1>6, <1>7, <1>8, <1>9, <1>10 DEF c, next, both, work

(* The inputs of one output.                                               *)
Piece(s, m, p) == SubSeq(s, m, m + p - 1)
Alike(s, m, t, n, p) == \A j \in 1 .. p : s[m + j - 1] = t[n + j - 1]

(* Convolving the same inputs gives the same output.                       *)
LEMMA SameInputs ==
  ASSUME NEW s, NEW t, NEW m \in Nat, NEW n \in Nat, NEW p \in Nat, NEW stride,
         Alike(s, m, t, n, p)
  PROVE  Convolve(Piece(s, m, p), stride) = Convolve(Piece(t, n, p), stride)
<1>1. 1 + (m + p - 1) - m = p /\ 1 + (n + p - 1) - n = p
  OBVIOUS
<1>2. SubSeq(s, m, m + p - 1) = [j \in 1 .. p |-> s[m + j - 1]]
  <2>1. \A j \in 1 .. p : j + m - 1 = m + j - 1
    OBVIOUS
  <2> QED BY <1>1, <2>1
<1>3. SubSeq(t, n, n + p - 1) = [j \in 1 .. p |-> t[n + j - 1]]
  <2>1. \A j \in 1 .. p : j + n - 1 = n + j - 1
    OBVIOUS
  <2> QED BY <1>1, <2>1
<1> QED BY <1>2, <1>3 DEF Piece, Alike

(* The state after two blocks is the state after both as one.              *)
THEOREM SavedAlike ==
  ASSUME NEW S, NEW decim \in Nat \ {0}, NEW stage \in StageOf(S, decim),
         NEW a \in Seq(S), NEW b \in Seq(S)
  PROVE  Save(Save(stage, a, decim), b, decim) = Save(stage, a \o b, decim)
<1> DEFINE next == Save(stage, a, decim)
           last == Save(next, b, decim)
           once == Save(stage, a \o b, decim)
           both == Window(stage, a \o b)
           n == Len(stage.carry)
<1>1. /\ n \in Nat /\ Len(a) \in Nat /\ Len(b) \in Nat /\ stage.phase \in Nat
      /\ stage.carry \in Seq(S)
  BY DEF StageOf
<1>2. /\ next \in StageOf(S, decim) /\ Taps(next) = n + 1
      /\ next.phase = (stage.phase + Len(a)) % decim
      /\ Len(Window(next, b)) = n + Len(b)
      /\ \A i \in 1 .. n + Len(b) : Window(next, b)[i] = both[i + Len(a)]
  BY WindowTail DEF Taps
<1>3. a \o b \in Seq(S) /\ Len(a \o b) = Len(a) + Len(b)
  BY Joined
<1>4. Len(both) = n + (Len(a) + Len(b))
  BY <1>1, <1>3, Joined DEF Window
<1>5. last.phase = once.phase
  <2>1. last.phase = (next.phase + Len(b)) % decim
    BY DEF Save
  <2>2. once.phase = (stage.phase + Len(a \o b)) % decim
    BY DEF Save
  <2>3. stage.phase + (Len(a) + Len(b)) = (stage.phase + Len(a)) + Len(b)
    BY <1>1
  <2>4. stage.phase + Len(a) \in Nat
    BY <1>1
  <2>5. (stage.phase + Len(a) + Len(b)) % decim
          = (((stage.phase + Len(a)) % decim) + Len(b)) % decim
    BY <1>1, <2>4, DivSplit
  <2> HIDE DEF next, last, once
  <2>6. last.phase = (((stage.phase + Len(a)) % decim) + Len(b)) % decim
    BY <1>2, <2>1
  <2>7. once.phase = (stage.phase + (Len(a) + Len(b))) % decim
    BY <1>3, <2>2
  <2> QED BY <2>3, <2>5, <2>6, <2>7
<1>6. last.carry = once.carry
  <2>1. last.carry = SubSeq(Window(next, b), Len(Window(next, b)) - Taps(next) + 2,
                            Len(Window(next, b)))
    BY DEF Save
  <2>2. once.carry = SubSeq(both, Len(both) - Taps(stage) + 2, Len(both))
    BY DEF Save
  <2>3. Taps(stage) = n + 1
    BY DEF Taps
  <2> DEFINE w == Window(next, b)
  <2> HIDE DEF next, last, once, both, n, w
  <2>4. last.carry = SubSeq(w, Len(b) + 1, n + Len(b))
    <3>1. Len(w) - Taps(next) + 2 = Len(b) + 1 /\ Len(w) = n + Len(b)
      BY <1>1, <1>2 DEF w
    <3> QED BY <2>1, <3>1 DEF w
  <2>5. once.carry = SubSeq(both, Len(a) + Len(b) + 1, n + (Len(a) + Len(b)))
    <3>1. Len(both) - Taps(stage) + 2 = Len(a) + Len(b) + 1
      BY <1>1, <1>4, <2>3
    <3> QED BY <1>4, <2>2, <3>1
  <2>6. \A i \in 1 .. n : w[i + (Len(b) + 1) - 1] = both[i + (Len(a) + Len(b) + 1) - 1]
    <3> SUFFICES ASSUME NEW i \in 1 .. n
                 PROVE  w[i + (Len(b) + 1) - 1] = both[i + (Len(a) + Len(b) + 1) - 1]
      OBVIOUS
    <3>1. /\ i + (Len(b) + 1) - 1 = i + Len(b) /\ i + Len(b) \in 1 .. n + Len(b)
          /\ i + (Len(a) + Len(b) + 1) - 1 = i + Len(b) + Len(a)
      BY <1>1
    <3> QED BY <1>2, <3>1 DEF w
  <2>7. /\ 1 + (n + Len(b)) - (Len(b) + 1) = n
        /\ 1 + (n + (Len(a) + Len(b))) - (Len(a) + Len(b) + 1) = n
    BY <1>1
  <2>8. SubSeq(w, Len(b) + 1, n + Len(b)) = [i \in 1 .. n |-> w[i + (Len(b) + 1) - 1]]
    BY <1>1, <2>7
  <2>9. SubSeq(both, Len(a) + Len(b) + 1, n + (Len(a) + Len(b)))
          = [i \in 1 .. n |-> both[i + (Len(a) + Len(b) + 1) - 1]]
    BY <1>1, <2>7
  <2> QED BY <2>4, <2>5, <2>6, <2>8, <2>9
<1>7. last = [carry |-> last.carry, phase |-> last.phase]
  BY DEF Save
<1>8. once = [carry |-> once.carry, phase |-> once.phase]
  BY DEF Save
<1> HIDE DEF last, once
<1>9. last = once
  BY <1>5, <1>6, <1>7, <1>8
<1> QED BY <1>9 DEF last, once, next

LEMMA Ahead ==
  ASSUME NEW q \in Nat, NEW k \in Nat, NEW d \in Nat, NEW h \in Nat, NEW l \in Nat,
         NEW r \in Nat, h + l = q * d + r
  PROVE  k * d - r + l = (q + k) * d - h
<1>1. (q + k) * d = q * d + k * d
  OBVIOUS
<1>2. PICK x \in Nat, y \in Nat, z \in Nat : x = q * d /\ y = k * d /\ z = (q + k) * d
  <2>1. q * d \in Nat /\ k * d \in Nat /\ (q + k) * d \in Nat
    OBVIOUS
  <2> QED BY <2>1, Zenon
<1>3. z = x + y /\ h + l = x + r
  BY <1>1, <1>2
<1>4. y - r + l = z - h
  BY <1>3
<1> QED BY <1>2, <1>4

(* What comes out of the first block and then of the second is what comes  *)
(* out of both as one, sample by sample, so there is nothing to hear where *)
(* one block ends and the next begins.                                     *)
THEOREM FilteredAlike ==
  ASSUME NEW S, NEW decim \in Nat \ {0}, NEW stride, NEW stage \in StageOf(S, decim),
         NEW a \in Seq(S), NEW b \in Seq(S)
  PROVE  LET next == Save(stage, a, decim)
             once == Filter(stage, a \o b, decim, stride)
             first == Filter(stage, a, decim, stride)
             second == Filter(next, b, decim, stride)
             m == Outputs(stage, a, decim)
         IN  /\ Outputs(stage, a \o b, decim) = m + Outputs(next, b, decim)
             /\ \A k \in 1 .. m : once[k] = first[k]
             /\ \A k \in 1 .. Outputs(next, b, decim) : once[m + k] = second[k]
<1> DEFINE next == Save(stage, a, decim)
           both == Window(stage, a \o b)
           work == Window(stage, a)
           w == Window(next, b)
           n == Len(stage.carry)
           m == Outputs(stage, a, decim)
           o == Outputs(next, b, decim)
           ph == stage.phase
           once == Filter(stage, a \o b, decim, stride)
           first == Filter(stage, a, decim, stride)
           second == Filter(next, b, decim, stride)
<1>1. /\ n \in Nat /\ Len(a) \in Nat /\ Len(b) \in Nat /\ ph \in 0 .. decim - 1
      /\ ph + Len(a) \in Nat
  BY DEF StageOf
<1>2. /\ next \in StageOf(S, decim) /\ Taps(next) = n + 1 /\ Taps(stage) = n + 1
      /\ next.phase = (ph + Len(a)) % decim
      /\ \A i \in 1 .. n + Len(a) : both[i] = work[i]
      /\ \A i \in 1 .. n + Len(b) : w[i] = both[i + Len(a)]
  BY WindowTail DEF Taps
<1>3. a \o b \in Seq(S) /\ Len(a \o b) = Len(a) + Len(b)
  BY Joined
<1>4. next.phase \in 0 .. decim - 1
  BY <1>2 DEF StageOf
<1>5. m = (ph + Len(a)) \div decim /\ o = (next.phase + Len(b)) \div decim
  BY DEF Outputs
<1>6. /\ \A k \in 1 .. m + o :
           once[k] = Convolve(Piece(both, k * decim - ph, n + 1), stride)
           \/ ~(k \in 1 .. Outputs(stage, a \o b, decim))
      /\ \A k \in 1 .. m :
           first[k] = Convolve(Piece(work, k * decim - ph, n + 1), stride)
      /\ \A k \in 1 .. o :
           second[k] = Convolve(Piece(w, k * decim - next.phase, n + 1), stride)
  <2> USE <1>2 DEF Filter, Piece
  <2> HIDE DEF m, o, n, ph
  <2> QED BY DEF m, o, ph
<1> HIDE DEF next, both, work, w, n, m, o, ph, once, first, second
<1>7. Outputs(stage, a \o b, decim) = m + o
  <2>1. Outputs(stage, a \o b, decim) = (ph + (Len(a) + Len(b))) \div decim
    BY <1>3 DEF Outputs, ph
  <2>2. ph + (Len(a) + Len(b)) = ph + Len(a) + Len(b)
    BY <1>1
  <2>3. (ph + Len(a) + Len(b)) \div decim
          = (ph + Len(a)) \div decim + (((ph + Len(a)) % decim) + Len(b)) \div decim
    BY <1>1, DivSplit
  <2> QED BY <1>2, <1>5, <2>1, <2>2, <2>3
<1>8. PICK q \in Nat, r \in Nat : q = m /\ r = next.phase
  <2>1. m \in Nat /\ next.phase \in Nat
    BY <1>1, <1>4, <1>5, DivMod
  <2> QED BY <2>1, Zenon
<1>9. ph + Len(a) = q * decim + r
  <2>1. ph + Len(a) = ((ph + Len(a)) \div decim) * decim + ((ph + Len(a)) % decim)
    BY <1>1, DivMod
  <2>2. q = (ph + Len(a)) \div decim /\ r = (ph + Len(a)) % decim
    BY <1>2, <1>5, <1>8
  <2> QED BY <2>1, <2>2, Zenon
<1>10. PICK u \in Nat : u = o /\ u * decim <= r + Len(b)
  <2>1. r + Len(b) \in Nat
    BY <1>1
  <2>2. PICK y \in Nat, v \in Nat : y = (r + Len(b)) \div decim /\ v = (r + Len(b)) % decim
    BY <2>1, DivMod, Zenon
  <2>3. r + Len(b) = y * decim + v
    BY <2>1, <2>2, DivMod
  <2>4. y * decim \in Nat
    OBVIOUS
  <2>5. y * decim <= r + Len(b)
    BY <2>3, <2>4
  <2>6. y = o
    BY <1>5, <1>8, <2>2
  <2> QED BY <2>5, <2>6
<1>11. ASSUME NEW k \in 1 .. m PROVE once[k] = first[k]
  <2>1. /\ k * decim <= q * decim /\ k * decim >= decim /\ k * decim \in Nat
        /\ q * decim \in Nat
    BY <1>8
  <2>2. PICK i \in Nat : i = k * decim - ph
    <3>1. k * decim - ph \in Nat
      BY <1>1, <2>1
    <3> QED BY <3>1, Zenon
  <2>3. 1 <= i /\ i <= Len(a)
    BY <1>1, <1>9, <2>1, <2>2
  <2>4. Alike(both, i, work, i, n + 1)
    <3> SUFFICES ASSUME NEW j \in 1 .. n + 1 PROVE both[i + j - 1] = work[i + j - 1]
      BY DEF Alike
    <3>1. i + j - 1 \in 1 .. n + Len(a)
      BY <1>1, <2>3
    <3> QED BY <1>2, <3>1
  <2>5. n + 1 \in Nat
    BY <1>1
  <2>6. Convolve(Piece(both, i, n + 1), stride)
          = Convolve(Piece(work, i, n + 1), stride)
    BY <2>4, <2>5, SameInputs
  <2>7. k \in 1 .. m + o
    BY <1>8, <1>10
  <2> QED BY <1>6, <1>7, <2>2, <2>6, <2>7
<1>12. ASSUME NEW k \in 1 .. o PROVE once[m + k] = second[k]
  <2>1. /\ k * decim <= u * decim /\ k * decim >= decim /\ k * decim \in Nat
        /\ u * decim \in Nat /\ q * decim \in Nat /\ k \in Nat
    BY <1>10
  <2>2. PICK i \in Nat : i = k * decim - next.phase
    <3>1. k * decim - next.phase \in Nat
      BY <1>4, <2>1
    <3> QED BY <3>1, Zenon
  <2>3. 1 <= i /\ i <= Len(b)
    <3>1. next.phase \in Nat /\ next.phase < decim
      BY <1>4
    <3>2. u * decim <= next.phase + Len(b)
      BY <1>8, <1>10
    <3>3. PICK kd \in Nat, ud \in Nat : kd = k * decim /\ ud = u * decim
      BY <2>1, Zenon
    <3>4. kd <= ud /\ kd >= decim /\ ud <= next.phase + Len(b) /\ i = kd - next.phase
      BY <2>1, <2>2, <3>2, <3>3
    <3> QED BY <1>1, <3>1, <3>4
  <2>4. i + Len(a) = (m + k) * decim - ph
    <3>1. PICK l \in Nat, h \in Nat : l = Len(a) /\ h = ph
      BY <1>1, <1>4
    <3>2. k * decim - r + l = (q + k) * decim - h
      BY <1>9, <2>1, <3>1, Ahead
    <3> QED BY <1>8, <2>2, <3>1, <3>2
  <2>5. Alike(both, i + Len(a), w, i, n + 1)
    <3> SUFFICES ASSUME NEW j \in 1 .. n + 1 PROVE both[(i + Len(a)) + j - 1] = w[i + j - 1]
      BY DEF Alike
    <3>1. i + j - 1 \in 1 .. n + Len(b) /\ (i + Len(a)) + j - 1 = (i + j - 1) + Len(a)
      BY <1>1, <2>3
    <3> QED BY <1>2, <3>1
  <2>6. n + 1 \in Nat /\ i + Len(a) \in Nat
    BY <1>1
  <2>7. Convolve(Piece(both, i + Len(a), n + 1), stride)
          = Convolve(Piece(w, i, n + 1), stride)
    BY <2>5, <2>6, SameInputs
  <2>8. m + k \in 1 .. m + o
    BY <1>8, <1>10
  <2>9. once[m + k] = Convolve(Piece(both, i + Len(a), n + 1), stride)
    BY <1>6, <1>7, <2>4, <2>8
  <2>10. second[k] = Convolve(Piece(w, i, n + 1), stride)
    BY <1>6, <2>2
  <2> QED BY <2>7, <2>9, <2>10
<1> QED BY <1>7, <1>11, <1>12 DEF next, m, o, once, first, second

-----------------------------------------------------------------------------
(* A filter in the middle of a stream.  The k-th sample of the stream is   *)
(* k * stride, and zeros stand before the first.                           *)
Place(k, stride) == IF k > 0 THEN k * stride ELSE 0

(* The samples that come after the n-th.                                   *)
Follows(s, n, stride) ==
  s \in Seq(Nat) /\ \A i \in 1 .. Len(s) : s[i] = (n + i) * stride

(* A filter that has taken the first n samples.                            *)
InStream(stage, taps, n, decim, stride) ==
  /\ stage \in StageOf(Nat, decim) /\ Len(stage.carry) = taps - 1
  /\ stage.phase = n % decim
  /\ \A i \in 1 .. taps - 1 : stage.carry[i] = Place(n + i + 1 - taps, stride)

LEMMA FreshInStream ==
  ASSUME NEW taps \in Nat \ {0}, NEW decim \in Nat \ {0}, NEW stride \in Nat \ {0}
  PROVE  InStream(FreshStage(taps), taps, 0, decim, stride)
<1> DEFINE c == [i \in 1 .. taps - 1 |-> 0]
<1>1. taps - 1 \in Nat
  OBVIOUS
<1>2. c \in Seq(Nat) /\ Len(c) = taps - 1 /\ \A i \in 1 .. taps - 1 : c[i] = 0
  BY <1>1
<1>3. 0 % decim = 0 /\ 0 \in 0 .. decim - 1
  OBVIOUS
<1>4. \A i \in 1 .. taps - 1 : Place(0 + i + 1 - taps, stride) = 0
  BY DEF Place
<1>5. FreshStage(taps) = [carry |-> c, phase |-> 0]
  BY DEF FreshStage
<1> HIDE DEF c
<1>6. FreshStage(taps).carry = c /\ FreshStage(taps).phase = 0
  BY <1>5
<1>7. FreshStage(taps) \in StageOf(Nat, decim)
  BY <1>2, <1>3, <1>5 DEF StageOf
<1>8. QED
  BY <1>2, <1>3, <1>4, <1>6, <1>7 DEF InStream

LEMMA WorkInStream ==
  ASSUME NEW taps \in Nat \ {0}, NEW decim \in Nat \ {0}, NEW stride \in Nat \ {0},
         NEW n \in Nat, NEW stage, InStream(stage, taps, n, decim, stride),
         NEW in, Follows(in, n, stride)
  PROVE  /\ Window(stage, in) \in Seq(Nat) /\ Len(in) \in Nat
         /\ Len(Window(stage, in)) = taps - 1 + Len(in)
         /\ \A i \in 1 .. taps - 1 + Len(in) :
              Window(stage, in)[i] = Place(n + i + 1 - taps, stride)
<1> DEFINE c == stage.carry
<1>1. /\ c \in Seq(Nat) /\ Len(c) = taps - 1 /\ in \in Seq(Nat) /\ Len(in) \in Nat
      /\ \A i \in 1 .. taps - 1 : c[i] = Place(n + i + 1 - taps, stride)
      /\ \A i \in 1 .. Len(in) : in[i] = (n + i) * stride
  BY DEF InStream, StageOf, Follows
<1>2. Window(stage, in) = c \o in
  BY DEF Window
<1> HIDE DEF c
<1>c. \A s \in Seq(Nat), t \in Seq(Nat) :
        /\ s \o t \in Seq(Nat) /\ Len(s \o t) = Len(s) + Len(t)
        /\ \A i \in 1 .. Len(s) : (s \o t)[i] = s[i]
        /\ \A i \in 1 .. Len(t) : (s \o t)[Len(s) + i] = t[i]
  BY Joined
<1>3. /\ c \o in \in Seq(Nat) /\ Len(c \o in) = Len(c) + Len(in)
      /\ \A i \in 1 .. Len(c) : (c \o in)[i] = c[i]
      /\ \A i \in 1 .. Len(in) : (c \o in)[Len(c) + i] = in[i]
  BY <1>1, <1>c, Zenon
<1>4. ASSUME NEW i \in 1 .. taps - 1 + Len(in)
      PROVE  (c \o in)[i] = Place(n + i + 1 - taps, stride)
  <2>1. CASE i <= taps - 1
    <3>1. i \in 1 .. taps - 1 /\ i \in 1 .. Len(c)
      BY <1>1, <2>1
    <3>2. QED
      BY <1>1, <1>3, <3>1
  <2>2. CASE i > taps - 1
    <3>1. PICK j \in 1 .. Len(in) : i = Len(c) + j /\ j = i + 1 - taps
      <4>1. i + 1 - taps \in 1 .. Len(in) /\ i = Len(c) + (i + 1 - taps)
        BY <1>1, <2>2
      <4>2. QED
        BY <4>1
    <3>2. (c \o in)[i] = (n + j) * stride
      BY <1>1, <1>3, <3>1
    <3>3. n + i + 1 - taps = n + j /\ n + j > 0
      BY <1>1, <3>1
    <3>4. QED
      BY <3>2, <3>3 DEF Place
  <2>3. i <= taps - 1 \/ i > taps - 1
    BY <1>1
  <2>4. QED
    BY <2>1, <2>2, <2>3, Zenon
<1>5. QED
  BY <1>1, <1>2, <1>3, <1>4

(* What it keeps is what a filter that had taken the block too would keep. *)
LEMMA SaveInStream ==
  ASSUME NEW taps \in Nat \ {0}, NEW decim \in Nat \ {0}, NEW stride \in Nat \ {0},
         NEW n \in Nat, NEW stage, InStream(stage, taps, n, decim, stride),
         NEW in, Follows(in, n, stride)
  PROVE  InStream(Save(stage, in, decim), taps, n + Len(in), decim, stride)
<1> DEFINE work == Window(stage, in)
           next == Save(stage, in, decim)
           l == Len(in)
<1>1. /\ work \in Seq(Nat) /\ l \in Nat /\ Len(work) = taps - 1 + l
      /\ \A i \in 1 .. taps - 1 + l : work[i] = Place(n + i + 1 - taps, stride)
  BY WorkInStream
<1>2. /\ next = [carry |-> next.carry, phase |-> next.phase]
      /\ next.carry = SubSeq(work, Len(work) - Taps(stage) + 2, Len(work))
      /\ next.phase = (stage.phase + l) % decim
  BY DEF Save
<1>3. Taps(stage) = taps /\ stage.phase = n % decim
  BY DEF InStream, Taps
<1> HIDE DEF work, next, l
<1>4. next.carry = SubSeq(work, l + 1, taps - 1 + l)
  <2>1. Len(work) - taps + 2 = l + 1
    BY <1>1
  <2>2. QED
    BY <1>1, <1>2, <1>3, <2>1
<1>5. /\ next.carry \in Seq(Nat) /\ Len(next.carry) = taps - 1
      /\ \A i \in 1 .. taps - 1 : next.carry[i] = work[i + l]
  <2>1. l + 1 \in 1 .. Len(work) + 1 /\ taps - 1 + l = Len(work)
    BY <1>1
  <2>2. QED
    BY <1>1, <1>4, <2>1
<1>6. ASSUME NEW i \in 1 .. taps - 1
      PROVE  next.carry[i] = Place((n + l) + i + 1 - taps, stride)
  <2>1. PICK e \in 1 .. taps - 1 + l : e = i + l
    BY <1>1
  <2>2. next.carry[i] = Place(n + e + 1 - taps, stride)
    BY <1>1, <1>5, <2>1
  <2>3. n + e + 1 - taps = (n + l) + i + 1 - taps
    BY <1>1, <2>1
  <2>4. QED
    BY <2>2, <2>3
<1>7. next.phase = (n + l) % decim /\ next.phase \in 0 .. decim - 1
  <2>1. (n + l) % decim = ((n % decim) + l) % decim
    BY <1>1, DivSplit
  <2>2. (n + l) % decim \in Nat /\ (n + l) % decim < decim
    BY <1>1, DivMod
  <2>3. QED
    BY <1>2, <1>3, <2>1, <2>2
<1>8. next \in StageOf(Nat, decim)
  BY <1>2, <1>5, <1>7 DEF StageOf
<1>9. QED
  BY <1>5, <1>6, <1>7, <1>8 DEF InStream, next, l

(* Places behind the newest.                                               *)
LEMMA Behind ==
  ASSUME NEW p \in Nat, NEW a \in Nat, NEW stride \in Nat \ {0}
  PROVE  Place(p - a, stride) =
           IF p * stride - a * stride > 0 THEN p * stride - a * stride ELSE 0
<1>1. (p - a) * stride = p * stride - a * stride
  OBVIOUS
<1>2. p * stride \in Int /\ a * stride \in Int
  OBVIOUS
<1>3. p - a > 0 => (p - a) * stride > 0
  OBVIOUS
<1>4. ~(p - a > 0) => (p - a) * stride <= 0
  OBVIOUS
<1>5. QED
  BY <1>1, <1>2, <1>3, <1>4 DEF Place

(* The inputs of the output at p.                                          *)
UpTo(w, taps, p, stride) == \A j \in 1 .. taps : w[j] = Place(p - (taps - j), stride)

LEMMA ConvolveInStream ==
  ASSUME NEW taps \in Nat \ {0}, NEW stride \in Nat \ {0}, NEW p \in Nat \ {0},
         NEW w \in Seq(Nat), Len(w) = taps,
         UpTo(w, taps, p, stride)
  PROVE  Convolve(w, stride) = p * stride
<1>1. w[taps] = p * stride
  <2>1. taps \in 1 .. taps /\ p - (taps - taps) = p
    OBVIOUS
  <2>2. QED
    BY <2>1 DEF Place, UpTo
<1>2. ASSUME NEW j \in 1 .. taps
      PROVE  w[j] = IF p * stride - (taps - j) * stride > 0
                    THEN p * stride - (taps - j) * stride ELSE 0
  <2>1. taps - j \in Nat
    OBVIOUS
  <2>2. QED
    BY <2>1, Behind DEF UpTo
<1>3. DOMAIN w = 1 .. taps
  OBVIOUS
<1>4. QED
  BY <1>1, <1>2, <1>3 DEF Convolve

(* The outputs of a block are those that the stream has, one every `decim' *)
(* samples, from the first on that was not put out before.                 *)
OutputsOf(out, in, n, decim, stride) ==
  /\ Follows(out, n \div decim, stride * decim)
  /\ n \div decim + Len(out) = (n + Len(in)) \div decim

(* A filter that has taken n samples of a stream and is given the next     *)
(* ones puts out exactly their outputs and is left in the stream behind    *)
(* them: no output is a Glitch, none is missing and none comes twice,      *)
(* however the stream is cut into blocks (Process and save of fir.go).     *)
THEOREM ExactStream ==
  ASSUME NEW taps \in Nat \ {0}, NEW decim \in Nat \ {0}, NEW stride \in Nat \ {0},
         NEW n \in Nat, NEW stage, InStream(stage, taps, n, decim, stride),
         NEW in, Follows(in, n, stride)
  PROVE  /\ InStream(Save(stage, in, decim), taps, n + Len(in), decim, stride)
         /\ OutputsOf(Filter(stage, in, decim, stride), in, n, decim, stride)
<1> DEFINE work == Window(stage, in)
           out == Filter(stage, in, decim, stride)
           l == Len(in)
           o == Outputs(stage, in, decim)
<1>1. /\ work \in Seq(Nat) /\ l \in Nat /\ Len(work) = taps - 1 + l
      /\ \A i \in 1 .. taps - 1 + l : work[i] = Place(n + i + 1 - taps, stride)
  BY WorkInStream
<1>2. Taps(stage) = taps /\ stage.phase = n % decim
  BY DEF InStream, Taps
<1>3. PICK q \in Nat, r \in Nat :
        q = n \div decim /\ r = n % decim /\ n = q * decim + r /\ r < decim
  BY DivMod, Zenon
<1>4. o = (r + l) \div decim
  BY <1>2, <1>3 DEF Outputs
<1>5. o \in Nat /\ o * decim <= r + l
  <2>1. r + l \in Nat
    BY <1>1
  <2>2. PICK y \in Nat, v \in Nat : y = (r + l) \div decim /\ v = (r + l) % decim
    BY <2>1, DivMod, Zenon
  <2>3. r + l = y * decim + v
    BY <2>1, <2>2, DivMod
  <2>4. y * decim \in Nat
    OBVIOUS
  <2>5. y * decim <= r + l
    BY <2>3, <2>4
  <2>6. QED
    BY <1>4, <2>2, <2>5
<1>6. out = [k \in 1 .. o |->
               Convolve(SubSeq(work, k * decim - r, k * decim - r + taps - 1), stride)]
  BY <1>2, <1>3 DEF Filter
<1> HIDE DEF work, out, l, o
<1>7. ASSUME NEW k \in 1 .. o
      PROVE  Convolve(SubSeq(work, k * decim - r, k * decim - r + taps - 1), stride)
               = (q + k) * (stride * decim)
  <2>1. /\ k * decim <= o * decim /\ k * decim >= decim /\ k * decim \in Nat
        /\ o * decim \in Nat /\ k \in Nat
    BY <1>5
  <2>2. PICK i \in Nat : i = k * decim - r
    <3>1. k * decim - r \in Nat
      BY <1>3, <2>1
    <3>2. QED
      BY <3>1, Zenon
  <2>3. 1 <= i /\ i <= l
    <3>1. PICK kd \in Nat, od \in Nat : kd = k * decim /\ od = o * decim
      BY <2>1, Zenon
    <3>2. kd <= od /\ kd >= decim /\ od <= r + l /\ i = kd - r
      BY <1>5, <2>1, <2>2, <3>1
    <3>3. r < decim
      BY <1>3
    <3>4. QED
      BY <1>1, <3>2, <3>3
  <2>4. n + i = (q + k) * decim
    <3>1. (q + k) * decim = q * decim + k * decim /\ q * decim \in Nat
      BY <2>1
    <3>2. QED
      BY <1>3, <2>1, <2>2, <3>1
  <2> DEFINE w == SubSeq(work, i, i + taps - 1)
  <2>5. w \in Seq(Nat) /\ Len(w) = taps /\ \A j \in 1 .. taps : w[j] = work[i + j - 1]
    <3>1. 1 + (i + taps - 1) - i = taps
      OBVIOUS
    <3>2. w = [j \in 1 .. taps |-> work[j + i - 1]]
      BY <3>1
    <3>3. ASSUME NEW j \in 1 .. taps PROVE w[j] = work[i + j - 1]
      <4>1. j + i - 1 = i + j - 1
        OBVIOUS
      <4>2. QED
        BY <3>2, <4>1
    <3> HIDE DEF w
    <3>4. w \in Seq(Nat)
      <4>1. ASSUME NEW j \in 1 .. taps PROVE work[j + i - 1] \in Nat
        <5>1. PICK e \in 1 .. Len(work) : e = j + i - 1
          BY <1>1, <2>3
        <5>2. work[e] \in Nat
          BY <1>1
        <5>3. QED
          BY <5>1, <5>2
      <4>2. QED
        BY <3>2, <4>1
    <3>5. Len(w) = taps
      BY <3>2
    <3>6. QED
      BY <3>3, <3>4, <3>5
  <2>6. n + i \in Nat \ {0}
    BY <2>3
  <2>7. ASSUME NEW j \in 1 .. taps PROVE w[j] = Place((n + i) - (taps - j), stride)
    <3>1. PICK e \in 1 .. taps - 1 + l : e = i + j - 1
      BY <1>1, <2>3
    <3>2. n + e + 1 - taps = (n + i) - (taps - j)
      BY <3>1
    <3>3. QED
      BY <1>1, <2>5, <3>1, <3>2
  <2> HIDE DEF w
  <2>8. Convolve(w, stride) = (n + i) * stride
    <3>1. PICK p \in Nat \ {0} : p = n + i
      BY <2>6, Zenon
    <3>2. \A j \in 1 .. taps : w[j] = Place(p - (taps - j), stride)
      BY <2>7, <3>1
    <3>3. PICK v \in Seq(Nat) : v = w
      BY <2>5, Zenon
    <3>4. Len(v) = taps /\ UpTo(v, taps, p, stride)
      BY <2>5, <3>2, <3>3 DEF UpTo
    <3>5. Convolve(v, stride) = p * stride
      BY <3>4, ConvolveInStream
    <3>6. QED
      BY <3>1, <3>3, <3>5
  <2>9. ((q + k) * decim) * stride = (q + k) * (stride * decim)
    <3>1. q + k \in Nat
      BY <2>1
    <3>2. QED
      BY <3>1
  <2>10. QED
    BY <2>2, <2>4, <2>8, <2>9 DEF w
<1>8. out \in Seq(Nat) /\ Len(out) = o /\ \A k \in 1 .. o : out[k] = (q + k) * (stride * decim)
  <2>1. \A k \in 1 .. o : (q + k) * (stride * decim) \in Nat
    <3> SUFFICES ASSUME NEW k \in 1 .. o PROVE (q + k) * (stride * decim) \in Nat
      OBVIOUS
    <3>1. q + k \in Nat /\ stride * decim \in Nat
      BY <1>5
    <3>2. QED
      BY <3>1
  <2>2. out = [k \in 1 .. o |-> (q + k) * (stride * decim)]
    BY <1>6, <1>7
  <2>3. QED
    BY <1>5, <2>1, <2>2
<1>9. q + o = (n + l) \div decim
  <2>1. (n + l) \div decim = n \div decim + ((n % decim) + l) \div decim
    BY <1>1, DivSplit
  <2>2. QED
    BY <1>3, <1>4, <2>1
<1>10. InStream(Save(stage, in, decim), taps, n + l, decim, stride)
  BY SaveInStream DEF l
<1>11. Follows(out, n \div decim, stride * decim)
  BY <1>3, <1>8 DEF Follows
<1>12. n \div decim + Len(out) = (n + l) \div decim
  BY <1>3, <1>8, <1>9
<1>13. QED
  BY <1>10, <1>11, <1>12 DEF out, l, OutputsOf

=============================================================================
