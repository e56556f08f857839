---------------------------- MODULE WriterProofs ----------------------------
(***************************************************************************)
(* Proofs about protocol.Writer, for any set of producers and any queue    *)
(* depths: type correctness (with it the capacity of both queues), the     *)
(* bound on how long spectrum frames can delay audio, that the Writer is a *)
(* lossy channel that never reorders or repeats, that it sheds the oldest, *)
(* and that the drop count bounds what is lost.                            *)
(***************************************************************************)
EXTENDS Writer, SequenceTheorems, FiniteSetTheorems, TLAPS

USE DEF Class, Full, connVars, producerVars

-----------------------------------------------------------------------------
LEMMA DepthIsNat == \A c \in Class : Depth(c) \in Nat \ {0}
<1>1. Depth("hi") = hiDepth /\ Depth("lo") = loDepth
  BY DEF Depth
<1>2. hiDepth \in Nat \ {0} /\ loDepth \in Nat \ {0}
  BY DepthAssumption
<1>3. ASSUME NEW c \in Class PROVE Depth(c) \in Nat \ {0}
  <2>1. c = "hi" \/ c = "lo"
    OBVIOUS
  <2>2. QED
    BY <1>1, <1>2, <2>1
<1>4. QED
  BY <1>3

LEMMA OfferedIsDatagram ==
  ASSUME TypeOK, NEW p \in Producers
  PROVE  Offered(p) \in Datagram
<1>1. class[p] \in Class /\ sent[p] \in [Class -> Nat]
  BY DEF TypeOK
<1>2. sent[p][class[p]] \in Nat
  BY <1>1
<1>3. QED
  BY <1>1, <1>2 DEF Offered, Datagram

(* Appending to a queue that is not full, and taking its head, keep it a   *)
(* bounded queue of datagrams.                                             *)
LEMMA PushKeepsQueues ==
  ASSUME TypeOK, NEW p \in Producers, ~Full(class[p]), Push(p)
  PROVE  /\ q' \in [Class -> Seq(Datagram)]
         /\ \A c \in Class : Len(q'[c]) <= Depth(c)
<1> DEFINE k == class[p]
<1>1. k \in Class /\ q \in [Class -> Seq(Datagram)] /\ q[k] \in Seq(Datagram)
  BY DEF TypeOK
<1>2. /\ Append(q[k], Offered(p)) \in Seq(Datagram)
      /\ Len(Append(q[k], Offered(p))) = Len(q[k]) + 1
  BY <1>1, OfferedIsDatagram, AppendProperties
<1>3. Len(q[k]) \in Nat /\ Depth(k) \in Nat
  BY <1>1, LenProperties, DepthIsNat
<1>4. q' = [q EXCEPT ![k] = Append(q[k], Offered(p))]
  BY DEF Push
<1>5. Len(q[k]) + 1 <= Depth(k)
  BY <1>3
<1> HIDE DEF k
<1>6. q' \in [Class -> Seq(Datagram)]
  BY <1>1, <1>2, <1>4
<1>7. ASSUME NEW c \in Class PROVE Len(q'[c]) <= Depth(c)
  <2>1. CASE c = k
    BY <1>1, <1>2, <1>4, <1>5, <2>1
  <2>2. CASE c # k
    BY <1>1, <1>4, <2>2 DEF TypeOK
  <2>3. QED
    BY <2>1, <2>2
<1>8. QED
  BY <1>6, <1>7

LEMMA TailKeepsQueues ==
  ASSUME TypeOK, NEW k \in Class, q[k] # <<>>,
         q' = [q EXCEPT ![k] = Tail(@)]
  PROVE  /\ q' \in [Class -> Seq(Datagram)]
         /\ \A c \in Class : Len(q'[c]) <= Depth(c)
<1>1. q \in [Class -> Seq(Datagram)] /\ q[k] \in Seq(Datagram)
  BY DEF TypeOK
<1>2. /\ Tail(q[k]) \in Seq(Datagram)
      /\ Len(Tail(q[k])) = Len(q[k]) - 1
  BY <1>1, HeadTailProperties
<1>3. Len(q[k]) \in Nat /\ Depth(k) \in Nat /\ Len(q[k]) <= Depth(k)
  BY <1>1, LenProperties, DepthIsNat DEF TypeOK
<1>4. q' \in [Class -> Seq(Datagram)]
  BY <1>1, <1>2
<1>5. ASSUME NEW c \in Class PROVE Len(q'[c]) <= Depth(c)
  <2>1. CASE c = k
    BY <1>1, <1>2, <1>3, <2>1
  <2>2. CASE c # k
    BY <1>1, <2>2 DEF TypeOK
  <2>3. QED
    BY <2>1, <2>2
<1>6. QED
  BY <1>4, <1>5

LEMMA HandIsDatagram ==
  ASSUME TypeOK, wpc = "emit"
  PROVE  Head(cur) \in Datagram /\ cur = <<Head(cur)>>
<1>1. cur \in Seq(Datagram) /\ Len(cur) = 1
  BY DEF TypeOK
<1>2. QED
  BY <1>1

(* A step of a producer inside offer touches the queues, its place and two *)
(* counters.                                                               *)
LEMMA RestKept ==
  ASSUME TypeOK, q' \in [Class -> Seq(Datagram)],
         \A c \in Class : Len(q'[c]) <= Depth(c),
         pc' \in [Producers -> {"idle", "push", "room", "again"}],
         overtakes' \in Nat, drops' \in Nat,
         UNCHANGED <<done, class, sent, wpc, cur, room, up, handed, emitted>>
  PROVE  TypeOK'
<1>1. \A c \in Class : Depth(c)' = Depth(c)
  BY DEF Depth
<1>2. QED
  BY <1>1 DEF TypeOK

LEMMA TypesInit == Init => TypeOK
<1> SUFFICES ASSUME Init PROVE TypeOK
  OBVIOUS
<1>1. /\ q \in [Class -> Seq(Datagram)]
      /\ \A c \in Class : Len(q[c]) <= Depth(c)
  BY DepthIsNat, EmptySeq DEF Init
<1>2. cur \in Seq(Datagram) /\ Len(cur) = IF wpc = "emit" THEN 1 ELSE 0
  BY EmptySeq DEF Init
<1>3. sent \in [Producers -> [Class -> Nat]] /\ handed \in [Producers -> [Class -> Nat]]
  BY DEF Init
<1>4. room \in 0..QuicDepth /\ drops \in Nat /\ emitted \in Nat /\ overtakes \in Nat
  BY BoundAssumption DEF Init
<1>5. /\ pc \in [Producers -> {"idle", "push", "room", "again"}]
      /\ class \in [Producers -> Class]
      /\ done \in BOOLEAN /\ up \in BOOLEAN
      /\ wpc \in {"first", "second", "emit", "stopped"}
  BY DEF Init
<1>6. QED
  BY <1>1, <1>2, <1>3, <1>4, <1>5 DEF TypeOK

(* Every reachable state has its type; in particular neither queue ever    *)
(* holds more than its capacity.                                           *)
THEOREM TypeCorrect == Spec => []TypeOK
<1>1. Init => TypeOK
  BY TypesInit
<1>2. TypeOK /\ [Next]_vars => TypeOK'
  <2> SUFFICES ASSUME TypeOK, [Next]_vars PROVE TypeOK'
    OBVIOUS
  <2> USE BoundAssumption
  <2>1. ASSUME NEW p \in Producers, NEW c \in Class, Send(p, c) PROVE TypeOK'
    BY <2>1 DEF Send, TypeOK
  <2>2. ASSUME NEW p \in Producers, OfferPush(p) PROVE TypeOK'
    <3>1. q' \in [Class -> Seq(Datagram)] /\ \A c \in Class : Len(q'[c]) <= Depth(c)
      <4>1. q \in [Class -> Seq(Datagram)] /\ \A c \in Class : Len(q[c]) <= Depth(c)
        BY DEF TypeOK
      <4>2. CASE ~Full(class[p]) /\ Push(p)
        BY <4>2, PushKeepsQueues
      <4>3. QED
        BY <2>2, <4>1, <4>2 DEF OfferPush
    <3>2. /\ pc' \in [Producers -> {"idle", "push", "room", "again"}]
          /\ overtakes' \in Nat /\ drops' \in Nat
      BY <2>2 DEF OfferPush, KeepOvertakes, TypeOK
    <3>3. UNCHANGED <<done, class, sent, wpc, cur, room, up, handed, emitted>>
      BY <2>2 DEF OfferPush
    <3>4. QED
      BY <3>1, <3>2, <3>3, RestKept
  <2>3. ASSUME NEW p \in Producers, OfferMakeRoom(p) PROVE TypeOK'
    <3>1. q' \in [Class -> Seq(Datagram)] /\ \A c \in Class : Len(q'[c]) <= Depth(c)
      <4>1. q \in [Class -> Seq(Datagram)] /\ \A c \in Class : Len(q[c]) <= Depth(c)
        BY DEF TypeOK
      <4>2. CASE q[class[p]] # <<>> /\ q' = [q EXCEPT ![class[p]] = Tail(@)]
        <5>1. class[p] \in Class
          BY DEF TypeOK
        <5>2. QED
          BY <4>2, <5>1, TailKeepsQueues
      <4>3. QED
        BY <2>3, <4>1, <4>2 DEF OfferMakeRoom
    <3>2. /\ pc' \in [Producers -> {"idle", "push", "room", "again"}]
          /\ overtakes' \in Nat /\ drops' \in Nat
      BY <2>3 DEF OfferMakeRoom, KeepOvertakes, TypeOK
    <3>3. UNCHANGED <<done, class, sent, wpc, cur, room, up, handed, emitted>>
      BY <2>3 DEF OfferMakeRoom
    <3>4. QED
      BY <3>1, <3>2, <3>3, RestKept
  <2>4. ASSUME NEW p \in Producers, OfferAgain(p) PROVE TypeOK'
    <3>1. q' \in [Class -> Seq(Datagram)] /\ \A c \in Class : Len(q'[c]) <= Depth(c)
      <4>1. q \in [Class -> Seq(Datagram)] /\ \A c \in Class : Len(q[c]) <= Depth(c)
        BY DEF TypeOK
      <4>2. CASE ~Full(class[p]) /\ Push(p)
        BY <4>2, PushKeepsQueues
      <4>3. QED
        BY <2>4, <4>1, <4>2 DEF OfferAgain
    <3>2. /\ pc' \in [Producers -> {"idle", "push", "room", "again"}]
          /\ overtakes' \in Nat /\ drops' \in Nat
      BY <2>4 DEF OfferAgain, KeepOvertakes, TypeOK
    <3>3. UNCHANGED <<done, class, sent, wpc, cur, room, up, handed, emitted>>
      BY <2>4 DEF OfferAgain
    <3>4. QED
      BY <3>1, <3>2, <3>3, RestKept
  <2>5. CASE Close
    BY <2>5 DEF Close, TypeOK
  <2>6. CASE Stop
    BY <2>6 DEF Stop, TypeOK
  <2>7. CASE FindHiEmpty
    BY <2>7 DEF FindHiEmpty, TypeOK
  <2>8. ASSUME NEW c \in Class, Take(c), overtakes' \in Nat PROVE TypeOK'
    <3>1. Head(q[c]) \in Datagram
      BY <2>8, HeadTailProperties DEF Take, TypeOK
    <3>2. cur' \in Seq(Datagram) /\ Len(cur') = 1
      BY <2>8, <3>1 DEF Take
    <3>3. QED
      BY <2>8, <3>2, TailKeepsQueues DEF Take, TypeOK
  <2>9. CASE TakeHi
    BY <2>8, <2>9 DEF TakeHi
  <2>10. CASE TakeLo
    BY <2>8, <2>10 DEF TakeLo, TypeOK
  <2>11. CASE Emit
    <3>1. /\ Head(cur).from \in Producers
          /\ Head(cur).class \in Class
          /\ Head(cur).n \in Nat
      BY <2>11, HandIsDatagram DEF Emit, EmitOk, EmitErr, Datagram
    <3>2. cur' \in Seq(Datagram) /\ Len(cur') = 0
      BY <2>11, EmptySeq DEF Emit
    <3>3. handed' \in [Producers -> [Class -> Nat]]
      BY <2>11, <3>1 DEF Emit, TypeOK
    <3>4. room' \in 0..QuicDepth
      BY <2>11 DEF Emit, EmitOk, EmitErr, TypeOK
    <3>5. wpc' = "first" /\ emitted' \in Nat
      BY <2>11 DEF Emit, TypeOK
    <3>6. UNCHANGED <<q, up, overtakes, done, pc, class, sent, drops>>
      BY <2>11 DEF Emit
    <3>7. \A c \in Class : Depth(c)' = Depth(c)
      BY DEF Depth
    <3>8. QED
      BY <3>2, <3>3, <3>4, <3>5, <3>6, <3>7 DEF TypeOK
  <2>12. CASE Drain
    BY <2>12 DEF Drain, TypeOK
  <2>13. CASE Die
    BY <2>13 DEF Die, TypeOK
  <2>14. CASE UNCHANGED vars
    BY <2>14 DEF vars, TypeOK
  <2>15. QED
    BY <2>1, <2>2, <2>3, <2>4, <2>5, <2>6, <2>7, <2>9, <2>10, <2>11, <2>12,
       <2>13, <2>14 DEF Next, Offer, Run
<1>3. QED
  BY <1>1, <1>2, PTL DEF Spec

(* Audio is never delayed by more than one spectrum frame, however the     *)
(* producers interleave with the writer's two selects.                     *)
THEOREM AudioDelayBounded == Spec => []OneOvertake
<1> DEFINE Inv == Prompt /\ OneOvertake
<1>1. Init => Inv
  BY DEF Init, Prompt, OneOvertake
<1>2. TypeOK /\ Inv /\ [Next]_vars => Inv'
  <2> SUFFICES ASSUME TypeOK, Inv, [Next]_vars PROVE Inv'
    OBVIOUS
  <2> USE DEF Prompt, OneOvertake
  <2>1. ASSUME NEW p \in Producers, NEW c \in Class, Send(p, c) PROVE Inv'
    BY <2>1 DEF Send
  <2>2. ASSUME NEW p \in Producers, OfferPush(p) PROVE Inv'
    BY <2>2 DEF OfferPush, KeepOvertakes
  <2>3. ASSUME NEW p \in Producers, OfferMakeRoom(p) PROVE Inv'
    BY <2>3 DEF OfferMakeRoom, KeepOvertakes
  <2>4. ASSUME NEW p \in Producers, OfferAgain(p) PROVE Inv'
    BY <2>4 DEF OfferAgain, KeepOvertakes
  <2>5. CASE Close
    BY <2>5 DEF Close
  <2>6. CASE Stop
    BY <2>6 DEF Stop
  <2>7. CASE FindHiEmpty
    BY <2>7 DEF FindHiEmpty
  <2>8. CASE TakeHi
    BY <2>8 DEF TakeHi, Take
  <2>9. CASE TakeLo
    <3>1. q'["hi"] = q["hi"] /\ overtakes = 0
      BY <2>9 DEF TakeLo, Take, TypeOK
    <3>2. QED
      BY <2>9, <3>1 DEF TakeLo, Take
  <2>10. CASE Emit
    BY <2>10 DEF Emit
  <2>11. CASE Drain
    BY <2>11 DEF Drain
  <2>12. CASE Die
    BY <2>12 DEF Die
  <2>13. CASE UNCHANGED vars
    BY <2>13 DEF vars
  <2>14. QED
    BY <2>1, <2>2, <2>3, <2>4, <2>5, <2>6, <2>7, <2>8, <2>9, <2>10, <2>11,
       <2>12, <2>13 DEF Next, Offer, Run
<1>3. Inv => OneOvertake
  OBVIOUS
<1>4. QED
  BY <1>1, <1>2, <1>3, TypeCorrect, PTL DEF Spec

-----------------------------------------------------------------------------
(* What the two ends of an ordered queue look like after each operation    *)
(* the Writer performs on it.                                              *)
LEMMA OrderedTail ==
  ASSUME NEW s \in Seq(Datagram), s # <<>>, NEW c \in Class,
         NEW low \in [Producers -> Int], NEW high \in [Producers -> Int],
         OrderedQueue(s, c, low, high)
  PROVE  /\ OrderedQueue(Tail(s), c, low, high)
         /\ Head(s).class = c
         /\ OrderedHand(Head(s), Tail(s), low, high)
<1>1. /\ Len(s) \in Nat \ {0} /\ Head(s) = s[1]
      /\ Len(Tail(s)) = Len(s) - 1
      /\ \A i \in 1..Len(Tail(s)) : Tail(s)[i] = s[i + 1]
  BY HeadTailProperties, LenProperties
<1>2. ASSUME NEW i \in 1..Len(Tail(s))
      PROVE  i + 1 \in 1..Len(s) /\ 1 \in 1..Len(s) /\ 1 < i + 1
  BY <1>1
<1>3. OrderedQueue(Tail(s), c, low, high)
  BY <1>1, <1>2 DEF OrderedQueue
<1>4. Head(s).class = c /\ OrderedHand(Head(s), Tail(s), low, high)
  BY <1>1, <1>2 DEF OrderedQueue, OrderedHand
<1>5. QED
  BY <1>3, <1>4

LEMMA OrderedAppend ==
  ASSUME NEW s \in Seq(Datagram), NEW d \in Datagram, NEW c \in Class, d.class = c,
         NEW low \in [Producers -> Int], NEW high \in [Producers -> Int],
         NEW new \in [Producers -> Int],
         \A p \in Producers : high[p] <= new[p],
         low[d.from] < d.n, high[d.from] < d.n, d.n <= new[d.from],
         OrderedQueue(s, c, low, high)
  PROVE  OrderedQueue(Append(s, d), c, low, new)
<1> DEFINE t == Append(s, d)
<1>1. /\ Len(s) \in Nat /\ Len(t) = Len(s) + 1
      /\ \A i \in 1..Len(s) : t[i] = s[i]
      /\ t[Len(s) + 1] = d
  BY AppendProperties, LenProperties
<1>2. \A i \in 1..Len(s) : s[i] \in Datagram
  BY ElementOfSeq
<1>3. d.from \in Producers /\ d.n \in Nat
      /\ \A i \in 1..Len(s) : s[i].from \in Producers /\ s[i].n \in Nat
  BY <1>2 DEF Datagram
<1> HIDE DEF t
<1>4. ASSUME NEW i \in 1..Len(t)
      PROVE  /\ t[i].class = c
             /\ low[t[i].from] < t[i].n
             /\ t[i].n <= new[t[i].from]
             /\ \A j \in 1..Len(t) : i < j /\ t[i].from = t[j].from => t[i].n < t[j].n
  <2>1. CASE i = Len(s) + 1
    BY <1>1, <2>1
  <2>2. CASE i \in 1..Len(s)
    <3>1. /\ s[i].class = c /\ low[s[i].from] < s[i].n
          /\ s[i].n <= high[s[i].from]
      BY <2>2 DEF OrderedQueue
    <3>2. s[i].n <= new[s[i].from]
      BY <1>3, <2>2, <3>1
    <3>3. ASSUME NEW j \in 1..Len(t), i < j, t[i].from = t[j].from
          PROVE  t[i].n < t[j].n
      <4>1. CASE j = Len(s) + 1
        BY <1>1, <1>3, <2>2, <3>1, <3>3, <4>1
      <4>2. CASE j \in 1..Len(s)
        BY <1>1, <2>2, <3>3, <4>2 DEF OrderedQueue
      <4>3. QED
        BY <1>1, <4>1, <4>2
    <3>4. QED
      BY <1>1, <2>2, <3>1, <3>2, <3>3
  <2>3. QED
    BY <1>1, <2>1, <2>2
<1>5. QED
  BY <1>4 DEF OrderedQueue, t

(* Raising what is above a queue keeps it ordered.                         *)
LEMMA OrderedRaise ==
  ASSUME NEW s \in Seq(Datagram), NEW c \in Class,
         NEW low \in [Producers -> Int], NEW high \in [Producers -> Int],
         NEW new \in [Producers -> Int],
         \A p \in Producers : high[p] <= new[p],
         OrderedQueue(s, c, low, high)
  PROVE  OrderedQueue(s, c, low, new)
<1>1. \A i \in 1..Len(s) : s[i] \in Datagram
  BY ElementOfSeq
<1>2. \A i \in 1..Len(s) : s[i].from \in Producers /\ s[i].n \in Nat
  BY <1>1 DEF Datagram
<1>3. \A i \in 1..Len(s) : s[i].n <= high[s[i].from] => s[i].n <= new[s[i].from]
  BY <1>2
<1>4. QED
  BY <1>3 DEF OrderedQueue

LEMMA PushedIsInt ==
  ASSUME TypeOK, NEW p \in Producers, NEW c \in Class
  PROVE  /\ sent[p][c] \in Nat /\ handed[p][c] \in Nat
         /\ Pushed(p, c) \in Int /\ Pushed(p, c) <= sent[p][c]
<1>1. sent[p] \in [Class -> Nat] /\ handed[p] \in [Class -> Nat]
  BY DEF TypeOK
<1>2. sent[p][c] \in Nat /\ handed[p][c] \in Nat
  BY <1>1
<1>3. Pushed(p, c) = sent[p][c] \/ Pushed(p, c) = sent[p][c] - 1
  BY DEF Pushed
<1>4. QED
  BY <1>2, <1>3

(* The same of the state after a step.                                     *)
LEMMA PushedIsIntNext ==
  ASSUME TypeOK', NEW p \in Producers, NEW c \in Class
  PROVE  handed'[p][c] \in Nat /\ Pushed(p, c)' \in Int
<1>1. sent'[p] \in [Class -> Nat] /\ handed'[p] \in [Class -> Nat]
  BY DEF TypeOK
<1>2. sent'[p][c] \in Nat /\ handed'[p][c] \in Nat
  BY <1>1
<1>3. Pushed(p, c)' = sent'[p][c] \/ Pushed(p, c)' = sent'[p][c] - 1
  BY DEF Pushed
<1>4. QED
  BY <1>2, <1>3

LEMMA BoundsAreInts ==
  ASSUME TypeOK, NEW c \in Class
  PROVE  Low(c) \in [Producers -> Int] /\ High(c) \in [Producers -> Int]
<1>1. \A p \in Producers : handed[p][c] \in Int /\ Pushed(p, c) \in Int
  BY PushedIsInt
<1>2. QED
  BY <1>1 DEF Low, High

LEMMA HighIsIntNext ==
  ASSUME TypeOK', NEW c \in Class
  PROVE  High(c)' \in [Producers -> Int]
<1>1. \A p \in Producers : Pushed(p, c)' \in Int
  BY PushedIsIntNext
<1>2. QED
  BY <1>1 DEF High

(* A step that touches neither the queues, nor the writer's hand, nor what *)
(* is handed over keeps the order if it does not lower what was pushed.    *)
LEMMA OrderedIdle ==
  ASSUME TypeOK, TypeOK', Ordered, q' = q, cur' = cur, handed' = handed,
         wpc' = "emit" => wpc = "emit",
         \A p \in Producers, c \in Class : Pushed(p, c) <= Pushed(p, c)'
  PROVE  Ordered'
<1>1. ASSUME NEW c \in Class
      PROVE  /\ Low(c)' = Low(c)
             /\ High(c) \in [Producers -> Int] /\ High(c)' \in [Producers -> Int]
             /\ \A p \in Producers : High(c)[p] <= High(c)'[p]
  <2>1. Low(c)' = Low(c)
    BY DEF Low
  <2>2. High(c) \in [Producers -> Int]
    BY BoundsAreInts
  <2>3. High(c)' \in [Producers -> Int]
    BY HighIsIntNext
  <2>4. \A p \in Producers : High(c)[p] <= High(c)'[p]
    BY DEF High
  <2>5. QED
    BY <2>1, <2>2, <2>3, <2>4
<1>2. ASSUME NEW c \in Class PROVE OrderedQueue(q'[c], c, Low(c)', High(c)')
  <2>1. q[c] \in Seq(Datagram) /\ Low(c) \in [Producers -> Int]
    BY BoundsAreInts DEF TypeOK
  <2>2. OrderedQueue(q[c], c, Low(c), High(c))
    BY DEF Ordered
  <2>3. QED
    BY <1>1, <2>1, <2>2, OrderedRaise
<1>3. ASSUME wpc' = "emit"
      PROVE  (LET d == Head(cur)
              IN  OrderedHand(d, q[d.class], Low(d.class), High(d.class)))'
  <2>0. PICK d \in Datagram : d = Head(cur)
    BY <1>3, HandIsDatagram
  <2>1. d.from \in Producers /\ d.class \in Class /\ d.n \in Nat
    BY DEF Datagram
  <2>2. OrderedHand(d, q[d.class], Low(d.class), High(d.class))
    BY <1>3, <2>0 DEF Ordered
  <2>3. d.n <= High(d.class)'[d.from]
    BY <1>1, <2>1, <2>2 DEF OrderedHand
  <2>4. OrderedHand(d, q[d.class], Low(d.class)', High(d.class)')
    BY <1>1, <2>1, <2>2, <2>3 DEF OrderedHand
  <2>5. QED
    BY <2>0, <2>4
<1>4. ASSUME NEW p \in Producers, NEW c \in Class
      PROVE  handed'[p][c] <= Pushed(p, c)'
  <2>1. handed[p][c] \in Nat /\ Pushed(p, c) \in Int /\ Pushed(p, c)' \in Int
    BY PushedIsInt, PushedIsIntNext
  <2>2. handed[p][c] <= Pushed(p, c) /\ Pushed(p, c) <= Pushed(p, c)'
    BY DEF Ordered
  <2>3. QED
    BY <2>1, <2>2
<1>5. QED
  BY <1>2, <1>3, <1>4 DEF Ordered

(* Pushing the datagram a producer offers keeps the order.                 *)
LEMMA OrderedPush ==
  ASSUME TypeOK, TypeOK', Ordered, NEW p \in Producers,
         pc[p] \in {"push", "again"}, Push(p),
         pc' = [pc EXCEPT ![p] = "idle"],
         class' = class, sent' = sent, cur' = cur, handed' = handed, wpc' = wpc
  PROVE  Ordered'
<1>a. PICK k \in Class : k = class[p]
  BY DEF TypeOK
<1>b. PICK d \in Datagram : d = Offered(p)
  BY OfferedIsDatagram
<1>1. /\ k \in Class /\ d \in Datagram
      /\ d.from = p /\ d.class = k /\ d.n = sent[p][k] /\ d.n \in Nat
  BY <1>a, <1>b DEF Datagram, Offered
<1>2. /\ q' = [q EXCEPT ![k] = Append(q[k], d)]
      /\ q \in [Class -> Seq(Datagram)]
  BY <1>a, <1>b DEF Push, TypeOK
<1>3. /\ \A r \in Producers, c \in Class :
           <<r, c>> # <<p, k>> => Pushed(r, c)' = Pushed(r, c)
      /\ Pushed(p, k) = d.n - 1 /\ Pushed(p, k)' = d.n
  BY <1>1, <1>a DEF Pushed, TypeOK
<1>4. ASSUME NEW c \in Class
      PROVE  /\ Low(c)' = Low(c) /\ Low(c) \in [Producers -> Int]
             /\ High(c) \in [Producers -> Int] /\ High(c)' \in [Producers -> Int]
  <2>1. Low(c)' = Low(c)
    BY DEF Low
  <2>2. Low(c) \in [Producers -> Int] /\ High(c) \in [Producers -> Int]
    BY BoundsAreInts
  <2>3. High(c)' \in [Producers -> Int]
    BY HighIsIntNext
  <2>4. QED
    BY <2>1, <2>2, <2>3
<1>5. ASSUME NEW c \in Class, c # k
      PROVE  High(c)' = High(c) /\ q'[c] = q[c]
  <2>1. q'[c] = q[c]
    BY <1>1, <1>2, <1>5
  <2>2. High(c)' = High(c)
    BY <1>3, <1>5 DEF High
  <2>3. QED
    BY <2>1, <2>2
<1>6. /\ \A r \in Producers : High(k)[r] <= High(k)'[r]
      /\ High(k)[p] = d.n - 1 /\ High(k)'[p] = d.n
      /\ q'[k] = Append(q[k], d)
  <2>1. ASSUME NEW r \in Producers PROVE High(k)[r] <= High(k)'[r]
    <3>1. High(k)[r] = Pushed(r, k) /\ High(k)'[r] = Pushed(r, k)'
      BY DEF High
    <3>2. CASE r = p
      BY <1>1, <1>3, <3>1, <3>2
    <3>3. CASE r # p
      <4>1. High(k)'[r] = High(k)[r] /\ High(k)[r] \in Int
        BY <1>1, <1>3, <1>4, <3>1, <3>3
      <4>2. QED
        BY <4>1
    <3>4. QED
      BY <3>2, <3>3
  <2>2. High(k)[p] = d.n - 1 /\ High(k)'[p] = d.n
    BY <1>3 DEF High
  <2>3. q'[k] = Append(q[k], d)
    BY <1>1, <1>2
  <2>4. QED
    BY <2>1, <2>2, <2>3
<1>7. Low(k)[p] <= High(k)[p]
  BY <1>1 DEF Ordered, Low, High
<1>8. OrderedQueue(q'[k], k, Low(k)', High(k)')
  <2>1. q[k] \in Seq(Datagram) /\ OrderedQueue(q[k], k, Low(k), High(k))
    BY <1>1 DEF TypeOK, Ordered
  <2>2. Low(k)[d.from] < d.n /\ High(k)[d.from] < d.n /\ d.n <= High(k)'[d.from]
    BY <1>1, <1>4, <1>6, <1>7
  <2>3. OrderedQueue(Append(q[k], d), k, Low(k), High(k)')
    BY <1>1, <1>4, <1>6, <2>1, <2>2, OrderedAppend
  <2>4. QED
    BY <1>1, <1>4, <1>6, <2>3
<1>9. ASSUME NEW c \in Class PROVE OrderedQueue(q'[c], c, Low(c)', High(c)')
  <2>1. CASE c = k
    BY <1>8, <2>1
  <2>2. CASE c # k
    BY <1>4, <1>5, <2>2 DEF Ordered
  <2>3. QED
    BY <2>1, <2>2
<1>10. ASSUME wpc' = "emit"
       PROVE  (LET h == Head(cur)
               IN  OrderedHand(h, q[h.class], Low(h.class), High(h.class)))'
  <2>0. PICK h \in Datagram : h = Head(cur)
    BY <1>10, HandIsDatagram
  <2>1. h.from \in Producers /\ h.class \in Class /\ h.n \in Nat
    BY DEF Datagram
  <2>2. OrderedHand(h, q[h.class], Low(h.class), High(h.class))
    BY <1>10, <2>0 DEF Ordered
  <2>3. OrderedHand(h, q'[h.class], Low(h.class)', High(h.class)')
    <3>1. CASE h.class # k
      BY <1>4, <1>5, <2>1, <2>2, <3>1
    <3>2. CASE h.class = k
      <4>1. /\ Low(k)[h.from] < h.n
            /\ h.n <= High(k)[h.from]
            /\ \A i \in 1..Len(q[k]) : q[k][i].from = h.from => h.n < q[k][i].n
        BY <2>2, <3>2 DEF OrderedHand
      <4>2. h.n <= High(k)'[h.from]
        <5>1. High(k)[h.from] \in Int /\ High(k)'[h.from] \in Int
          BY <1>1, <1>4, <2>1
        <5>2. High(k)[h.from] <= High(k)'[h.from]
          BY <1>6, <2>1
        <5>3. QED
          BY <2>1, <4>1, <5>1, <5>2
      <4>3. /\ Len(q[k]) \in Nat /\ Len(q'[k]) = Len(q[k]) + 1
            /\ \A i \in 1..Len(q[k]) : q'[k][i] = q[k][i]
            /\ q'[k][Len(q[k]) + 1] = d
        BY <1>1, <1>2, <1>6, AppendProperties, LenProperties
      <4>4. d.from = h.from => h.n < d.n
        <5>1. d.from = h.from => h.n <= d.n - 1
          BY <1>1, <1>6, <4>1
        <5>2. QED
          BY <1>1, <2>1, <5>1
      <4>5. \A i \in 1..Len(q'[k]) : q'[k][i].from = h.from => h.n < q'[k][i].n
        <5>1. ASSUME NEW i \in 1..Len(q'[k]), q'[k][i].from = h.from
              PROVE  h.n < q'[k][i].n
          <6>1. i \in 1..Len(q[k]) \/ i = Len(q[k]) + 1
            BY <4>3
          <6>2. QED
            BY <4>1, <4>3, <4>4, <5>1, <6>1
        <5>2. QED
          BY <5>1
      <4>6. QED
        BY <1>1, <1>4, <3>2, <4>1, <4>2, <4>5 DEF OrderedHand
    <3>3. QED
      BY <3>1, <3>2
  <2>4. QED
    BY <2>0, <2>3
<1>11. ASSUME NEW r \in Producers, NEW c \in Class
       PROVE  handed'[r][c] <= Pushed(r, c)'
  <2>0. handed[r][c] \in Nat
    BY PushedIsInt
  <2>1. handed[r][c] <= Pushed(r, c) /\ handed[r][c] \in Nat
    BY <2>0 DEF Ordered
  <2>2. CASE r = p /\ c = k
    BY <1>1, <1>3, <2>1, <2>2
  <2>3. CASE ~(r = p /\ c = k)
    BY <1>3, <2>1, <2>3
  <2>4. QED
    BY <2>2, <2>3
<1>12. QED
  BY <1>9, <1>10, <1>11 DEF Ordered

(* Discarding the oldest entry of a queue keeps the order.                 *)
LEMMA OrderedMakeRoom ==
  ASSUME TypeOK, TypeOK', Ordered, NEW k \in Class, q[k] # <<>>,
         q' = [q EXCEPT ![k] = Tail(@)], cur' = cur, handed' = handed,
         wpc' = wpc, \A p \in Producers, c \in Class : Pushed(p, c)' = Pushed(p, c)
  PROVE  Ordered'
<1>1. ASSUME NEW c \in Class
      PROVE  /\ Low(c)' = Low(c) /\ High(c)' = High(c)
             /\ Low(c) \in [Producers -> Int] /\ High(c) \in [Producers -> Int]
  BY BoundsAreInts DEF Low, High
<1>2. /\ q \in [Class -> Seq(Datagram)] /\ q[k] \in Seq(Datagram)
      /\ q'[k] = Tail(q[k])
      /\ \A c \in Class : c # k => q'[c] = q[c]
  BY DEF TypeOK
<1>3. ASSUME NEW c \in Class PROVE OrderedQueue(q'[c], c, Low(c)', High(c)')
  <2>1. OrderedQueue(q[c], c, Low(c), High(c))
    BY DEF Ordered
  <2>2. CASE c = k
    BY <1>1, <1>2, <2>1, <2>2, OrderedTail
  <2>3. CASE c # k
    BY <1>1, <1>2, <2>1, <2>3
  <2>4. QED
    BY <2>2, <2>3
<1>4. ASSUME wpc' = "emit"
      PROVE  (LET d == Head(cur)
              IN  OrderedHand(d, q[d.class], Low(d.class), High(d.class)))'
  <2>0. PICK d \in Datagram : d = Head(cur)
    BY <1>4, HandIsDatagram
  <2>1. d.class \in Class
    BY DEF Datagram
  <2>2. OrderedHand(d, q[d.class], Low(d.class), High(d.class))
    BY <1>4, <2>0 DEF Ordered
  <2>3. OrderedHand(d, q'[d.class], Low(d.class)', High(d.class)')
    <3>1. CASE d.class # k
      BY <1>1, <1>2, <2>1, <2>2, <3>1
    <3>2. CASE d.class = k
      <4>1. /\ Len(q[k]) \in Nat \ {0} /\ Len(Tail(q[k])) = Len(q[k]) - 1
            /\ \A i \in 1..Len(Tail(q[k])) : Tail(q[k])[i] = q[k][i + 1]
        BY <1>2, HeadTailProperties, LenProperties
      <4>2. \A i \in 1..Len(Tail(q[k])) : i + 1 \in 1..Len(q[k])
        BY <4>1
      <4>3. OrderedHand(d, Tail(q[k]), Low(k), High(k))
        BY <2>2, <3>2, <4>1, <4>2 DEF OrderedHand
      <4>4. QED
        BY <1>1, <1>2, <3>2, <4>3
    <3>3. QED
      BY <3>1, <3>2
  <2>4. QED
    BY <2>0, <2>3
<1>5. \A p \in Producers, c \in Class : handed'[p][c] <= Pushed(p, c)'
  BY DEF Ordered
<1>6. QED
  BY <1>3, <1>4, <1>5 DEF Ordered

(* Taking the head of a queue into the writer's hand keeps the order.      *)
LEMMA OrderedTake ==
  ASSUME TypeOK, TypeOK', Ordered, NEW k \in Class, Take(k)
  PROVE  Ordered'
<1>1. ASSUME NEW c \in Class
      PROVE  /\ Low(c)' = Low(c) /\ High(c)' = High(c)
             /\ Low(c) \in [Producers -> Int] /\ High(c) \in [Producers -> Int]
  BY BoundsAreInts DEF Take, Low, High, Pushed
<1>2. /\ q \in [Class -> Seq(Datagram)] /\ q[k] \in Seq(Datagram) /\ q[k] # <<>>
      /\ q'[k] = Tail(q[k])
      /\ \A c \in Class : c # k => q'[c] = q[c]
  BY DEF TypeOK, Take
<1>3. ASSUME NEW c \in Class PROVE OrderedQueue(q'[c], c, Low(c)', High(c)')
  <2>1. OrderedQueue(q[c], c, Low(c), High(c))
    BY DEF Ordered
  <2>2. CASE c = k
    <3>1. OrderedQueue(q[k], k, Low(k), High(k))
      BY <2>1, <2>2
    <3>2. OrderedQueue(Tail(q[k]), k, Low(k), High(k))
      BY <1>1, <1>2, <3>1, OrderedTail
    <3>3. QED
      BY <1>1, <1>2, <2>2, <3>2
  <2>3. CASE c # k
    BY <1>1, <1>2, <2>1, <2>3
  <2>4. QED
    BY <2>2, <2>3
<1>4. (LET d == Head(cur)
       IN  OrderedHand(d, q[d.class], Low(d.class), High(d.class)))'
  <2>1. Head(q[k]) \in Datagram
    BY <1>2, HeadTailProperties
  <2>2. PICK d \in Datagram : d = Head(q[k])
    BY <2>1
  <2>3. OrderedQueue(q[k], k, Low(k), High(k))
    BY DEF Ordered
  <2>4. d.class = k /\ OrderedHand(d, Tail(q[k]), Low(k), High(k))
    BY <1>1, <1>2, <2>2, <2>3, OrderedTail
  <2>5. Head(cur') = d
    BY <2>2 DEF Take
  <2>6. OrderedHand(d, q'[d.class], Low(d.class)', High(d.class)')
    BY <1>1, <1>2, <2>4
  <2>7. QED
    BY <2>5, <2>6
<1>5. \A p \in Producers, c \in Class : handed'[p][c] <= Pushed(p, c)'
  BY DEF Ordered, Take, Pushed
<1>6. QED
  BY <1>3, <1>4, <1>5 DEF Ordered

(* Giving the datagram in hand to SendDatagram keeps the order, and is a   *)
(* delivery of the lossy channel.                                          *)
LEMMA OrderedEmit ==
  ASSUME TypeOK, TypeOK', Ordered, Emit
  PROVE  Ordered' /\ \E p \in Producers, c \in Class : Channel!Deliver(p, c)
<1>0. wpc = "emit"
  BY DEF Emit, EmitOk, EmitErr
<1>1. PICK d \in Datagram : d = Head(cur)
  BY <1>0, HandIsDatagram
<1>2. d.from \in Producers /\ d.class \in Class /\ d.n \in Nat
  BY DEF Datagram
<1>3. /\ OrderedHand(d, q[d.class], Low(d.class), High(d.class))
      /\ handed[d.from][d.class] < d.n /\ d.n <= Pushed(d.from, d.class)
  <2>1. OrderedHand(d, q[d.class], Low(d.class), High(d.class))
    BY <1>0, <1>1 DEF Ordered
  <2>2. QED
    BY <1>2, <2>1 DEF OrderedHand, Low, High
<1>4. /\ handed' = [handed EXCEPT ![d.from][d.class] = d.n]
      /\ q' = q /\ wpc' = "first"
      /\ \A p \in Producers, c \in Class : Pushed(p, c)' = Pushed(p, c)
  BY <1>1 DEF Emit, Pushed
<1>5. ASSUME NEW p \in Producers, NEW c \in Class
      PROVE  handed'[p][c] <= Pushed(p, c)'
  <2>1. handed[p][c] <= Pushed(p, c) /\ Pushed(p, c)' = Pushed(p, c)
    BY <1>4 DEF Ordered
  <2>2. handed \in [Producers -> [Class -> Nat]]
    BY DEF TypeOK
  <2>3. CASE p = d.from /\ c = d.class
    <3>1. handed'[p][c] = d.n
      BY <1>2, <1>4, <2>2, <2>3
    <3>2. QED
      BY <1>3, <2>1, <2>3, <3>1
  <2>4. CASE ~(p = d.from /\ c = d.class)
    <3>1. handed'[p][c] = handed[p][c]
      BY <1>2, <1>4, <2>2, <2>4
    <3>2. QED
      BY <2>1, <3>1
  <2>5. QED
    BY <2>3, <2>4
<1>6. ASSUME NEW c \in Class PROVE OrderedQueue(q'[c], c, Low(c)', High(c)')
  <2>1. OrderedQueue(q[c], c, Low(c), High(c)) /\ High(c)' = High(c)
    BY <1>4 DEF Ordered, High
  <2>2. ASSUME NEW i \in 1..Len(q[c]) PROVE Low(c)'[q[c][i].from] < q[c][i].n
    <3>1. q[c][i] \in Datagram
      BY ElementOfSeq DEF TypeOK
    <3>2. q[c][i].from \in Producers
      BY <3>1 DEF Datagram
    <3>3. Low(c)'[q[c][i].from] = handed'[q[c][i].from][c]
      BY <3>2 DEF Low
    <3>4. CASE c = d.class /\ q[c][i].from = d.from
      BY <1>2, <1>3, <1>4, <3>3, <3>4 DEF OrderedHand, TypeOK
    <3>5. CASE ~(c = d.class /\ q[c][i].from = d.from)
      <4>1. handed'[q[c][i].from][c] = handed[q[c][i].from][c]
        BY <1>2, <1>4, <3>2, <3>5 DEF TypeOK
      <4>2. Low(c)[q[c][i].from] < q[c][i].n
        BY <2>1 DEF OrderedQueue
      <4>3. QED
        BY <3>2, <3>3, <4>1, <4>2 DEF Low
    <3>6. QED
      BY <3>4, <3>5
  <2>3. QED
    BY <1>4, <2>1, <2>2 DEF OrderedQueue
<1>7. Ordered'
  BY <1>4, <1>5, <1>6 DEF Ordered
<1>8. Channel!Deliver(d.from, d.class)
  <2>1. d.n \in handed[d.from][d.class] + 1 .. sent[d.from][d.class]
    <3>1. /\ handed[d.from][d.class] \in Nat /\ sent[d.from][d.class] \in Nat
          /\ Pushed(d.from, d.class) <= sent[d.from][d.class]
          /\ Pushed(d.from, d.class) \in Int
      BY <1>2, PushedIsInt
    <3>2. QED
      BY <1>2, <1>3, <3>1
  <2>2. sent' = sent
    BY DEF Emit
  <2>3. QED
    BY <1>4, <2>1, <2>2 DEF Channel!Deliver
<1>9. QED
  BY <1>2, <1>7, <1>8

(* The inductive step.                                                     *)
LEMMA OrderKept ==
  ASSUME TypeOK, TypeOK', Ordered, [Next]_vars
  PROVE  Ordered' /\ [Channel!ChanNext]_(Channel!chanVars)
<1> USE DEF Channel!chanVars
<1>1. ASSUME NEW p \in Producers, NEW c \in Class, Send(p, c)
      PROVE  Ordered' /\ Channel!Accept(p, c)
  <2>1. \A r \in Producers, k \in Class : Pushed(r, k)' = Pushed(r, k)
    <3>0. /\ pc \in [Producers -> {"idle", "push", "room", "again"}]
          /\ class \in [Producers -> Class] /\ sent \in [Producers -> [Class -> Nat]]
      BY DEF TypeOK
    <3>1. ASSUME NEW r \in Producers, NEW k \in Class, <<r, k>> # <<p, c>>
          PROVE  Pushed(r, k)' = Pushed(r, k)
      BY <1>1, <3>0, <3>1 DEF Send, Pushed
    <3>2. Pushed(p, c)' = Pushed(p, c)
      <4>1. sent[p][c] \in Nat /\ sent'[p][c] = sent[p][c] + 1
        BY <1>1, <3>0 DEF Send
      <4>2. pc[p] = "idle" /\ pc'[p] = "push" /\ class'[p] = c
        BY <1>1, <3>0 DEF Send
      <4>3. QED
        BY <4>1, <4>2 DEF Pushed
    <3>3. QED
      BY <3>1, <3>2
  <2>2. \A r \in Producers, k \in Class : Pushed(r, k) \in Int
    BY PushedIsInt
  <2>3. \A r \in Producers, k \in Class : Pushed(r, k) <= Pushed(r, k)'
    BY <2>1, <2>2
  <2>4. Ordered'
    BY <1>1, <2>3, OrderedIdle DEF Send
  <2>5. Channel!Accept(p, c)
    BY <1>1 DEF Send, Channel!Accept
  <2>6. QED
    BY <2>4, <2>5
<1>2. ASSUME NEW p \in Producers, OfferPush(p)
      PROVE  Ordered' /\ UNCHANGED <<sent, handed>>
  <2>1. CASE Push(p) /\ pc' = [pc EXCEPT ![p] = "idle"]
    BY <1>2, <2>1, OrderedPush DEF OfferPush
  <2>2. CASE q' = q /\ pc' = [pc EXCEPT ![p] = "room"]
    <3>1. \A r \in Producers, k \in Class : Pushed(r, k)' = Pushed(r, k)
      BY <1>2, <2>2 DEF OfferPush, Pushed, TypeOK
    <3>2. \A r \in Producers, k \in Class : Pushed(r, k) <= Pushed(r, k)'
      BY <3>1, PushedIsInt
    <3>3. QED
      BY <1>2, <2>2, <3>2, OrderedIdle DEF OfferPush
  <2>3. QED
    BY <1>2, <2>1, <2>2 DEF OfferPush
<1>3. ASSUME NEW p \in Producers, OfferMakeRoom(p)
      PROVE  Ordered' /\ UNCHANGED <<sent, handed>>
  <2>1. \A r \in Producers, k \in Class : Pushed(r, k)' = Pushed(r, k)
    BY <1>3 DEF OfferMakeRoom, Pushed, TypeOK
  <2>2. CASE q' = q
    <3>1. \A r \in Producers, k \in Class : Pushed(r, k) <= Pushed(r, k)'
      BY <2>1, PushedIsInt
    <3>2. QED
      BY <1>3, <2>2, <3>1, OrderedIdle DEF OfferMakeRoom
  <2>3. CASE q[class[p]] # <<>> /\ q' = [q EXCEPT ![class[p]] = Tail(@)]
    <3>1. class[p] \in Class
      BY DEF TypeOK
    <3>2. QED
      BY <1>3, <2>1, <2>3, <3>1, OrderedMakeRoom DEF OfferMakeRoom
  <2>4. QED
    BY <1>3, <2>2, <2>3 DEF OfferMakeRoom
<1>4. ASSUME NEW p \in Producers, OfferAgain(p)
      PROVE  Ordered' /\ UNCHANGED <<sent, handed>>
  <2>1. CASE Push(p)
    BY <1>4, <2>1, OrderedPush DEF OfferAgain
  <2>2. CASE q' = q
    <3>1. \A r \in Producers, k \in Class : Pushed(r, k) <= Pushed(r, k)'
      <4>1. /\ sent' = sent /\ class' = class
            /\ pc' = [pc EXCEPT ![p] = "idle"] /\ pc[p] = "again"
            /\ pc \in [Producers -> {"idle", "push", "room", "again"}]
        BY <1>4 DEF OfferAgain, TypeOK
      <4>2. QED
        BY <4>1, PushedIsInt DEF Pushed
    <3>2. QED
      BY <1>4, <2>2, <3>1, OrderedIdle DEF OfferAgain
  <2>3. QED
    BY <1>4, <2>1, <2>2 DEF OfferAgain
<1>5. ASSUME Close \/ Stop \/ FindHiEmpty \/ Drain \/ Die \/ UNCHANGED vars
      PROVE  Ordered' /\ UNCHANGED <<sent, handed>>
  <2>1. /\ UNCHANGED <<q, pc, class, sent, cur, handed>>
        /\ wpc' = "emit" => wpc = "emit"
    BY <1>5 DEF Close, Stop, FindHiEmpty, Drain, Die, vars
  <2>2. \A r \in Producers, k \in Class : Pushed(r, k) <= Pushed(r, k)'
    BY <2>1 DEF TypeOK, Pushed
  <2>3. QED
    BY <2>1, <2>2, OrderedIdle
<1>6. ASSUME TakeHi \/ TakeLo
      PROVE  Ordered' /\ UNCHANGED <<sent, handed>>
  <2>1. ASSUME NEW k \in Class, Take(k) PROVE Ordered' /\ UNCHANGED <<sent, handed>>
    BY <2>1, OrderedTake DEF Take
  <2>2. QED
    BY <1>6, <2>1 DEF TakeHi, TakeLo
<1>7. CASE Emit
  BY <1>7, OrderedEmit DEF Channel!ChanNext
<1>8. QED
  BY <1>1, <1>2, <1>3, <1>4, <1>5, <1>6, <1>7
     DEF Next, Offer, Run, Channel!ChanNext

LEMMA OrderedInit == Init => Ordered
<1> SUFFICES ASSUME Init PROVE Ordered
  OBVIOUS
<1>1. \A c \in Class : OrderedQueue(q[c], c, Low(c), High(c))
  BY DEF Init, OrderedQueue
<1>2. \A p \in Producers, c \in Class : handed[p][c] <= Pushed(p, c)
  BY DEF Init, Pushed
<1>3. QED
  BY <1>1, <1>2 DEF Init, Ordered

(* The Writer implements the lossy channel: whatever it sheds, and however *)
(* producers, writer and connection interleave, each producer's datagrams  *)
(* of one class are handed over in the order sent and none twice.          *)
THEOREM WriterIsLossyChannel == Spec => InOrder
<1>1. Init => Ordered /\ Channel!ChanInit
  BY OrderedInit DEF Init, Channel!ChanInit
<1>2. TypeOK /\ TypeOK' /\ Ordered /\ [Next]_vars
      => Ordered' /\ [Channel!ChanNext]_(Channel!chanVars)
  BY OrderKept
<1>3. QED
  BY <1>1, <1>2, TypeCorrect, PTL DEF Spec, InOrder, Channel!ChanSpec
-----------------------------------------------------------------------------
(* Who has sent in a class is never forgotten, so neither is that two have.*)
LEMMA UsesGrow ==
  ASSUME TypeOK, TypeOK', [Next]_vars
  PROVE  /\ \A p \in Producers, c \in Class : Uses(p, c) => Uses(p, c)'
         /\ \A c \in Class : Contended(c) => Contended(c)'
<1>1. \A p \in Producers, c \in Class : sent[p][c] \in Nat /\ sent[p][c] <= sent'[p][c]
  <2>1. sent \in [Producers -> [Class -> Nat]]
    BY DEF TypeOK
  <2>2. CASE \E p \in Producers, c \in Class : Send(p, c)
    BY <2>1, <2>2 DEF Send
  <2>3. CASE sent' = sent
    BY <2>1, <2>3
  <2>4. QED
    BY <2>2, <2>3 DEF Next, Offer, OfferPush, OfferMakeRoom, OfferAgain, Close, Run,
       Stop, FindHiEmpty, TakeHi, TakeLo, Take, Emit, Drain, Die, vars
<1>2. \A p \in Producers, c \in Class : Uses(p, c) => Uses(p, c)'
  <2>1. sent' \in [Producers -> [Class -> Nat]]
    BY DEF TypeOK
  <2>2. QED
    BY <1>1, <2>1 DEF Uses
<1>3. QED
  BY <1>2 DEF Contended

(* What an offer that has made room can rely on: there is room, unless     *)
(* somebody else sends in the class and may have taken it.                 *)
Shed ==
  \A p \in Producers :
    /\ pc[p] # "idle" => Uses(p, class[p])
    /\ pc[p] = "again" => ~Full(class[p]) \/ Contended(class[p])

(* A push that somebody else is waiting for is a contended one.            *)
LEMMA OthersContend ==
  ASSUME TypeOK, Shed, NEW p \in Producers, NEW r \in Producers, p # r,
         pc[p] # "idle", pc[r] # "idle", class[p] = class[r]
  PROVE  Contended(class[p])
BY DEF Shed, Contended

(* A queue that is not made longer stays as full as it was.                *)
LEMMA ShedIfNoPush ==
  ASSUME TypeOK, TypeOK', Shed, [Next]_vars, class' = class,
         \A c \in Class : Len(q'[c]) <= Len(q[c]),
         \A p \in Producers : pc'[p] # "idle" => pc[p] # "idle",
         \A p \in Producers : pc'[p] = "again" /\ pc[p] # "again" =>
           Len(q'[class[p]]) < Depth(class[p])
  PROVE  Shed'
<1>1. \A c \in Class : /\ Len(q[c]) \in Nat /\ Len(q'[c]) \in Nat
                       /\ Depth(c) \in Nat /\ Depth(c)' = Depth(c)
  BY DepthIsNat DEF TypeOK, Depth
<1>2. SUFFICES ASSUME NEW p \in Producers
               PROVE  /\ pc'[p] # "idle" => Uses(p, class[p])'
                      /\ pc'[p] = "again" => \/ Len(q'[class[p]]) < Depth(class[p])
                                             \/ Contended(class[p])'
  <2>1. ASSUME NEW p \in Producers
        PROVE  class'[p] \in Class /\ class'[p] = class[p]
    BY DEF TypeOK
  <2>2. \A p \in Producers : ~Full(class[p])' <=> Len(q'[class[p]]) < Depth(class[p])
    BY <1>1, <2>1
  <2>3. QED
    BY <2>2 DEF Shed
<1>3. class[p] \in Class /\ class'[p] = class[p]
  BY DEF TypeOK
<1>4. pc'[p] # "idle" => Uses(p, class[p])'
  BY <1>3, UsesGrow DEF Shed
<1>5. ASSUME pc'[p] = "again", pc[p] = "again"
      PROVE  Len(q'[class[p]]) < Depth(class[p]) \/ Contended(class[p])'
  <2>1. CASE Contended(class[p])
    BY <1>3, <2>1, UsesGrow
  <2>2. CASE Len(q[class[p]]) < Depth(class[p])
    BY <1>1, <1>3, <2>2
  <2>3. QED
    BY <1>1, <1>3, <1>5, <2>1, <2>2 DEF Shed
<1>6. QED
  BY <1>4, <1>5

LEMMA ShedStep == TypeOK /\ TypeOK' /\ Shed /\ [Next]_vars => Shed'
<1> SUFFICES ASSUME TypeOK, TypeOK', Shed, [Next]_vars PROVE Shed'
  OBVIOUS
<1>t. /\ pc \in [Producers -> {"idle", "push", "room", "again"}]
      /\ class \in [Producers -> Class] /\ sent \in [Producers -> [Class -> Nat]]
      /\ q \in [Class -> Seq(Datagram)]
      /\ \A c \in Class : Len(q[c]) <= Depth(c) /\ Len(q[c]) \in Nat
                          /\ Depth(c) \in Nat \ {0} /\ Depth(c)' = Depth(c)
  BY DepthIsNat DEF TypeOK, Depth
<1>1. ASSUME NEW p \in Producers, NEW c \in Class, Send(p, c) PROVE Shed'
  <2>1. /\ q' = q /\ pc' = [pc EXCEPT ![p] = "push"]
        /\ class' = [class EXCEPT ![p] = c]
        /\ sent' = [sent EXCEPT ![p][c] = @ + 1]
    BY <1>1 DEF Send
  <2>2. ASSUME NEW r \in Producers
        PROVE  /\ pc'[r] # "idle" => Uses(r, class[r])'
               /\ pc'[r] = "again" => ~Full(class[r])' \/ Contended(class[r])'
    <3>1. CASE r = p
      BY <1>t, <2>1, <3>1 DEF Uses
    <3>2. CASE r # p
      <4>1. pc'[r] = pc[r] /\ class'[r] = class[r] /\ class[r] \in Class
        BY <1>t, <2>1, <3>2
      <4>2. pc[r] # "idle" => Uses(r, class[r])'
        BY <4>1, UsesGrow DEF Shed
      <4>3. CASE pc[r] = "again" /\ Contended(class[r])
        <5>1. Contended(class[r])'
          BY <4>1, <4>3, UsesGrow
        <5>2. QED
          BY <4>1, <4>2, <5>1
      <4>4. CASE pc[r] = "again" /\ ~Full(class[r])
        BY <1>t, <2>1, <4>1, <4>2, <4>4
      <4>5. QED
        BY <4>1, <4>2, <4>3, <4>4 DEF Shed
    <3>3. QED
      BY <3>1, <3>2
  <2>3. QED
    BY <2>2 DEF Shed
<1>2. ASSUME NEW p \in Producers, OfferPush(p) \/ OfferAgain(p), Push(p) PROVE Shed'
  <2>1. /\ pc' = [pc EXCEPT ![p] = "idle"] /\ pc[p] # "idle"
        /\ class' = class
        /\ q' = [q EXCEPT ![class[p]] = Append(@, Offered(p))]
    <3>1. OfferAgain(p) => pc' = [pc EXCEPT ![p] = "idle"] /\ pc[p] # "idle"
      BY DEF OfferAgain
    <3>2. OfferPush(p) => pc' = [pc EXCEPT ![p] = "idle"] /\ pc[p] # "idle"
      <4>1. Len(q'[class[p]]) = Len(q[class[p]]) + 1
        BY <1>2, <1>t, OfferedIsDatagram, AppendProperties DEF Push
      <4>2. q' # q
        BY <4>1, <1>t
      <4>3. QED
        BY <4>2 DEF OfferPush
    <3>3. QED
      BY <1>2, <3>1, <3>2 DEF OfferPush, OfferAgain, Push
  <2>2. ASSUME NEW r \in Producers, pc'[r] # "idle"
        PROVE  /\ Uses(r, class[r])'
               /\ pc'[r] = "again" => ~Full(class[r])' \/ Contended(class[r])'
    <3>1. r # p /\ pc'[r] = pc[r] /\ class'[r] = class[r] /\ class[r] \in Class
      BY <1>t, <2>1, <2>2
    <3>2. Uses(r, class[r])'
      BY <2>2, <3>1, UsesGrow DEF Shed
    <3>3. CASE class[r] = class[p]
      BY <2>1, <2>2, <3>1, <3>2, <3>3, OthersContend, UsesGrow
    <3>4. CASE class[r] # class[p] /\ pc[r] = "again"
      <4>1. q'[class[r]] = q[class[r]]
        BY <1>t, <2>1, <3>1, <3>4
      <4>2. CASE Contended(class[r])
        <5>1. Contended(class[r])'
          BY <3>1, <4>2, UsesGrow
        <5>2. QED
          BY <3>2, <5>1
      <4>3. CASE ~Full(class[r])
        BY <1>t, <3>1, <3>2, <4>1, <4>3
      <4>4. QED
        BY <3>4, <4>2, <4>3 DEF Shed
    <3>5. QED
      BY <3>1, <3>2, <3>3, <3>4
  <2>3. QED
    BY <2>2 DEF Shed
<1>3. ASSUME NEW p \in Producers, OfferPush(p) \/ OfferAgain(p), q' = q PROVE Shed'
  <2>1. /\ pc[p] # "idle" /\ \A r \in Producers : pc'[r] # "idle" => pc[r] # "idle"
        /\ \A r \in Producers : pc'[r] = "again" => pc[r] = "again"
        /\ class' = class
    BY <1>t, <1>3 DEF OfferPush, OfferAgain
  <2>2. QED
    BY <1>t, <1>3, <2>1, ShedIfNoPush
<1>4. ASSUME NEW p \in Producers, OfferMakeRoom(p) PROVE Shed'
  <2>1. /\ pc' = [pc EXCEPT ![p] = "again"] /\ pc[p] = "room" /\ class' = class
        /\ class[p] \in Class
    BY <1>t, <1>4 DEF OfferMakeRoom
  <2>2. /\ \A c \in Class : Len(q'[c]) <= Len(q[c])
        /\ Len(q'[class[p]]) < Depth(class[p])
    <3>1. CASE q[class[p]] # <<>> /\ q' = [q EXCEPT ![class[p]] = Tail(@)]
      <4>1. Len(Tail(q[class[p]])) = Len(q[class[p]]) - 1
        BY <1>t, <2>1, <3>1, HeadTailProperties
      <4>2. QED
        BY <1>t, <2>1, <3>1, <4>1
    <3>2. CASE q[class[p]] = <<>> /\ q' = q
      <4>1. Len(q[class[p]]) = 0
        BY <3>2, EmptySeq
      <4>2. QED
        BY <1>t, <2>1, <3>2, <4>1
    <3>3. QED
      BY <1>4, <3>1, <3>2 DEF OfferMakeRoom
  <2>3. QED
    BY <1>t, <2>1, <2>2, ShedIfNoPush
<1>5. ASSUME NEW c \in Class, Take(c) PROVE Shed'
  <2>1. Len(Tail(q[c])) = Len(q[c]) - 1
    BY <1>t, <1>5, HeadTailProperties DEF Take
  <2>2. /\ \A k \in Class : Len(q'[k]) <= Len(q[k]) 
        /\ class' = class /\ pc' = pc
    BY <1>t, <1>5, <2>1 DEF Take
  <2>3. QED
    BY <2>2, ShedIfNoPush
<1>6. ASSUME Close \/ Stop \/ FindHiEmpty \/ Emit \/ Drain \/ Die \/ UNCHANGED vars
      PROVE  Shed'
  <2>1. q' = q /\ class' = class /\ pc' = pc
    BY <1>6 DEF Close, Stop, FindHiEmpty, Emit, Drain, Die, vars
  <2>2. QED
    BY <1>t, <2>1, ShedIfNoPush
<1>7. QED
  BY <1>1, <1>2, <1>3, <1>4, <1>5, <1>6
  DEF Next, Offer, OfferPush, OfferAgain, Run, TakeHi, TakeLo
-----------------------------------------------------------------------------
(* Where the last datagram p sent in class c is, if it was not shed.       *)
Newest(p, c) == [from |-> p, class |-> c, n |-> sent[p][c]]

Kept(p, c) == \/ handed[p][c] = sent[p][c]
              \/ cur = <<Newest(p, c)>>
              \/ \E i \in 1..Len(q[c]) : q[c][i] = Newest(p, c)

(* p alone sends in class c and is not offering in it.                     *)
Alone(p, c) == Uses(p, c) /\ ~Contended(c) /\ (pc[p] = "idle" \/ class[p] # c)

LEMMA KeptNewest ==
  TypeOK => (NewestKept <=> \A p \in Producers, c \in Class : Alone(p, c) => Kept(p, c))
<1> SUFFICES ASSUME TypeOK
             PROVE  NewestKept <=> \A p \in Producers, c \in Class : Alone(p, c) => Kept(p, c)
  OBVIOUS
<1>1. \A c \in Class : DOMAIN q[c] = 1..Len(q[c])
  BY LenProperties DEF TypeOK
<1>2. QED
  BY <1>1 DEF NewestKept, Alone, Kept, Newest

(* It stays where it is when nothing is taken from its queue.              *)
LEMMA KeptStays ==
  ASSUME NEW p \in Producers, NEW c \in Class, Kept(p, c), sent'[p][c] = sent[p][c],
         handed'[p][c] = handed[p][c], cur' = cur,
         \A i \in 1..Len(q[c]) : i \in 1..Len(q'[c]) /\ q'[c][i] = q[c][i]
  PROVE  Kept(p, c)'
<1>1. Newest(p, c)' = Newest(p, c)
  BY DEF Newest
<1>2. QED
  BY <1>1 DEF Kept

(* Pushing keeps what is queued and puts the datagram offered behind it.   *)
LEMMA PushKeeps ==
  ASSUME TypeOK, NEW p \in Producers, Push(p)
  PROVE  /\ \A c \in Class : \A i \in 1..Len(q[c]) :
              i \in 1..Len(q'[c]) /\ q'[c][i] = q[c][i]
         /\ Len(q'[class[p]]) \in 1..Len(q'[class[p]])
         /\ q'[class[p]][Len(q'[class[p]])] = Offered(p)
<1> DEFINE k == class[p]
<1>1. k \in Class /\ q \in [Class -> Seq(Datagram)] /\ q[k] \in Seq(Datagram)
  BY DEF TypeOK
<1>2. q' = [q EXCEPT ![k] = Append(q[k], Offered(p))]
  BY DEF Push
<1>3. /\ Len(Append(q[k], Offered(p))) = Len(q[k]) + 1 /\ Len(q[k]) \in Nat
      /\ \A i \in 1..Len(q[k]) : Append(q[k], Offered(p))[i] = q[k][i]
      /\ Append(q[k], Offered(p))[Len(q[k]) + 1] = Offered(p)
  BY <1>1, OfferedIsDatagram, AppendProperties, LenProperties
<1> HIDE DEF k
<1>4. ASSUME NEW c \in Class, NEW i \in 1..Len(q[c])
      PROVE  i \in 1..Len(q'[c]) /\ q'[c][i] = q[c][i]
  <2>1. CASE c = k
    BY <1>1, <1>2, <1>3, <1>4, <2>1
  <2>2. CASE c # k
    BY <1>1, <1>2, <2>2
  <2>3. QED
    BY <2>1, <2>2
<1>5. q'[k] = Append(q[k], Offered(p))
  BY <1>1, <1>2
<1>6. QED
  BY <1>3, <1>4, <1>5 DEF k

(* Taking the head into the writer's hand loses nothing.                   *)
LEMMA TakeKeeps ==
  ASSUME TypeOK, NEW k \in Class, Take(k), wpc # "emit",
         NEW p \in Producers, NEW c \in Class, Kept(p, c)
  PROVE  Kept(p, c)'
<1>1. /\ q \in [Class -> Seq(Datagram)] /\ q[k] \in Seq(Datagram) /\ q[k] # <<>>
      /\ q' = [q EXCEPT ![k] = Tail(@)] /\ cur' = <<Head(q[k])>>
      /\ sent' = sent /\ handed' = handed
  BY DEF TypeOK, Take
<1>2. Newest(p, c)' = Newest(p, c)
  BY <1>1 DEF Newest
<1>3. cur # <<Newest(p, c)>>
  <2>1. Len(cur) = 0
    BY DEF TypeOK
  <2>2. QED
    BY <2>1
<1>4. CASE handed[p][c] = sent[p][c]
  BY <1>1, <1>4 DEF Kept
<1>5. ASSUME NEW i \in 1..Len(q[c]), q[c][i] = Newest(p, c) PROVE Kept(p, c)'
  <2>1. CASE c # k
    BY <1>1, <1>2, <1>5, <2>1 DEF Kept
  <2>2. CASE c = k
    <3>1. /\ Len(q[k]) \in Nat /\ Len(Tail(q[k])) = Len(q[k]) - 1
          /\ \A j \in 1..Len(Tail(q[k])) : Tail(q[k])[j] = q[k][j + 1]
          /\ Head(q[k]) = q[k][1]
      BY <1>1, HeadTailProperties, LenProperties
    <3>2. CASE i = 1
      BY <1>1, <1>2, <1>5, <2>2, <3>1, <3>2 DEF Kept
    <3>3. CASE i # 1
      <4>1. i - 1 \in 1..Len(Tail(q[k])) /\ Tail(q[k])[i - 1] = q[k][i]
        BY <2>2, <3>1, <3>3
      <4>2. q'[c] = Tail(q[k])
        BY <1>1, <2>2
      <4>3. i - 1 \in 1..Len(q'[c]) /\ q'[c][i - 1] = Newest(p, c)'
        BY <1>2, <1>5, <2>2, <4>1, <4>2
      <4>4. QED
        BY <4>3 DEF Kept
    <3>4. QED
      BY <3>2, <3>3
  <2>3. QED
    BY <2>1, <2>2
<1>6. QED
  BY <1>3, <1>4, <1>5 DEF Kept

(* What is given to SendDatagram is newer than what was given before, so   *)
(* once a producer's newest has been, nothing else of it is in hand.       *)
LEMMA EmitKeeps ==
  ASSUME TypeOK, Ordered, Emit, NEW p \in Producers, NEW c \in Class, Kept(p, c)
  PROVE  Kept(p, c)'
<1>1. wpc = "emit"
  BY DEF Emit, EmitOk, EmitErr
<1>2. PICK d \in Datagram : d = Head(cur) /\ cur = <<d>>
  BY <1>1, HandIsDatagram
<1>3. d.from \in Producers /\ d.class \in Class /\ d.n \in Nat
  BY DEF Datagram
<1>4. /\ handed' = [handed EXCEPT ![d.from][d.class] = d.n]
      /\ q' = q /\ sent' = sent
  BY <1>2 DEF Emit
<1>5. handed \in [Producers -> [Class -> Nat]] /\ sent \in [Producers -> [Class -> Nat]]
  BY DEF TypeOK
<1>6. Newest(p, c)' = Newest(p, c)
  BY <1>4 DEF Newest
<1>7. CASE \E i \in 1..Len(q[c]) : q[c][i] = Newest(p, c)
  BY <1>4, <1>6, <1>7 DEF Kept
<1>8. CASE cur = <<Newest(p, c)>>
  <2>1. d.from = p /\ d.class = c /\ d.n = sent[p][c]
    BY <1>2, <1>8 DEF Newest
  <2>2. handed'[p][c] = sent'[p][c]
    BY <1>4, <1>5, <2>1
  <2>3. QED
    BY <2>2 DEF Kept
<1>9. CASE handed[p][c] = sent[p][c]
  <2>1. ~(d.from = p /\ d.class = c)
    <3>1. SUFFICES ASSUME d.from = p, d.class = c PROVE FALSE
      OBVIOUS
    <3>2. OrderedHand(d, q[d.class], Low(d.class), High(d.class))
      BY <1>1, <1>2 DEF Ordered
    <3>3. handed[p][c] < d.n /\ d.n <= Pushed(p, c)
      BY <3>1, <3>2 DEF OrderedHand, Low, High
    <3>4. Pushed(p, c) <= sent[p][c] /\ Pushed(p, c) \in Int
      BY PushedIsInt
    <3>5. sent[p][c] \in Nat
      BY <1>5
    <3>6. QED
      BY <1>3, <1>9, <3>3, <3>4, <3>5
  <2>2. handed'[p][c] = handed[p][c]
    BY <1>3, <1>4, <1>5, <2>1
  <2>3. QED
    BY <1>4, <1>9, <2>2 DEF Kept
<1>10. QED
  BY <1>7, <1>8, <1>9 DEF Kept

LEMMA NewestStep ==
  ASSUME TypeOK, TypeOK', Ordered, Shed, NewestKept, [Next]_vars
  PROVE  NewestKept'
<1>t. /\ pc \in [Producers -> {"idle", "push", "room", "again"}]
      /\ class \in [Producers -> Class] /\ sent \in [Producers -> [Class -> Nat]]
      /\ q \in [Class -> Seq(Datagram)]
  BY DEF TypeOK
<1> SUFFICES ASSUME NEW p \in Producers, NEW c \in Class, Alone(p, c)'
             PROVE  Kept(p, c)'
  <2>1. (TypeOK =>
          (NewestKept <=> \A p \in Producers, c \in Class : Alone(p, c) => Kept(p, c)))'
    BY KeptNewest, PTL
  <2>2. QED
    BY <2>1
<1>k. Alone(p, c) => Kept(p, c)
  BY KeptNewest
<1>u. ~Contended(c)
  BY UsesGrow DEF Alone
<1>1. ASSUME NEW r \in Producers, NEW k \in Class, Send(r, k) PROVE Kept(p, c)'
  <2>1. /\ pc[r] = "idle" /\ pc' = [pc EXCEPT ![r] = "push"]
        /\ class' = [class EXCEPT ![r] = k]
        /\ sent' = [sent EXCEPT ![r][k] = @ + 1]
        /\ UNCHANGED <<q, cur, handed>>
    BY <1>1 DEF Send
  <2>2. ~(r = p /\ k = c)
    BY <1>t, <2>1 DEF Alone
  <2>3. sent'[p][c] = sent[p][c] /\ (pc[p] = "idle" \/ class[p] # c)
    BY <1>t, <2>1, <2>2 DEF Alone
  <2>4. QED
    BY <1>k, <1>u, <2>1, <2>3, KeptStays DEF Alone, Uses
<1>2. ASSUME NEW r \in Producers, OfferPush(r) \/ OfferMakeRoom(r) \/ OfferAgain(r)
      PROVE  Kept(p, c)'
  <2>1. /\ pc[r] # "idle" /\ UNCHANGED <<class, sent, cur, handed>>
        /\ class[r] \in Class
        /\ \A s \in Producers : s # r => pc'[s] = pc[s]
    BY <1>2, <1>t DEF OfferPush, OfferMakeRoom, OfferAgain
  <2>2. Uses(p, c) /\ Uses(r, class[r])
    BY <2>1 DEF Alone, Uses, Shed
  <2>3. class[r] = c => r = p
    BY <1>u, <2>2 DEF Contended
  <2>4. p # r \/ class[r] # c => Alone(p, c)
    BY <1>u, <2>1, <2>2 DEF Alone
  <2>5. CASE class[r] # c
    <3>1. q'[c] = q[c]
      BY <1>2, <1>t, <2>1, <2>5 DEF OfferPush, OfferMakeRoom, OfferAgain, Push
    <3>2. QED
      BY <1>k, <2>1, <2>4, <2>5, <3>1, KeptStays
  <2>6. CASE class[r] = c
    <3>1. r = p /\ pc'[p] = "idle"
      BY <2>1, <2>3, <2>6 DEF Alone
    <3>2. Push(r)
      <4>1. CASE OfferPush(r)
        BY <1>t, <3>1, <4>1 DEF OfferPush
      <4>2. CASE OfferMakeRoom(r)
        BY <1>t, <3>1, <4>2 DEF OfferMakeRoom
      <4>3. CASE OfferAgain(r)
        BY <1>u, <2>6, <4>3 DEF OfferAgain, Shed
      <4>4. QED
        BY <1>2, <4>1, <4>2, <4>3
    <3>3. /\ Len(q'[c]) \in 1..Len(q'[c])
          /\ q'[c][Len(q'[c])] = Newest(p, c)'
      BY <2>1, <2>6, <3>1, <3>2, PushKeeps DEF Newest, Offered
    <3>4. QED
      BY <3>3 DEF Kept
  <2>7. QED
    BY <2>5, <2>6
<1>3. ASSUME NEW k \in Class, Take(k), wpc \in {"first", "second"} PROVE Kept(p, c)'
  <2>1. Alone(p, c)
    BY <1>3, <1>u DEF Alone, Uses, Take
  <2>2. QED
    BY <1>3, <1>k, <2>1, TakeKeeps
<1>4. CASE Emit
  <2>1. Alone(p, c)
    BY <1>4, <1>u DEF Alone, Uses, Emit
  <2>2. QED
    BY <1>4, <1>k, <2>1, EmitKeeps
<1>5. ASSUME Close \/ Stop \/ FindHiEmpty \/ Drain \/ Die \/ UNCHANGED vars
      PROVE  Kept(p, c)'
  <2>1. UNCHANGED <<q, pc, class, sent, cur, handed>>
    BY <1>5 DEF Close, Stop, FindHiEmpty, Drain, Die, vars
  <2>2. Alone(p, c)
    BY <1>u, <2>1 DEF Alone, Uses
  <2>3. QED
    BY <1>k, <2>1, <2>2, KeptStays
<1>6. QED
  BY <1>1, <1>2, <1>3, <1>4, <1>5 DEF Next, Offer, Run, TakeHi, TakeLo

(* Shedding is oldest-first for any queue depths: what a goroutine that is *)
(* alone in its class sent last is never what is shed, however its offers  *)
(* interleave with the writer and with producers of the other class.       *)
THEOREM ShedsOldest == Spec => []NewestKept
<1>1. Init => Shed /\ NewestKept
  BY DEF Init, Shed, NewestKept, Uses
<1>2. TypeOK /\ TypeOK' /\ Shed /\ [Next]_vars => Shed'
  BY ShedStep
<1>3. TypeOK /\ TypeOK' /\ Ordered /\ [Next]_vars => Ordered'
  BY OrderKept
<1>4. TypeOK /\ TypeOK' /\ Ordered /\ Shed /\ NewestKept /\ [Next]_vars => NewestKept'
  BY NewestStep
<1>5. Init => Ordered
  BY OrderedInit
<1>6. QED
  BY <1>1, <1>2, <1>3, <1>4, <1>5, TypeCorrect, PTL DEF Spec
-----------------------------------------------------------------------------
(* Every set of naturals has a least element: what induction over the size *)
(* of a set needs.                                                         *)
Below == {pair \in Nat \X Nat : pair[1] < pair[2]}

LEMMA Least ==
  ASSUME NEW T \in SUBSET Nat, T # {}
  PROVE  \E n \in T : \A m \in T : n <= m
<1>1. IsWellFoundedOn(Below, Nat)
  BY NatLessThanWellFounded DEF OpToRel, Below
<1>2. \E n \in T : \A m \in T : ~(<<m, n>> \in Below)
  BY <1>1, WFMin
<1>3. ASSUME NEW n \in T, NEW m \in T, m < n PROVE <<m, n>> \in Below
  BY <1>3 DEF Below
<1>4. \A n \in T, m \in T : ~(m < n) => n <= m
  BY SMT
<1>5. QED
  BY <1>2, <1>3, <1>4, Zenon

(* The datagrams that some producers have sent, one by one.                *)
Weight(f, p) == f[p]["hi"] + f[p]["lo"]
Tokens(f, S) == {t \in S \X Nat : 1 <= t[2] /\ t[2] <= Weight(f, t[1])}

Counts(D) == [D -> [Class -> Nat]]

LEMMA TokensEmpty == \A f : Tokens(f, {}) = {}
BY DEF Tokens

(* The tokens of one producer.                                             *)
LEMMA TokensOne ==
  ASSUME NEW D, NEW f \in Counts(D), NEW p \in D
  PROVE  /\ Tokens(f, {p}) = {p} \X (1 .. Weight(f, p))
         /\ IsFiniteSet(Tokens(f, {p})) /\ Cardinality(Tokens(f, {p})) = Weight(f, p)
         /\ Weight(f, p) \in Nat
<1>1. Weight(f, p) \in Nat
  BY DEF Counts, Weight
<1>2. Tokens(f, {p}) = {p} \X (1 .. Weight(f, p))
  BY <1>1 DEF Tokens
<1>3. /\ IsFiniteSet({p}) /\ Cardinality({p}) = 1
      /\ IsFiniteSet(1 .. Weight(f, p)) /\ Cardinality(1 .. Weight(f, p)) = Weight(f, p)
  <2>1. IsFiniteSet({p}) /\ Cardinality({p}) = 1
    BY FS_Singleton
  <2>2. 1 \in Int /\ Weight(f, p) \in Int /\ (1 > Weight(f, p) => Weight(f, p) = 0)
    BY <1>1
  <2>3. /\ IsFiniteSet(1 .. Weight(f, p))
        /\ Cardinality(1 .. Weight(f, p)) =
             IF 1 > Weight(f, p) THEN 0 ELSE Weight(f, p) - 1 + 1
    BY <2>2, FS_Interval
  <2>4. QED
    BY <1>1, <2>1, <2>2, <2>3
<1>4. /\ IsFiniteSet({p} \X (1 .. Weight(f, p)))
      /\ Cardinality({p} \X (1 .. Weight(f, p))) = 1 * Weight(f, p)
  BY <1>3, FS_Product
<1>5. 1 * Weight(f, p) = Weight(f, p)
  BY <1>1
<1>6. QED
  BY <1>1, <1>2, <1>4, <1>5

LEMMA TokensFinite ==
  ASSUME NEW D, NEW f \in Counts(D), NEW S \in SUBSET D, IsFiniteSet(S)
  PROVE  IsFiniteSet(Tokens(f, S))
<1> DEFINE one == [p \in S |-> Tokens(f, {p})]
           All == {one[p] : p \in S}
<1>1. one \in Surjection(S, All)
  BY DEF Surjection
<1>2. IsFiniteSet(All)
  BY <1>1, FS_Surjection
<1>3. \A p \in S : IsFiniteSet(one[p])
  BY TokensOne
<1>4. IsFiniteSet(UNION All)
  BY <1>2, <1>3, FS_UNION
<1>5. Tokens(f, S) \subseteq UNION All
  BY DEF Tokens
<1>6. QED
  BY <1>4, <1>5, FS_Subset

(* Adding a producer adds what it has sent.                                *)
LEMMA TokensSplit ==
  ASSUME NEW D, NEW f \in Counts(D), NEW S \in SUBSET D, IsFiniteSet(S), NEW p \in S
  PROVE  /\ Cardinality(Tokens(f, S)) = Weight(f, p) + Cardinality(Tokens(f, S \ {p}))
         /\ Cardinality(Tokens(f, S \ {p})) \in Nat
<1>1. IsFiniteSet(S \ {p})
  BY FS_RemoveElement
<1>2. IsFiniteSet(Tokens(f, S \ {p})) /\ IsFiniteSet(Tokens(f, {p}))
  BY <1>1, TokensFinite, TokensOne
<1>3. Tokens(f, S) = Tokens(f, {p}) \cup Tokens(f, S \ {p})
  BY DEF Tokens
<1>4. Tokens(f, {p}) \cap Tokens(f, S \ {p}) = {}
  BY DEF Tokens
<1>5. Cardinality(Tokens(f, {p}) \cup Tokens(f, S \ {p})) =
        Cardinality(Tokens(f, {p})) + Cardinality(Tokens(f, S \ {p}))
          - Cardinality(Tokens(f, {p}) \cap Tokens(f, S \ {p}))
  BY <1>2, FS_Union
<1>6. Cardinality(Tokens(f, S \ {p})) \in Nat
  BY <1>2, FS_CardinalityType
<1>7. Cardinality(Tokens(f, {p})) = Weight(f, p) /\ Weight(f, p) \in Nat
  BY TokensOne
<1>8. Cardinality(Tokens(f, {p}) \cap Tokens(f, S \ {p})) = 0
  BY <1>4, FS_EmptySet
<1>9. QED
  BY <1>3, <1>5, <1>6, <1>7, <1>8

(* The recursion behind the fold, for a set of producers.                  *)
Adds(f, D, iter) ==
  iter = [S \in SUBSET D |->
            IF S = {} THEN 0
            ELSE LET p == CHOOSE p \in S : TRUE
                 IN  f[p]["hi"] + f[p]["lo"] + iter[S \ {p}]]

LEMMA TotalAdds ==
  ASSUME NEW D, NEW f \in Counts(D)
  PROVE  Total(f) = (CHOOSE iter : Adds(f, D, iter))[D]
BY DEF Total, FoldFunction, FoldFunctionOnSet, MapThenFoldSet, Adds, Counts

(* The sum over a finite set of producers is the number of tokens: their   *)
(* number satisfies the recursion, and nothing else does, for a smallest   *)
(* set on which two solutions differ has no element to take out.           *)
LEMMA TotalCounts ==
  ASSUME NEW D, IsFiniteSet(D), NEW f \in Counts(D)
  PROVE  Total(f) = Cardinality(Tokens(f, D))
<1> DEFINE h == [S \in SUBSET D |-> Cardinality(Tokens(f, S))]
           g == CHOOSE iter : Adds(f, D, iter)
<1>1. \A S \in SUBSET D : IsFiniteSet(S) /\ Cardinality(S) \in Nat
  BY FS_Subset, FS_CardinalityType
<1>2. ASSUME NEW S \in SUBSET D, S # {}, NEW p \in S
      PROVE  h[S] = Weight(f, p) + h[S \ {p}]
  BY <1>1, TokensSplit
<1>3. h[{}] = 0
  BY TokensEmpty, FS_EmptySet
<1>4. ASSUME NEW S \in SUBSET D
      PROVE  h[S] = IF S = {} THEN 0
                    ELSE LET p == CHOOSE p \in S : TRUE
                         IN  f[p]["hi"] + f[p]["lo"] + h[S \ {p}]
  <2>1. CASE S # {}
    <3>1. (CHOOSE p \in S : TRUE) \in S
      BY <2>1
    <3>2. QED
      BY <1>2, <2>1, <3>1 DEF Weight
  <2>2. QED
    BY <1>3, <2>1
<1>5. h = [S \in SUBSET D |-> h[S]]
  OBVIOUS
<1> HIDE DEF h
<1>6. Adds(f, D, h)
  BY <1>4, <1>5 DEF Adds
<1>7. Adds(f, D, g)
  BY <1>6
<1> HIDE DEF g
<1>8. \A S \in SUBSET D : g[S] = h[S]
  <2> DEFINE Bad == {S \in SUBSET D : g[S] # h[S]}
             Sizes == {Cardinality(S) : S \in Bad}
  <2>1. SUFFICES ASSUME Bad # {} PROVE FALSE
    OBVIOUS
  <2>2. Sizes \in SUBSET Nat /\ Sizes # {}
    BY <1>1, <2>1
  <2>3. PICK n \in Sizes : \A m \in Sizes : n <= m
    BY <2>2, Least
  <2>4. PICK S \in Bad : Cardinality(S) = n
    OBVIOUS
  <2>5. \A R \in Bad : Cardinality(S) <= Cardinality(R)
    BY <2>3, <2>4
  <2>6. S \in SUBSET D /\ g[S] # h[S]
    OBVIOUS
  <2>7. S # {}
    BY <1>6, <1>7, <2>6 DEF Adds
  <2> DEFINE p == CHOOSE p \in S : TRUE
  <2>8. p \in S
    BY <2>7
  <2>9. /\ g[S] = f[p]["hi"] + f[p]["lo"] + g[S \ {p}]
        /\ h[S] = f[p]["hi"] + f[p]["lo"] + h[S \ {p}]
    BY <1>6, <1>7, <2>6, <2>7 DEF Adds
  <2> HIDE DEF p
  <2>10. Cardinality(S \ {p}) = Cardinality(S) - 1 /\ Cardinality(S) \in Nat
    BY <1>1, <2>6, <2>8, FS_RemoveElement
  <2>11. S \ {p} \notin Bad
    BY <2>5, <2>10
  <2>12. g[S \ {p}] = h[S \ {p}]
    BY <2>6, <2>11
  <2>13. QED
    BY <2>6, <2>9, <2>12
<1>9. g[D] = Cardinality(Tokens(f, D))
  BY <1>8 DEF h
<1>10. QED
  BY <1>9, TotalAdds DEF g

(* One more datagram sent makes the sum one more.                          *)
LEMMA TotalBump ==
  ASSUME NEW D, IsFiniteSet(D), NEW f \in Counts(D), NEW p \in D, NEW c \in Class
  PROVE  /\ Total(f) \in Nat
         /\ Total([f EXCEPT ![p][c] = @ + 1]) = Total(f) + 1
<1> DEFINE F == [f EXCEPT ![p][c] = @ + 1]
<1>1. F \in Counts(D)
  BY DEF Counts
<1>2. Weight(F, p) = Weight(f, p) + 1
  BY DEF Counts, Weight
<1>3. \A r \in D \ {p} : Weight(F, r) = Weight(f, r)
  BY DEF Counts, Weight
<1> HIDE DEF F
<1>4. Tokens(F, D \ {p}) = Tokens(f, D \ {p})
  BY <1>3 DEF Tokens
<1>5. /\ Cardinality(Tokens(F, D)) = Weight(F, p) + Cardinality(Tokens(F, D \ {p}))
      /\ Cardinality(Tokens(f, D)) = Weight(f, p) + Cardinality(Tokens(f, D \ {p}))
      /\ Cardinality(Tokens(f, D \ {p})) \in Nat /\ Weight(f, p) \in Nat
  <2>1. D \in SUBSET D
    OBVIOUS
  <2>2. \A e \in Counts(D) :
          /\ Cardinality(Tokens(e, D)) = Weight(e, p) + Cardinality(Tokens(e, D \ {p}))
          /\ Cardinality(Tokens(e, D \ {p})) \in Nat
    BY <2>1, TokensSplit
  <2>3. QED
    BY <1>1, <2>2, TokensOne
<1>6. Cardinality(Tokens(F, D)) = Cardinality(Tokens(f, D)) + 1
  BY <1>2, <1>4, <1>5
<1>7. QED
  BY <1>1, <1>5, <1>6, TotalCounts DEF F

LEMMA TotalZero ==
  ASSUME NEW D, IsFiniteSet(D)
  PROVE  Total([p \in D |-> [c \in Class |-> 0]]) = 0
<1> DEFINE f == [p \in D |-> [c \in Class |-> 0]]
<1>1. f \in Counts(D) /\ \A p \in D : Weight(f, p) = 0
  BY DEF Counts, Weight
<1> HIDE DEF f
<1>2. Tokens(f, D) = {}
  BY <1>1 DEF Tokens
<1>3. QED
  BY <1>1, <1>2, TotalCounts, FS_EmptySet DEF f
-----------------------------------------------------------------------------
(* How many producers are in some of the places: what moving one changes.  *)
Count(f, places) == Cardinality({p \in Producers : f[p] \in places})

LEMMA CountMoves ==
  ASSUME NEW places, NEW f \in [Producers -> {"idle", "push", "room", "again"}],
         NEW p \in Producers, NEW v
  PROVE  /\ Count(f, places) \in Nat
         /\ Count([f EXCEPT ![p] = v], places) =
              Count(f, places) + (IF v \in places THEN 1 ELSE 0)
                               - (IF f[p] \in places THEN 1 ELSE 0)
<1> DEFINE S == {r \in Producers : f[r] \in places}
           R == {r \in Producers : [f EXCEPT ![p] = v][r] \in places}
<1>1. IsFiniteSet(S) /\ Cardinality(S) \in Nat
  BY ProducerAssumption, FS_Subset, FS_CardinalityType
<1>2. R = IF v \in places THEN S \cup {p} ELSE S \ {p}
  OBVIOUS
<1>3. p \in S <=> f[p] \in places
  OBVIOUS
<1>4. /\ Cardinality(S \cup {p}) = IF p \in S THEN Cardinality(S) ELSE Cardinality(S) + 1
      /\ Cardinality(S \ {p}) = IF p \in S THEN Cardinality(S) - 1 ELSE Cardinality(S)
  BY <1>1, FS_AddElement, FS_RemoveElement
<1> HIDE DEF S, R
<1>5. Cardinality(R) = Cardinality(S) + (IF v \in places THEN 1 ELSE 0)
                                      - (IF f[p] \in places THEN 1 ELSE 0)
  BY <1>1, <1>2, <1>3, <1>4
<1>6. QED
  BY <1>1, <1>5 DEF S, R, Count

Busy == {"push", "room", "again"}

LEMMA CountsAre ==
  ASSUME TypeOK
  PROVE  Offering = Count(pc, Busy) /\ MadeRoom = Count(pc, {"again"})
<1>1. pc \in [Producers -> {"idle", "push", "room", "again"}]
  BY DEF TypeOK
<1>2. {p \in Producers : pc[p] # "idle"} = {p \in Producers : pc[p] \in Busy}
  BY <1>1 DEF Busy
<1>3. {p \in Producers : pc[p] = "again"} = {p \in Producers : pc[p] \in {"again"}}
  OBVIOUS
<1>4. QED
  BY <1>2, <1>3 DEF Offering, MadeRoom, Count

(* The move of a producer, as the two counts see it.                       *)
LEMMA MoveCounts ==
  ASSUME TypeOK, TypeOK', NEW p \in Producers, NEW v, pc' = [pc EXCEPT ![p] = v]
  PROVE  /\ Offering' = Offering + (IF v \in Busy THEN 1 ELSE 0)
                                 - (IF pc[p] \in Busy THEN 1 ELSE 0)
         /\ MadeRoom' = MadeRoom + (IF v = "again" THEN 1 ELSE 0)
                                 - (IF pc[p] = "again" THEN 1 ELSE 0)
<1>1. pc \in [Producers -> {"idle", "push", "room", "again"}]
  BY DEF TypeOK
<1>2. Offering = Count(pc, Busy) /\ MadeRoom = Count(pc, {"again"})
  BY CountsAre
<1>3. (TypeOK => Offering = Count(pc, Busy) /\ MadeRoom = Count(pc, {"again"}))'
  BY CountsAre, PTL
<1>4. Offering' = Count(pc', Busy) /\ MadeRoom' = Count(pc', {"again"})
  BY <1>3 DEF Count, Busy
<1>5. /\ Count(pc', Busy) = Count(pc, Busy) + (IF v \in Busy THEN 1 ELSE 0)
                                            - (IF pc[p] \in Busy THEN 1 ELSE 0)
      /\ Count(pc', {"again"}) = Count(pc, {"again"})
                                   + (IF v \in {"again"} THEN 1 ELSE 0)
                                   - (IF pc[p] \in {"again"} THEN 1 ELSE 0)
  <2>1. \A S : /\ Count([pc EXCEPT ![p] = v], S) =
                    Count(pc, S) + (IF v \in S THEN 1 ELSE 0)
                                 - (IF pc[p] \in S THEN 1 ELSE 0)
    BY <1>1, CountMoves
  <2>2. QED
    BY <2>1
<1>6. QED
  BY <1>2, <1>4, <1>5

LEMMA CountsAreNats ==
  ASSUME TypeOK
  PROVE  Offering \in Nat /\ MadeRoom \in Nat
<1>1. \A S \in SUBSET Producers : IsFiniteSet(S)
  BY ProducerAssumption, FS_Subset
<1>2. QED
  BY <1>1, FS_CardinalityType DEF Offering, MadeRoom

(* What is queued, when a datagram is appended or taken.                   *)
Queued == Len(q["hi"]) + Len(q["lo"])

LEMMA QueuedIsNat == TypeOK => Queued \in Nat
BY LenProperties DEF TypeOK, Queued

LEMMA PushCounts ==
  ASSUME TypeOK, NEW p \in Producers, Push(p)
  PROVE  Queued' = Queued + 1
<1>1. class[p] \in Class /\ q \in [Class -> Seq(Datagram)]
  BY DEF TypeOK
<1>2. \A c \in Class : Len(Append(q[c], Offered(p))) = Len(q[c]) + 1 /\ Len(q[c]) \in Nat
  BY <1>1, OfferedIsDatagram, AppendProperties, LenProperties
<1>3. q' = [q EXCEPT ![class[p]] = Append(@, Offered(p))]
  BY DEF Push
<1>4. CASE class[p] = "hi"
  BY <1>1, <1>2, <1>3, <1>4 DEF Queued
<1>5. CASE class[p] = "lo"
  BY <1>1, <1>2, <1>3, <1>5 DEF Queued
<1>6. QED
  BY <1>1, <1>4, <1>5

LEMMA TailCounts ==
  ASSUME TypeOK, NEW c \in Class, q[c] # <<>>, q' = [q EXCEPT ![c] = Tail(@)]
  PROVE  Queued' = Queued - 1
<1>1. q \in [Class -> Seq(Datagram)] /\ \A k \in Class : Len(q[k]) \in Nat
  BY LenProperties DEF TypeOK
<1>2. Len(Tail(q[c])) = Len(q[c]) - 1
  BY <1>1, HeadTailProperties
<1>3. CASE c = "hi"
  BY <1>1, <1>2, <1>3 DEF Queued
<1>4. CASE c = "lo"
  BY <1>1, <1>2, <1>4 DEF Queued
<1>5. QED
  BY <1>3, <1>4

(* The bound, without the product.                                         *)
AnyContended == \E c \in Class : Contended(c)

LEMMA LossBound ==
  ASSUME TypeOK
  PROVE  LossCounted <=> Lost <= MadeRoom + drops + (IF AnyContended THEN drops ELSE 0)
<1>1. drops \in Nat
  BY DEF TypeOK
<1>2. CASE AnyContended
  <2>1. drops * 2 = drops + drops
    BY <1>1
  <2>2. QED
    BY <1>1, <1>2, <2>1, CountsAreNats DEF LossCounted, AnyContended
<1>3. CASE ~AnyContended
  <2>1. drops * 1 = drops + 0
    BY <1>1
  <2>2. QED
    BY <1>1, <1>3, <2>1, CountsAreNats DEF LossCounted, AnyContended
<1>4. QED
  BY <1>2, <1>3

SentTotal == Total(sent)

LEMMA LostIs ==
  ASSUME TypeOK
  PROVE  /\ Lost = SentTotal - (Queued + Len(cur) + emitted + Offering)
         /\ SentTotal \in Nat /\ Queued \in Nat /\ Len(cur) \in Nat /\ emitted \in Nat
         /\ Offering \in Nat
<1>1. sent \in Counts(Producers)
  BY DEF TypeOK, Counts
<1>2. SentTotal \in Nat
  <2>1. CASE Producers = {}
    <3>1. sent = [p \in Producers |-> [c \in Class |-> 0]]
      BY <1>1, <2>1 DEF Counts
    <3>2. QED
      BY <3>1, TotalZero, ProducerAssumption DEF SentTotal
  <2>2. CASE Producers # {}
    BY <1>1, <2>2, TotalBump, ProducerAssumption DEF SentTotal
  <2>3. QED
    BY <2>1, <2>2
<1>3. Len(cur) \in Nat /\ emitted \in Nat /\ Queued \in Nat
  BY LenProperties, QueuedIsNat DEF TypeOK
<1>4. Lost = SentTotal - (Queued + Len(cur) + emitted + Offering)
  BY DEF Lost, Queued, SentTotal
<1>5. QED
  BY <1>2, <1>3, <1>4, CountsAreNats

(* What one step may lose, against what it adds to the count of offers     *)
(* that have made room and to w.drops.                                     *)
Charged(more, rooms, drop) ==
  /\ Lost' = Lost + more /\ MadeRoom' = MadeRoom + rooms /\ drops' = drops + drop
  /\ more <= rooms + drop + (IF AnyContended THEN drop ELSE 0)

LEMMA ChargedStep ==
  ASSUME TypeOK, TypeOK', Shed, [Next]_vars
  PROVE  \E more \in Int, rooms \in Int, drop \in {0, 1} : Charged(more, rooms, drop)
<1>t. /\ pc \in [Producers -> {"idle", "push", "room", "again"}]
      /\ sent \in Counts(Producers) /\ drops \in Nat /\ class \in [Producers -> Class]
  BY DEF TypeOK, Counts
<1>l. /\ Lost = SentTotal - (Queued + Len(cur) + emitted + Offering)
      /\ SentTotal \in Nat /\ Queued \in Nat /\ Len(cur) \in Nat /\ emitted \in Nat
      /\ Offering \in Nat /\ MadeRoom \in Nat
  BY LostIs, CountsAreNats
<1>m. Lost' = SentTotal' - (Queued' + Len(cur') + emitted' + Offering')
  BY DEF Lost, Queued, SentTotal
<1>f. IsFiniteSet(Producers)
  BY ProducerAssumption
<1>1. ASSUME NEW p \in Producers, NEW c \in Class, Send(p, c) PROVE Charged(0, 0, 0)
  <2>1. /\ pc[p] = "idle" /\ pc' = [pc EXCEPT ![p] = "push"]
        /\ sent' = [sent EXCEPT ![p][c] = @ + 1]
        /\ UNCHANGED <<q, cur, emitted, drops>>
    BY <1>1 DEF Send
  <2>2. SentTotal' = SentTotal + 1
    <3>1. Total([sent EXCEPT ![p][c] = @ + 1]) = Total(sent) + 1
      BY <1>t, <1>f, TotalBump
    <3>2. QED
      BY <2>1, <3>1 DEF SentTotal
  <2>3. Offering' = Offering + 1 - 0 /\ MadeRoom' = MadeRoom
    <3>1. /\ Offering' = Offering + (IF "push" \in Busy THEN 1 ELSE 0)
                               - (IF pc[p] \in Busy THEN 1 ELSE 0)
          /\ MadeRoom' = MadeRoom + (IF "push" = "again" THEN 1 ELSE 0)
                               - (IF pc[p] = "again" THEN 1 ELSE 0)
      BY <2>1, MoveCounts
    <3>2. QED
      BY <1>l, <2>1, <3>1 DEF Busy
  <2>4. Queued' = Queued
    BY <2>1 DEF Queued
  <2>5. QED
    BY <1>t, <1>l, <1>m, <2>1, <2>2, <2>3, <2>4 DEF Charged
<1>2. ASSUME NEW p \in Producers, OfferPush(p) PROVE Charged(0, 0, 0)
  <2>1. pc[p] = "push" /\ UNCHANGED <<sent, cur, emitted, drops>>
    BY <1>2 DEF OfferPush
  <2>2. SentTotal' = SentTotal
    BY <2>1 DEF SentTotal
  <2>3. CASE Push(p) /\ pc' = [pc EXCEPT ![p] = "idle"]
    <3>1. Offering' = Offering + 0 - 1 /\ MadeRoom' = MadeRoom
      <4>1. /\ Offering' = Offering + (IF "idle" \in Busy THEN 1 ELSE 0)
                                 - (IF pc[p] \in Busy THEN 1 ELSE 0)
            /\ MadeRoom' = MadeRoom + (IF "idle" = "again" THEN 1 ELSE 0)
                                 - (IF pc[p] = "again" THEN 1 ELSE 0)
        BY <2>1, <2>3, MoveCounts
      <4>2. QED
        BY <1>l, <2>1, <4>1 DEF Busy
    <3>2. Queued' = Queued + 1
      BY <2>3, PushCounts
    <3>3. QED
      BY <1>t, <1>l, <1>m, <2>1, <2>2, <3>1, <3>2 DEF Charged
  <2>4. CASE q' = q /\ pc' = [pc EXCEPT ![p] = "room"]
    <3>1. Offering' = Offering + 1 - 1 /\ MadeRoom' = MadeRoom
      <4>1. /\ Offering' = Offering + (IF "room" \in Busy THEN 1 ELSE 0)
                                 - (IF pc[p] \in Busy THEN 1 ELSE 0)
            /\ MadeRoom' = MadeRoom + (IF "room" = "again" THEN 1 ELSE 0)
                                 - (IF pc[p] = "again" THEN 1 ELSE 0)
        BY <2>1, <2>4, MoveCounts
      <4>2. QED
        BY <1>l, <2>1, <4>1 DEF Busy
    <3>2. Queued' = Queued
      BY <2>4 DEF Queued
    <3>3. QED
      BY <1>t, <1>l, <1>m, <2>1, <2>2, <3>1, <3>2 DEF Charged
  <2>5. QED
    BY <1>2, <2>3, <2>4 DEF OfferPush
<1>3. ASSUME NEW p \in Producers, OfferMakeRoom(p)
      PROVE  Charged(0, 1, 0) \/ Charged(1, 1, 0)
  <2>1. /\ pc[p] = "room" /\ UNCHANGED <<sent, cur, emitted, drops>>
        /\ pc' = [pc EXCEPT ![p] = "again"] /\ class[p] \in Class
    BY <1>3, <1>t DEF OfferMakeRoom
  <2>2. SentTotal' = SentTotal
    BY <2>1 DEF SentTotal
  <2>3. Offering' = Offering + 1 - 1 /\ MadeRoom' = MadeRoom + 1 - 0
    BY <2>1, MoveCounts DEF Busy
  <2>4. CASE q' = q
    <3>1. Queued' = Queued
      BY <2>4 DEF Queued
    <3>2. QED
      BY <1>t, <1>l, <1>m, <2>1, <2>2, <2>3, <3>1 DEF Charged
  <2>5. CASE q[class[p]] # <<>> /\ q' = [q EXCEPT ![class[p]] = Tail(@)]
    <3>1. Queued' = Queued - 1
      BY <2>1, <2>5, TailCounts
    <3>2. QED
      BY <1>t, <1>l, <1>m, <2>1, <2>2, <2>3, <3>1 DEF Charged
  <2>6. QED
    BY <1>3, <2>4, <2>5 DEF OfferMakeRoom
<1>4. ASSUME NEW p \in Producers, OfferAgain(p)
      PROVE  Charged(0, -1, 1) \/ Charged(1, -1, 1)
  <2>1. /\ pc[p] = "again" /\ UNCHANGED <<sent, cur, emitted>>
        /\ pc' = [pc EXCEPT ![p] = "idle"] /\ class[p] \in Class
        /\ drops' = drops + 1
    BY <1>4, <1>t DEF OfferAgain
  <2>2. SentTotal' = SentTotal
    BY <2>1 DEF SentTotal
  <2>3. Offering' = Offering + 0 - 1 /\ MadeRoom' = MadeRoom + 0 - 1
    BY <2>1, MoveCounts DEF Busy
  <2>4. CASE Push(p)
    <3>1. Queued' = Queued + 1
      BY <2>4, PushCounts
    <3>2. QED
      BY <1>t, <1>l, <1>m, <2>1, <2>2, <2>3, <3>1 DEF Charged
  <2>5. CASE Full(class[p]) /\ q' = q
    <3>1. Queued' = Queued
      BY <2>5 DEF Queued
    <3>2. AnyContended
      BY <2>1, <2>5 DEF Shed, AnyContended
    <3>3. QED
      BY <1>t, <1>l, <1>m, <2>1, <2>2, <2>3, <3>1, <3>2 DEF Charged
  <2>6. QED
    BY <1>4, <2>4, <2>5 DEF OfferAgain
<1>5. ASSUME UNCHANGED <<sent, drops, pc>>,
             Queued' + Len(cur') + emitted' = Queued + Len(cur) + emitted,
             Queued' \in Int, Len(cur') \in Int, emitted' \in Int
      PROVE  Charged(0, 0, 0)
  <2>1. SentTotal' = SentTotal /\ Offering' = Offering /\ MadeRoom' = MadeRoom
    BY <1>5 DEF SentTotal, Offering, MadeRoom
  <2>2. QED
    BY <1>t, <1>l, <1>m, <1>5, <2>1 DEF Charged
<1>6. ASSUME NEW c \in Class, Take(c), wpc # "emit" PROVE Charged(0, 0, 0)
  <2>1. Queued' = Queued - 1
    BY <1>6, TailCounts DEF Take
  <2>2. Len(cur) = 0 /\ Len(cur') = 1
    BY <1>6 DEF TypeOK, Take
  <2>3. UNCHANGED <<sent, drops, pc, emitted>>
    BY <1>6 DEF Take
  <2>4. QED
    BY <1>5, <1>l, <2>1, <2>2, <2>3
<1>7. ASSUME Emit PROVE Charged(0, 0, 0)
  <2>1. /\ UNCHANGED <<q, sent, drops, pc>> /\ emitted' = emitted + 1
        /\ wpc = "emit" /\ cur' = <<>>
    BY <1>7 DEF Emit, EmitOk, EmitErr
  <2>2. Len(cur) = 1 /\ Len(cur') = 0
    BY <2>1, EmptySeq DEF TypeOK
  <2>3. Queued' = Queued
    BY <2>1 DEF Queued
  <2>4. QED
    BY <1>5, <1>l, <2>1, <2>2, <2>3
<1>8. ASSUME Close \/ Stop \/ FindHiEmpty \/ Drain \/ Die \/ UNCHANGED vars
      PROVE  Charged(0, 0, 0)
  <2>1. UNCHANGED <<q, sent, drops, pc, cur, emitted>>
    BY <1>8 DEF Close, Stop, FindHiEmpty, Drain, Die, vars
  <2>2. Queued' = Queued
    BY <2>1 DEF Queued
  <2>3. QED
    BY <1>5, <1>l, <2>1, <2>2
<1>9. \/ Charged(0, 0, 0) \/ Charged(0, 1, 0) \/ Charged(1, 1, 0)
      \/ Charged(0, -1, 1) \/ Charged(1, -1, 1)
  <2>1. TakeHi \/ TakeLo => wpc # "emit" /\ \E c \in Class : Take(c)
    BY DEF TakeHi, TakeLo
  <2>2. CASE \E p \in Producers : Offer(p) \/ \E c \in Class : Send(p, c)
    BY <1>1, <1>2, <1>3, <1>4, <2>2 DEF Offer
  <2>3. CASE Run
    <3>1. CASE TakeHi \/ TakeLo
      BY <1>6, <2>1, <3>1
    <3>2. CASE Stop \/ FindHiEmpty
      BY <1>8, <3>2
    <3>3. CASE Emit
      BY <1>7, <3>3
    <3>4. QED
      BY <2>3, <3>1, <3>2, <3>3 DEF Run
  <2>4. CASE Close \/ Drain \/ Die \/ UNCHANGED vars
    BY <1>8, <2>4
  <2>5. QED
    BY <2>2, <2>3, <2>4 DEF Next
<1>10. -1 \in Int /\ 0 \in Int /\ 1 \in Int
  OBVIOUS
<1>11. QED
  BY <1>9, <1>10

LEMMA LossStep ==
  TypeOK /\ TypeOK' /\ Shed /\ LossCounted /\ [Next]_vars => LossCounted'
<1> SUFFICES ASSUME TypeOK, TypeOK', Shed, LossCounted, [Next]_vars PROVE LossCounted'
  OBVIOUS
<1>1. PICK more \in Int, rooms \in Int, drop \in {0, 1} : Charged(more, rooms, drop)
  BY ChargedStep
<1>2. Lost <= MadeRoom + drops + (IF AnyContended THEN drops ELSE 0)
  BY LossBound
<1>3. Lost \in Int /\ MadeRoom \in Int /\ drops \in Nat
  <2>1. Lost \in Int
    BY LostIs
  <2>2. QED
    BY <2>1, CountsAreNats DEF TypeOK
<1>4. AnyContended => AnyContended'
  BY UsesGrow DEF AnyContended
<1>5. Lost' <= MadeRoom' + drops' + (IF AnyContended' THEN drops' ELSE 0)
  BY <1>1, <1>2, <1>3, <1>4 DEF Charged
<1>6. (TypeOK => (LossCounted <=>
          Lost <= MadeRoom + drops + (IF AnyContended THEN drops ELSE 0)))'
  BY LossBound, PTL
<1>7. QED
  BY <1>5, <1>6

(* The drop count never understates the loss, for any number of producers  *)
(* and any interleaving of their three selects: by at most one datagram    *)
(* for each offer that has made room and not yet counted it, and by half   *)
(* where producers contend for a class.                                    *)
THEOREM LossIsCounted == Spec => []LossCounted
<1>1. Init => TypeOK /\ Shed
  BY TypesInit DEF Init, Shed
<1>2. Init => LossCounted
  <2> SUFFICES ASSUME Init PROVE LossCounted
    OBVIOUS
  <2>1. TypeOK
    BY <1>1
  <2>2. SentTotal = 0
    BY TotalZero, ProducerAssumption DEF Init, SentTotal
  <2>3. drops = 0
    BY DEF Init
  <2>4. Lost <= 0
    BY <2>1, <2>2, LostIs
  <2>5. MadeRoom \in Nat
    BY <2>1, CountsAreNats
  <2>6. Lost \in Int
    BY <2>1, LostIs
  <2>7. QED
    BY <2>1, <2>3, <2>4, <2>5, <2>6, LossBound
<1>3. TypeOK /\ TypeOK' /\ Shed /\ [Next]_vars => Shed'
  BY ShedStep
<1>4. TypeOK /\ TypeOK' /\ Shed /\ LossCounted /\ [Next]_vars => LossCounted'
  BY LossStep
<1>5. QED
  BY <1>1, <1>2, <1>3, <1>4, TypeCorrect, PTL DEF Spec
=============================================================================
