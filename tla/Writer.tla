------------------------------- MODULE Writer -------------------------------
(***************************************************************************)
(* protocol.Writer (pkg/protocol/writer.go): the goroutine that turns the  *)
(* blocking SendDatagram of a QUIC connection into a Send that never       *)
(* waits.  Producers append to one of two bounded Go channels; offer is    *)
(* three separate non-blocking selects, so producers and the writer        *)
(* goroutine interleave between them.  The goroutine prefers hi to lo.     *)
(*                                                                         *)
(* A datagram is the n-th one its producer sent in its class: what the     *)
(* properties tell apart is who sent it, in which class, in which order.   *)
(***************************************************************************)
EXTENDS Naturals, Sequences, FiniteSets, Functions

CONSTANTS Producers,   \* goroutines calling Send on this Writer
          Spectrum,    \* those of them that send spectrum (FFT) frames
          hiDepth,     \* capacity of w.hi (64 in the code)
          loDepth,     \* capacity of w.lo (2 in the code)
          QuicDepth,   \* datagrams quic-go queues before SendDatagram blocks
          MaxSend      \* bound: Sends of each producer

ASSUME ProducerAssumption == Spectrum \subseteq Producers /\ IsFiniteSet(Producers)
ASSUME DepthAssumption == hiDepth \in Nat \ {0} /\ loDepth \in Nat \ {0}
ASSUME BoundAssumption == QuicDepth \in Nat \ {0} /\ MaxSend \in [Producers -> Nat]

VARIABLES
  q,          \* q["hi"] is w.hi, q["lo"] is w.lo
  done,       \* w.done is closed
  pc,         \* where each producer is inside Send
  class,      \* the class of the datagram each producer is offering
  sent,       \* sent[p][c]: Sends p has started in class c
  drops,      \* w.drops
  wpc,        \* where the writer goroutine is inside run
  cur,        \* <<d>> while run holds d in emit, else <<>>
  room,       \* free places in the connection's own datagram queue
  up,         \* the QUIC connection is alive
  handed,     \* history: last datagram of p and c given to SendDatagram
  emitted,    \* history: datagrams given to SendDatagram
  overtakes   \* history: lo datagrams taken since hi was empty or served

connVars == <<room, up>>
vars == <<q, done, pc, class, sent, drops, wpc, cur, connVars,
          handed, emitted, overtakes>>

Class == {"hi", "lo"}
Depth(c) == IF c = "hi" THEN hiDepth ELSE loDepth
Datagram == [from : Producers, class : Class, n : Nat]

(* The datagram producer p is offering: the last one it started to send. *)
Offered(p) == [from |-> p, class |-> class[p], n |-> sent[p][class[p]]]

Full(c) == Len(q[c]) >= Depth(c)
Push(p) == q' = [q EXCEPT ![class[p]] = Append(@, Offered(p))]

(* The count of lo datagrams taken ahead of a waiting hi one starts again  *)
(* whenever no hi datagram waits.                                          *)
KeepOvertakes == overtakes' = IF q'["hi"] = <<>> THEN 0 ELSE overtakes

-----------------------------------------------------------------------------
Init ==
  /\ q = [c \in Class |-> <<>>]
  /\ done = FALSE
  /\ pc = [p \in Producers |-> "idle"]
  /\ class = [p \in Producers |-> "hi"]
  /\ sent = [p \in Producers |-> [c \in Class |-> 0]]
  /\ handed = [p \in Producers |-> [c \in Class |-> 0]]
  /\ drops = 0 /\ emitted = 0 /\ overtakes = 0
  /\ wpc = "first" /\ cur = <<>>
  /\ room = QuicDepth /\ up = TRUE

(* Send: an FFT frame goes to w.lo, anything else to w.hi. *)
Send(p, c) ==
  /\ c = "lo" => p \in Spectrum
  /\ pc[p] = "idle" /\ sent[p]["hi"] + sent[p]["lo"] < MaxSend[p]
  /\ pc' = [pc EXCEPT ![p] = "push"]
  /\ class' = [class EXCEPT ![p] = c]
  /\ sent' = [sent EXCEPT ![p][c] = @ + 1]
  /\ UNCHANGED <<q, done, drops, wpc, cur, connVars, handed, emitted,
                 overtakes>>

(* Mutant: offer appends without looking at the capacity. *)
OfferPush_Unbounded(p) ==
  /\ pc[p] = "push" /\ Push(p)
  /\ pc' = [pc EXCEPT ![p] = "idle"]
  /\ KeepOvertakes
  /\ UNCHANGED <<done, class, sent, drops, wpc, cur, connVars, handed, emitted>>

(* offer, first select: push if there is room. *)
OfferPush(p) ==
  /\ pc[p] = "push"
  /\ \/ /\ ~Full(class[p]) /\ Push(p)
        /\ pc' = [pc EXCEPT ![p] = "idle"]
     \/ /\ Full(class[p]) /\ UNCHANGED q
        /\ pc' = [pc EXCEPT ![p] = "room"]
  /\ KeepOvertakes
  /\ UNCHANGED <<done, class, sent, drops, wpc, cur, connVars, handed,
                 emitted>>

(* Mutant: offer waits for the writer instead of discarding. *)
OfferMakeRoom_Waits(p) ==
  /\ pc[p] = "room" /\ ~Full(class[p])
  /\ pc' = [pc EXCEPT ![p] = "again"]
  /\ UNCHANGED <<q, done, class, sent, drops, wpc, cur, connVars, handed,
                 emitted, overtakes>>

(* offer, second select: discard the oldest entry, if one is still there. *)
OfferMakeRoom(p) ==
  /\ pc[p] = "room"
  /\ \/ q[class[p]] # <<>> /\ q' = [q EXCEPT ![class[p]] = Tail(@)]
     \/ q[class[p]] = <<>> /\ UNCHANGED q
  /\ pc' = [pc EXCEPT ![p] = "again"]
  /\ KeepOvertakes
  /\ UNCHANGED <<done, class, sent, drops, wpc, cur, connVars, handed,
                 emitted>>

(* Mutant: offer reports success when its second push went in. *)
OfferAgain_Uncounted(p) ==
  /\ pc[p] = "again"
  /\ \/ ~Full(class[p]) /\ Push(p) /\ UNCHANGED drops
     \/ Full(class[p]) /\ UNCHANGED q /\ drops' = drops + 1
  /\ pc' = [pc EXCEPT ![p] = "idle"]
  /\ KeepOvertakes
  /\ UNCHANGED <<done, class, sent, wpc, cur, connVars, handed, emitted>>

(* Mutant: offer makes room but never pushes again. *)
OfferAgain_GivesUp(p) ==
  /\ pc[p] = "again"
  /\ pc' = [pc EXCEPT ![p] = "idle"]
  /\ drops' = drops + 1
  /\ UNCHANGED <<q, done, class, sent, wpc, cur, connVars, handed, emitted,
                 overtakes>>

(* offer, third select: push, or lose the datagram itself when another     *)
(* producer took the freed slot.  Send counts one drop either way.         *)
OfferAgain(p) ==
  /\ pc[p] = "again"
  /\ \/ ~Full(class[p]) /\ Push(p)
     \/ Full(class[p]) /\ UNCHANGED q
  /\ pc' = [pc EXCEPT ![p] = "idle"]
  /\ drops' = drops + 1
  /\ KeepOvertakes
  /\ UNCHANGED <<done, class, sent, wpc, cur, connVars, handed, emitted>>

Offer(p) == OfferPush(p) \/ OfferMakeRoom(p) \/ OfferAgain(p)

Close ==
  /\ ~done /\ done' = TRUE
  /\ UNCHANGED <<q, pc, class, sent, drops, wpc, cur, connVars, handed,
                 emitted, overtakes>>

-----------------------------------------------------------------------------
producerVars == <<done, pc, class, sent, drops>>

(* Mutant: only the first select watches done. *)
Stop_FirstOnly ==
  /\ wpc = "first" /\ done
  /\ wpc' = "stopped"
  /\ UNCHANGED <<q, cur, connVars, handed, emitted, overtakes, producerVars>>

(* run, either select: done is closed. *)
Stop ==
  /\ wpc \in {"first", "second"} /\ done
  /\ wpc' = "stopped"
  /\ UNCHANGED <<q, cur, connVars, handed, emitted, overtakes, producerVars>>

(* Mutant: one select over both queues, no priority. *)
FindHiEmpty_Unchecked ==
  /\ wpc = "first" /\ ~done
  /\ wpc' = "second"
  /\ UNCHANGED <<q, cur, connVars, handed, emitted, overtakes, producerVars>>

(* run, first select, default: nothing is ready. *)
FindHiEmpty ==
  /\ wpc = "first" /\ ~done /\ q["hi"] = <<>>
  /\ wpc' = "second"
  /\ UNCHANGED <<q, cur, connVars, handed, emitted, overtakes, producerVars>>

Take(c) ==
  /\ q[c] # <<>>
  /\ cur' = <<Head(q[c])>>
  /\ q' = [q EXCEPT ![c] = Tail(@)]
  /\ wpc' = "emit"
  /\ UNCHANGED <<connVars, handed, emitted, producerVars>>

(* run, either select: receive from w.hi. *)
TakeHi == wpc \in {"first", "second"} /\ Take("hi") /\ overtakes' = 0

(* run, second select: receive from w.lo, whatever has reached w.hi since  *)
(* the first select looked.                                                *)
TakeLo ==
  /\ wpc = "second" /\ Take("lo")
  /\ overtakes' = IF q["hi"] = <<>> THEN 0 ELSE overtakes + 1

(* emit: SendDatagram returns nil once the connection has room for it, or  *)
(* an error (datagram too large, or the connection closed while waiting).  *)
EmitOk ==
  /\ wpc = "emit" /\ room > 0
  /\ room' = room - 1

EmitErr ==
  /\ wpc = "emit"
  /\ UNCHANGED room

(* Mutant: a datagram whose send failed is queued again. *)
Emit_Retry ==
  /\ LET d == Head(cur)
     IN  /\ \/ EmitOk /\ UNCHANGED q
            \/ EmitErr /\ q' = [q EXCEPT ![d.class] = Append(@, d)]
         /\ handed' = [handed EXCEPT ![d.from][d.class] = d.n]
  /\ emitted' = emitted + 1
  /\ wpc' = "first" /\ cur' = <<>>
  /\ UNCHANGED <<up, overtakes, producerVars>>

Emit ==
  /\ EmitOk \/ EmitErr
  /\ handed' = LET d == Head(cur) IN [handed EXCEPT ![d.from][d.class] = d.n]
  /\ emitted' = emitted + 1
  /\ wpc' = "first" /\ cur' = <<>>
  /\ UNCHANGED <<q, up, overtakes, producerVars>>

Run == Stop \/ FindHiEmpty \/ TakeHi \/ TakeLo \/ Emit

(* A Run step that is not waiting inside SendDatagram: an error may end    *)
(* the wait at any moment, but only room or a dead connection must.        *)
RunReady == Run /\ (wpc = "emit" => room > 0 \/ ~up)

-----------------------------------------------------------------------------
(* The QUIC connection: sends one queued datagram, or dies. *)
Drain ==
  /\ up /\ room < QuicDepth
  /\ room' = room + 1
  /\ UNCHANGED <<q, wpc, cur, up, handed, emitted, overtakes, producerVars>>

Die ==
  /\ up /\ up' = FALSE
  /\ UNCHANGED <<q, wpc, cur, room, handed, emitted, overtakes, producerVars>>

Next ==
  \/ \E p \in Producers : Offer(p) \/ \E c \in Class : Send(p, c)
  \/ Close \/ Run \/ Drain \/ Die

Spec == Init /\ [][Next]_vars

(* Each producer runs to the end of its Send: Go schedules goroutines      *)
(* fairly and no select in offer waits.  Nothing is assumed of the writer  *)
(* goroutine or of the connection.                                         *)
FairSpec == Spec /\ \A p \in Producers : WF_vars(Offer(p))

-----------------------------------------------------------------------------
TypeOK ==
  /\ q \in [Class -> Seq(Datagram)]
  /\ \A c \in Class : Len(q[c]) <= Depth(c)
  /\ done \in BOOLEAN
  /\ pc \in [Producers -> {"idle", "push", "room", "again"}]
  /\ class \in [Producers -> Class]
  /\ sent \in [Producers -> [Class -> Nat]]
  /\ handed \in [Producers -> [Class -> Nat]]
  /\ drops \in Nat /\ emitted \in Nat /\ overtakes \in Nat
  /\ wpc \in {"first", "second", "emit", "stopped"}
  /\ cur \in Seq(Datagram) /\ Len(cur) = IF wpc = "emit" THEN 1 ELSE 0
  /\ room \in 0..QuicDepth
  /\ up \in BOOLEAN

(* The Writer is a lossy channel: shedding from the front, losing a race   *)
(* for the freed slot and failing to send make gaps, but each producer's   *)
(* audio, and each producer's spectrum frames, go out in the order sent    *)
(* and none twice.  Opus decoding and the sequence marks depend on it.     *)
Channel == INSTANCE LossyChannel
             WITH Producers <- Producers, Class <- Class, sent <- sent, handed <- handed
InOrder == Channel!ChanSpec

(* What makes InOrder inductive: of one producer and class, what was handed *)
(* over is older than what run holds, which is older than what is queued,  *)
(* in queue order, which is older than what is still being offered.        *)
Pushed(p, c) == IF pc[p] # "idle" /\ class[p] = c THEN sent[p][c] - 1 ELSE sent[p][c]

Low(c)  == [p \in Producers |-> handed[p][c]]
High(c) == [p \in Producers |-> Pushed(p, c)]

OrderedQueue(s, c, low, high) ==
  \A i \in 1..Len(s) :
    /\ s[i].class = c
    /\ low[s[i].from] < s[i].n
    /\ s[i].n <= high[s[i].from]
    /\ \A j \in 1..Len(s) : i < j /\ s[i].from = s[j].from => s[i].n < s[j].n

OrderedHand(d, s, low, high) ==
  /\ low[d.from] < d.n
  /\ d.n <= high[d.from]
  /\ \A i \in 1..Len(s) : s[i].from = d.from => d.n < s[i].n

Ordered ==
  /\ \A p \in Producers, c \in Class : handed[p][c] <= Pushed(p, c)
  /\ \A c \in Class : OrderedQueue(q[c], c, Low(c), High(c))
  /\ wpc = "emit" =>
       LET d == Head(cur)
       IN  OrderedHand(d, q[d.class], Low(d.class), High(d.class))

(* run looks at lo only after finding hi empty, so audio that arrives      *)
(* between the two selects waits behind at most one spectrum frame.        *)
OneOvertake == overtakes <= 1

(* What makes OneOvertake inductive: run is between its two selects only   *)
(* when no hi datagram has been overtaken yet.                             *)
Prompt == /\ q["hi"] = <<>> => overtakes = 0
          /\ wpc = "second" => overtakes = 0

(* Every datagram Send accepted is queued, in the writer's hand, given to  *)
(* SendDatagram, or lost by an offer; an offer that loses counts one drop. *)
(* It loses the oldest entry, and when producers race for the freed slot   *)
(* its own datagram too: at most two for one counted.                      *)
Total(f) == FoldFunction(LAMBDA g, acc : g["hi"] + g["lo"] + acc, 0, f)
Offering == Cardinality({p \in Producers : pc[p] # "idle"})
MadeRoom == Cardinality({p \in Producers : pc[p] = "again"})
Lost == Total(sent) - (Len(q["hi"]) + Len(q["lo"]) + Len(cur) + emitted + Offering)
Uses(p, c) == sent[p][c] > 0
Contended(c) == \E p, r \in Producers : p # r /\ Uses(p, c) /\ Uses(r, c)

LossCounted ==
  Lost <= MadeRoom + drops * (IF \E c \in Class : Contended(c) THEN 2 ELSE 1)

(* "Either way exactly one datagram is lost" (writer.go:151-153).          *)
OneLossPerDrop == Lost <= MadeRoom + drops

(* Shedding is oldest-first: when only one goroutine sends in a class (the *)
(* pipeline's audio and spectrum to one client), what it sent last is      *)
(* never the one that is shed.                                             *)
NewestKept ==
  \A p \in Producers, c \in Class :
    (/\ Uses(p, c) /\ ~Contended(c)
     /\ pc[p] = "idle" \/ class[p] # c)
    => LET newest == [from |-> p, class |-> c, n |-> sent[p][c]]
       IN  \/ handed[p][c] = newest.n
           \/ cur = <<newest>>
           \/ \E i \in DOMAIN q[c] : q[c][i] = newest

(* Send never blocks: it returns even if the writer goroutine is stuck in  *)
(* SendDatagram for ever.                                                  *)
SendReturns == \A p \in Producers : pc[p] # "idle" ~> pc[p] = "idle"

(* Close ends the goroutine, even one that waits for a datagram or is      *)
(* inside SendDatagram, provided it is scheduled and the connection drains *)
(* or dies (a silent peer is timed out by QUIC after MaxIdleTimeout).      *)
StopsAfterClose ==
  WF_vars(RunReady) /\ WF_vars(Drain \/ Die) => (done ~> wpc = "stopped")
=============================================================================
