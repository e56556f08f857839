---------------------------- MODULE LossyChannel ----------------------------
(***************************************************************************)
(* What a receiver may rely on when somebody sends through                 *)
(* protocol.Writer: every sender has one stream per priority class, and    *)
(* each stream arrives in order, without repetition and without invention, *)
(* but with gaps.  Nothing is promised between streams.                    *)
(***************************************************************************)
EXTENDS Naturals

CONSTANTS Producers,   \* goroutines that call Send on this Writer
          Class        \* priority classes, one queue each

VARIABLES sent,        \* sent[p][c]: datagrams p has sent in class c
          handed       \* handed[p][c]: the last of them given to the network

chanVars == <<sent, handed>>

ChanInit ==
  /\ sent   = [p \in Producers |-> [c \in Class |-> 0]]
  /\ handed = [p \in Producers |-> [c \in Class |-> 0]]

Accept(p, c) ==
  /\ sent' = [sent EXCEPT ![p][c] = @ + 1]
  /\ UNCHANGED handed

(* The channel may skip any number of datagrams, never go back. *)
Deliver(p, c) ==
  /\ \E n \in handed[p][c] + 1 .. sent[p][c] :
       handed' = [handed EXCEPT ![p][c] = n]
  /\ UNCHANGED sent

ChanNext == \E p \in Producers, c \in Class : Accept(p, c) \/ Deliver(p, c)

ChanSpec == ChanInit /\ [][ChanNext]_chanVars
=============================================================================
