---------------------------- MODULE OverlapSave -----------------------------
(***************************************************************************)
(* Block-by-block FIR filtering with decimation (pkg/dsp/fir.go): the      *)
(* bookkeeping that XlatingFilter and RealFIRFilter share.                 *)
(*                                                                         *)
(* A sample is represented by the position of the newest raw IQ sample it  *)
(* was computed from.  A filter output is that position if the filter saw  *)
(* exactly the samples before it, and Glitch if some were missing,         *)
(* repeated or out of place; the arithmetic of the taps is left out.       *)
(***************************************************************************)
EXTENDS Integers, Sequences

Glitch == -1

(* newOverlapSave and reset: the last taps - 1 samples of the blocks       *)
(* before, and how many inputs were taken since the last output.  Zeros    *)
(* stand before the first sample.                                          *)
FreshStage(taps) == [carry |-> [i \in 1 .. taps - 1 |-> 0], phase |-> 0]

Taps(stage) == Len(stage.carry) + 1

(* What the block is filtered in: the carry, then the block.               *)
Window(stage, in) == stage.carry \o in

(* emit: an output falls on every decim-th input.                          *)
Outputs(stage, in, decim) == (stage.phase + Len(in)) \div decim

(* The inner loop, for inputs that should be `stride' positions apart.     *)
Convolve(w, stride) ==
  LET newest == w[Len(w)]
      Due(i) == newest - (Len(w) - i) * stride
  IN  IF \A i \in DOMAIN w : w[i] = IF Due(i) > 0 THEN Due(i) ELSE 0
      THEN newest ELSE Glitch

(* Process: the k-th output sees the inputs up to the one it falls on.     *)
Filter(stage, in, decim, stride) ==
  LET work == Window(stage, in)
      Output(k) == LET i == k * decim - stage.phase
                   IN  Convolve(SubSeq(work, i, i + Taps(stage) - 1), stride)
  IN  [k \in 1 .. Outputs(stage, in, decim) |-> Output(k)]

(* Mutant: the carry is taken from the new block alone.                    *)
Save_BlockOnly(stage, in, decim) ==
  LET padded == [i \in 1 .. Taps(stage) |-> 0] \o in
  IN  [carry |-> SubSeq(padded, Len(padded) - Taps(stage) + 2, Len(padded)),
       phase |-> (stage.phase + Len(in)) % decim]

(* save, and the phase that the calls of emit leave behind.                *)
Save(stage, in, decim) ==
  LET work == Window(stage, in)
  IN  [carry |-> SubSeq(work, Len(work) - Taps(stage) + 2, Len(work)),
       phase |-> (stage.phase + Len(in)) % decim]
=============================================================================
