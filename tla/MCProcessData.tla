--------------------------- MODULE MCProcessData ---------------------------
(* Setups for checking IOMap and ProcessData.  Some are mapped only: bit-    *)
(* oriented slaves that share and straddle bytes, byte-oriented ones with    *)
(* one sync manager, with two that join and with two that do not.  Others    *)
(* exchange data, over small images of several segments.                     *)
EXTENDS ProcessData

None == [bits |-> 0, sm |-> << >>]
Bits(n) == [bits |-> n, sm |-> << [start |-> 10, len |-> 1] >>]
OneSm(n) == [bits |-> 8 * n, sm |-> << [start |-> 10, len |-> n] >>]
TwoJoined == [bits |-> 24, sm |-> << [start |-> 10, len |-> 1], [start |-> 11, len |-> 2] >>]
TwoApart == [bits |-> 20, sm |-> << [start |-> 10, len |-> 2], [start |-> 20, len |-> 1] >>]

\* Three slaves in two groups, one of them mapped after the other.
Sequential ==
  [group |-> <<1, 2, 1>>, groups |-> {1, 2}, overlap |-> FALSE, blockLRW |-> {2},
   dc |-> FALSE, cycles |-> 0, iomap |-> 0,
   outs |-> {None, Bits(3), Bits(5), OneSm(2), TwoApart}, ins |-> {None, Bits(3), OneSm(2)}]
InBoth == [Sequential EXCEPT !.overlap = TRUE,
             !.outs = {None, Bits(3), OneSm(1), TwoApart}, !.ins = {None, OneSm(3), TwoJoined}]

\* All slaves in one mapping: bit-oriented ones in front of others.
AllInOne ==
  {[Sequential EXCEPT !.group = <<0, 0, 0>>, !.groups = {0},
      !.outs = {None, Bits(3), Bits(5), OneSm(1), OneSm(2), TwoApart},
      !.ins = {None, Bits(3), Bits(5), OneSm(2)}]}

\* One LRW datagram after the other, the first with the DC datagram; the same
\* by LRD and LWR; the overlapped image.
ByLRW == [Sequential EXCEPT
            !.group = <<0, 0>>, !.groups = {0}, !.blockLRW = {}, !.dc = TRUE,
            !.cycles = 2, !.iomap = 12,
            !.outs = {None, OneSm(2)}, !.ins = {Bits(3), OneSm(3)}]
ByLRDAndLWR == [ByLRW EXCEPT !.blockLRW = {2}, !.cycles = 1,
                             !.outs = {None, OneSm(1), OneSm(3)},
                             !.ins = {None, OneSm(1), OneSm(2)}]
Overlapped == [ByLRW EXCEPT !.overlap = TRUE, !.dc = FALSE,
                 !.outs = {OneSm(1), OneSm(3)},
                 !.ins = {None, Bits(3), OneSm(3)}]
AllSetups == {Sequential, InBoth, ByLRW, ByLRDAndLWR, Overlapped}
=============================================================================
