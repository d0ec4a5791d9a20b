------------------------------ MODULE AckRanges ------------------------------
(***************************************************************************)
(* AckRanges (stream/include/marlin/stream/protocol/AckRanges.hpp): the    *)
(* run-length list of the packet numbers a receiver has and has not seen,  *)
(* how an ACK carries its head and how did_recv_ACK reads it.              *)
(*                                                                         *)
(* The ranges run downwards from the largest seen number and alternate:    *)
(* the odd ones were seen, the even ones are gaps.                         *)
(***************************************************************************)
EXTENDS Integers, Sequences, FiniteSetsExt

CONSTANTS
  MaxRanges,       \* 1001: ranges kept
  MaxAckRanges     \* 171: ranges an ACK carries

\* An even limit would leave a gap at the end.
ASSUME RangesAssumption ==
  MaxRanges \in Nat /\ MaxRanges % 2 = 1 /\ MaxAckRanges \in Nat \ {0}

\* The code leaves largest uninitialised until the first number is added.
NoneSeen == [ranges |-> <<>>, largest |-> 0]

(* The sum of the first n numbers of a sequence.                           *)
Total(seq, n) ==
  LET sum[i \in 0 .. n] == IF i = 0 THEN 0 ELSE sum[i - 1] + seq[i]
  IN sum[n]

(* Range i covers the numbers from Low(ar, i) + 1 to Low(ar, i - 1).       *)
Low(ar, i) == ar.largest - Total(ar.ranges, i)
InRange(ar, i, num) == Low(ar, i) < num /\ num <= Low(ar, i - 1)

(* The numbers the ranges say were seen.                                   *)
Seen_All(ar) ==   \* slip: gap is not toggled
  {num \in 0 .. ar.largest : \E i \in DOMAIN ar.ranges : InRange(ar, i, num)}
Seen(ar) ==
  {num \in 0 .. ar.largest :
     \E i \in DOMAIN ar.ranges : i % 2 = 1 /\ InRange(ar, i, num)}

(* A number above all others, in a gap, or below all others.               *)
OnTop(ar, num) ==
  [ranges |-> IF num = ar.largest + 1 THEN [ar.ranges EXCEPT ![1] = @ + 1]
              ELSE <<1, num - ar.largest - 1>> \o ar.ranges,
   largest |-> num]

FillGap_Close(ar, i, num) ==   \* slip: a gap is merged before it is empty
  IF Low(ar, i - 1) = num \/ Low(ar, i) + 1 = num
  THEN SubSeq(ar.ranges, 1, i - 2)
         \o <<ar.ranges[i - 1] + 1 + ar.ranges[i + 1]>>
         \o SubSeq(ar.ranges, i + 2, Len(ar.ranges))
  ELSE SubSeq(ar.ranges, 1, i - 1) \o <<Low(ar, i - 1) - num, 1, num - Low(ar, i) - 1>>
         \o SubSeq(ar.ranges, i + 1, Len(ar.ranges))
FillGap(ar, i, num) ==
  LET above == Low(ar, i - 1) - num
      below == num - (Low(ar, i) + 1)
      until(j) == SubSeq(ar.ranges, 1, j)
      from(j) == SubSeq(ar.ranges, j, Len(ar.ranges))
  IN CASE above = 0 /\ below = 0 ->
            until(i - 2) \o <<ar.ranges[i - 1] + 1 + ar.ranges[i + 1]>> \o from(i + 2)
       [] above = 0 /\ below > 0 -> [ar.ranges EXCEPT ![i - 1] = @ + 1, ![i] = below]
       [] above > 0 /\ below = 0 -> [ar.ranges EXCEPT ![i] = above, ![i + 1] = @ + 1]
       [] OTHER -> until(i - 1) \o <<above, 1, below>> \o from(i + 1)

Truncate(ranges, n) == SubSeq(ranges, 1, Min({n, Len(ranges)}))

AtEnd(ar, num) ==
  LET last == Len(ar.ranges)
      high == Low(ar, last)
  IN Truncate(IF high = num THEN [ar.ranges EXCEPT ![last] = @ + 1]
              ELSE ar.ranges \o <<high - num, 1>>, MaxRanges)

add_packet_number(ar, num) ==
  LET holder == {i \in DOMAIN ar.ranges : InRange(ar, i, num)}
      i == CHOOSE x \in holder : TRUE
  IN CASE ar.ranges = <<>> -> [ranges |-> <<1>>, largest |-> num]
       [] ar.ranges # <<>> /\ num > ar.largest -> OnTop(ar, num)
       [] holder # {} /\ i % 2 = 1 -> ar
       [] holder # {} /\ i % 2 = 0 -> [ar EXCEPT !.ranges = FillGap(ar, i, num)]
       [] OTHER -> [ar EXCEPT !.ranges = AtEnd(ar, num)]

(* The ranges send_ACK takes along.                                        *)
Carried(ar) == [ar EXCEPT !.ranges = Truncate(@, MaxAckRanges)]
=============================================================================
