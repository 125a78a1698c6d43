----------------------------- MODULE BrcmReorder -----------------------------
(***************************************************************************)
(* Reordering of received packets on the host (fwsignal.c,                 *)
(* brcmf_fws_rxreorder).  The firmware keeps the block-acknowledgement     *)
(* window and tells the driver with each packet where it belongs; the      *)
(* driver keeps the packets behind a hole in a ring of slots.              *)
(***************************************************************************)
EXTENDS Integers, Sequences, FiniteSets, FiniteSetsExt

CONSTANTS RxSlots,    \* slots of a flow (max_idx + 1)
          RxWindow,   \* the firmware's window
          RxPackets   \* bound: packets numbered 0 .. RxPackets-1

VARIABLES flow,       \* reorder_flows[flow_id], or NoFlow
          given,      \* the packets handed to the network stack, in order
          freed,      \* packets thrown away
          window      \* the firmware: next number expected, numbers received, in a hole?

reorderVars == <<flow, given, freed, window>>

Empty == -1
Idx == 0..(RxSlots - 1)
NoFlow == [exp |-> Empty, pend |-> 0, slot |-> [i \in Idx |-> Empty]]
NewFlow == [NoFlow EXCEPT !.exp = 0]
Marker == RxPackets   \* the packet that carries a window move

\* brcmf_rxreorder_get_skb_list: the indices from start up to end, all of them when
\* the two are equal; nothing when no packet is pending.
Between(start, end) ==
  LET n == (end - start) % RxSlots
  IN  [k \in 1..(IF n = 0 THEN RxSlots ELSE n) |-> (start + k - 1) % RxSlots]
Taken(d, start, end) ==
  IF d.pend = 0 THEN <<>>
  ELSE SelectSeq([k \in DOMAIN Between(start, end) |-> d.slot[Between(start, end)[k]]],
                 LAMBDA p : p # Empty)

\* The slots are emptied and the count reduced by what was taken.
GetSkbList(d, start, end) ==
  LET list == Taken(d, start, end)
  IN  [d EXCEPT !.slot = [i \in Idx |-> IF \E k \in DOMAIN list : list[k] = @[i] THEN Empty ELSE @[i]],
                !.pend = @ - Len(list)]

Store(d, cur, p) == [d EXCEPT !.slot[cur] = p, !.pend = @ + 1]
Freed(d, cur) == IF d.slot[cur] = Empty THEN {} ELSE {d.slot[cur]}

ReorderInit ==
  /\ flow = NoFlow /\ given = <<>> /\ freed = {}
  /\ window = [exp |-> 0, got |-> {}, hole |-> FALSE]

-----------------------------------------------------------------------------
(* brcmf_fws_rxreorder, one operator per kind of packet.                   *)

NewHole(p, cur, exp) ==
  LET d == IF flow = NoFlow THEN NewFlow ELSE flow
  IN  /\ given' = given \o Taken(d, d.exp, d.exp)
      /\ flow' = Store([GetSkbList(d, d.exp, d.exp) EXCEPT !.exp = exp], cur, p)
      /\ UNCHANGED freed

\* The packet the hole waited for is stored and given up in one go: the old one in
\* its slot, if any, is thrown away without being counted out.
MutExpected(d, p, cur, exp) ==
  /\ given' = Append(given, p) /\ flow' = [d EXCEPT !.exp = exp]
  /\ UNCHANGED freed
Expected(d, p, cur, exp) ==
  LET s == Store(d, cur, p)
  IN  /\ given' = given \o Taken(s, cur, exp)
      /\ flow' = [GetSkbList(s, cur, exp) EXCEPT !.exp = exp]
      /\ freed' = freed \cup Freed(d, cur)

StillInHole(d, p, cur) ==
  /\ flow' = Store(d, cur, p)
  /\ freed' = freed \cup Freed(d, cur)
  /\ UNCHANGED given

\* The window moved past the hole: what lies before the new start is given up first.
BothMoved(d, p, cur, exp, all) ==
  LET end == IF all THEN d.exp ELSE exp
      rest == [GetSkbList(d, d.exp, end) EXCEPT !.exp = exp]
      last == exp = (cur + 1) % RxSlots
  IN  /\ given' = given \o Taken(d, d.exp, end) \o (IF last THEN <<p>> ELSE <<>>)
      /\ flow' = IF last THEN rest ELSE Store(rest, cur, p)
      /\ UNCHANGED freed

CurIdxValid(p, cur, exp, all) ==
  LET d == IF flow = NoFlow THEN NewFlow ELSE flow
  IN  IF exp = d.exp /\ cur # d.exp THEN StillInHole(d, p, cur)
      ELSE IF d.exp = cur THEN Expected(d, p, cur, exp)
      ELSE BothMoved(d, p, cur, exp, all)

WindowMove(p, exp, all) ==
  LET d == IF flow = NoFlow THEN NewFlow ELSE flow
      end == IF all THEN d.exp ELSE exp
  IN  /\ given' = given \o Taken(d, d.exp, end) \o <<p>>
      /\ flow' = [GetSkbList(d, d.exp, end) EXCEPT !.exp = exp]
      /\ UNCHANGED freed

DelFlow(p) ==
  /\ given' = given \o (IF flow = NoFlow THEN <<>> ELSE Taken(flow, flow.exp, flow.exp)) \o <<p>>
  /\ flow' = NoFlow
  /\ UNCHANGED freed

-----------------------------------------------------------------------------
(* The firmware: each number is received once; one beyond the window moves *)
(* it.  A packet in order and outside a hole carries no reorder data.  The *)
(* driver compares slot numbers, so the firmware may not jump as far as    *)
(* the slots reach around; it may ask to flush all that it has given up.   *)

Gap(S, n) == Min({m \in n..(RxPackets + RxSlots) : m \notin S})
At(n) == n % RxSlots
Shifted(exp, got) == [exp |-> exp, got |-> got, hole |-> \E m \in got : m > exp]
Flush(exp) == {FALSE, \A m \in window.got : m < exp}

Receive(n) ==
  LET got == window.got \cup {n}
      exp == Gap(got, Max({window.exp, n - RxWindow + 1}))
  IN  /\ n \notin window.got /\ n \in window.exp..(window.exp + RxSlots - 2)
      /\ window' = Shifted(exp, got)
      /\ \/ ~window.hole /\ n = window.exp /\ given' = Append(given, n) /\ UNCHANGED <<flow, freed>>
         \/ ~window.hole /\ n # window.exp /\ NewHole(n, At(n), At(exp))
         \/ window.hole /\ \E all \in Flush(exp) : CurIdxValid(n, At(n), At(exp), all)

\* A block-acknowledgement request moves the start of the window.
MoveWindow(n) ==
  LET exp == Gap(window.got, n)
  IN  /\ window.hole /\ n \in (window.exp + 1)..(window.exp + RxWindow)
      /\ window' = Shifted(exp, window.got)
      /\ \E all \in Flush(exp) : WindowMove(Marker, At(exp), all)

EndFlow(n) ==
  /\ \A m \in window.got : m < n
  /\ DelFlow(n)
  /\ window' = Shifted(n + 1, window.got \cup {n})

ReorderNext ==
  \/ \E n \in 0..(RxPackets - 1) : Receive(n) \/ EndFlow(n)
  \/ \E n \in 0..RxPackets : MoveWindow(n)

ReorderSpec == ReorderInit /\ [][ReorderNext]_reorderVars

-----------------------------------------------------------------------------
\* Packets of a flow reach the network stack in order and once; until then each is
\* in its slot, the count is that of the full slots (an empty count would keep the
\* list from being given up), and none is thrown away (brcmf_fws_rxreorder).
ReorderRight ==
  LET order == SelectSeq(given, LAMBDA p : p # Marker)
  IN  /\ \A i, j \in DOMAIN order : i < j => order[i] < order[j]
      /\ \A n \in window.got : (\E i \in DOMAIN order : order[i] = n) \/ flow.slot[At(n)] = n
      /\ flow.pend = Cardinality({i \in Idx : flow.slot[i] # Empty})
      /\ freed = {}
=============================================================================
