------------------------------ MODULE TextSplit ------------------------------
(***************************************************************************)
(* How a long text is cut into Slack messages (utils/markdown.py).  Slack   *)
(* itself would cut at any line end, through a fenced code block as well;   *)
(* split_for_slack cuts so that every message has its fences in pairs.      *)
(*                                                                         *)
(* A line is what the cut depends on: its length, whether it begins with a  *)
(* fence, and which of the pieces it is cut into when it is too long for    *)
(* one message (all but the first) happen to begin with one.                *)
(***************************************************************************)
EXTENDS Integers, Sequences, SequencesExt

CONSTANT Limit            \* SLACK_TEXT_LIMIT

\* A wrapped line must leave room for a fence and a line end on either side.
ASSUME LimitAssumption == Limit \in Nat /\ Limit > 8

FenceLen == 3

Line == [len : Nat, fence : BOOLEAN, late : SUBSET Nat]
Fence == [len |-> FenceLen, fence |-> TRUE, late |-> {}]

\* len("\n".join(lines)); 0 for no line at all.
Length(lines) ==
  LET sum[n \in 0..Len(lines)] == IF n = 0 THEN 0 ELSE sum[n - 1] + lines[n].len
  IN sum[Len(lines)] + (IF lines = <<>> THEN 0 ELSE Len(lines) - 1)

Fences(lines) == Cardinality({i \in DOMAIN lines : lines[i].fence})
Balanced(lines) == Fences(lines) % 2 = 0

\* "> " before every line that is not in a code block; ">" before an empty one.
Blockquote(lines) ==
  [i \in DOMAIN lines |->
     IF lines[i].fence \/ ~Balanced(SubSeq(lines, 1, i)) THEN lines[i]
     ELSE [lines[i] EXCEPT !.len = @ + (IF @ = 0 THEN 1 ELSE 2)]]

MaxLine == Limit - 2 * (FenceLen + 1)

\* The pieces of a line that is longer than a message can hold.
Pieces(l) ==
  LET n == IF l.len <= MaxLine THEN 1 ELSE (l.len + MaxLine - 1) \div MaxLine IN
  [k \in 1..n |->
     [len   |-> IF k < n THEN MaxLine ELSE l.len - (n - 1) * MaxLine,
      fence |-> IF k = 1 THEN l.fence ELSE k \in l.late,
      late  |-> {}]]

Wrapped(lines) == FlattenSeq([i \in DOMAIN lines |-> Pieces(lines[i])])

-----------------------------------------------------------------------------
\* The loop's state: the messages cut off so far, the lines of the one being
\* filled, its length as the loop counts it, and whether a fence is open.
Start == [chunks |-> <<>>, cur |-> <<>>, curLen |-> 0, inFence |-> FALSE]

Closer(st) == IF st.inFence THEN <<Fence>> ELSE <<>>

\* An open fence is closed at the end of the message, and opened in the next.
Flush(st) ==
  [chunks  |-> Append(st.chunks, st.cur \o Closer(st)),
   cur     |-> Closer(st),
   curLen  |-> IF st.inFence THEN FenceLen ELSE 0,
   inFence |-> st.inFence]

Cost(st, l) == l.len + (IF st.cur = <<>> THEN 0 ELSE 1)
NextFence(st, l) == st.inFence # l.fence
\* Seeded fault: no room is kept for the closing fence.
ReserveNothing(st, l) == 0

Reserve(st, l) == IF NextFence(st, l) THEN FenceLen + 1 ELSE 0
Overflows(st, l) ==
  st.cur # <<>> /\ st.curLen + Cost(st, l) + Reserve(st, l) > Limit

Add(st, l) ==
  [chunks  |-> st.chunks,
   cur     |-> Append(st.cur, l),
   curLen  |-> st.curLen + Cost(st, l),
   inFence |-> NextFence(st, l)]

Take(st, l) == Add(IF Overflows(st, l) THEN Flush(st) ELSE st, l)

Cut(lines) ==
  LET at[n \in 0..Len(lines)] == IF n = 0 THEN Start ELSE Take(at[n - 1], lines[n])
  IN at[Len(lines)]

Split(lines) ==
  IF Length(lines) <= Limit THEN <<lines>> ELSE Flush(Cut(Wrapped(lines))).chunks

-----------------------------------------------------------------------------
\* What a message must be for Slack to show it as it was meant.
Renders(chunk) == Length(chunk) <= Limit /\ Balanced(chunk)

\* The lines that are not fences, each with whether it is code.
Content(lines) ==
  LET said[n \in 0..Len(lines)] ==
        IF n = 0 THEN <<>>
        ELSE IF lines[n].fence THEN said[n - 1]
        ELSE Append(said[n - 1],
                    [line |-> lines[n], code |-> ~Balanced(SubSeq(lines, 1, n))])
  IN said[Len(lines)]

\* The messages hold the text's lines, all of them and in order, and what was
\* code in the text is code in its message.
Contents(parts) == FlattenSeq([k \in DOMAIN parts |-> Content(parts[k])])
Whole(lines) == IF Length(lines) <= Limit THEN lines ELSE Wrapped(lines)
KeepsText(lines) == Contents(Split(lines)) = Content(Whole(lines))
=============================================================================
