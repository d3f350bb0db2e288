------------------------------- MODULE Copyio --------------------------------
(***************************************************************************)
(* recordio(1) and fixcrio(1), source/recordio.c and source/fixcrio.c: a     *)
(* child of the program copies what comes on descriptor 0 to the program    *)
(* (left) and what the program writes to descriptor 1 (right).  recordio    *)
(* logs both; fixcrio puts a CR in front of a bare LF.                       *)
(*                                                                         *)
(* Data are sequences of the tokens "CR", "LF" and others.                  *)
(***************************************************************************)
EXTENDS Integers, Sequences, SequencesExt, FiniteSets, FiniteSetsExt

CONSTANTS
  Inputs, Outputs,          \* what the client sends, what the program writes
  SIZE,                     \* of a read (256)
  None
VARIABLE s

At(pc) == s.prog \in {"recordio", "fixcrio"} /\ s.pc = pc

(* A direction: what is still to come, whether no more will; the buffer,    *)
(* status as in the code, and flagcr; what was read, written and recorded.  *)
Direction(data, end) == [coming |-> data, end |-> end, status |-> 0, buf |-> <<>>, flagcr |-> FALSE, read |-> <<>>, written |-> <<>>, log |-> <<>>]

(* stdin is of the program: it may be closed by either side.  Program holds  *)
(* what it will still write.                                                *)
Init ==
  \E p \in {"recordio", "fixcrio"}, i \in Inputs, o \in Outputs :
    s = [prog |-> p, pc |-> "copy", left |-> Direction(i, TRUE), right |-> Direction(<<>>, FALSE), stdin |-> "open", net |-> "open", program |-> o, why |-> None]

(* record(): a line for every LF, and one marked "+" for what has none.     *)
record(data) ==
  LET ends == {i \in DOMAIN data : data[i] = "LF"}
      from(i) == Max({0} \cup {j \in ends : j < i}) + 1
      lines == SetToSortSeq(ends, <)
      rest == SubSeq(data, Max({0} \cup ends) + 1, Len(data))
  IN [i \in DOMAIN lines |-> [text |-> SubSeq(data, from(lines[i]), lines[i] - 1), mark |-> " "]]
       \o (IF rest = <<>> THEN <<>> ELSE <<[text |-> rest, mark |-> "+"]>>)
EOF_Line == [text |-> <<"[EOF]">>, mark |-> "EOF"]

(* fixcrio: one character, with what was made of those before it.           *)
(* Mutant: what came before is forgotten between reads.                     *)
Filtered_Forgets(d, data) ==
  LET after(i) == i > 1 /\ data[i - 1] = "CR"
      out(i) == IF data[i] = "LF" /\ ~after(i) THEN <<"CR", "LF">> ELSE <<data[i]>>
  IN [buf |-> FlattenSeq([i \in DOMAIN data |-> out(i)]), flagcr |-> Last(data) = "CR"]
Filtered(d, data) ==
  LET after(i) == IF i = 1 THEN d.flagcr ELSE data[i - 1] = "CR"
      out(i) == IF data[i] = "LF" /\ ~after(i) THEN <<"CR", "LF">> ELSE <<data[i]>>
  IN [buf |-> FlattenSeq([i \in DOMAIN data |-> out(i)]), flagcr |-> Last(data) = "CR"]

(* read() of n characters.                                                  *)
Got(d, n) ==
  LET data == SubSeq(d.coming, 1, n)
      t == [d EXCEPT !.coming = SubSeq(@, n + 1, Len(@)), !.read = @ \o data, !.status = 1]
  IN IF s.prog = "fixcrio" THEN [t EXCEPT !.buf = Filtered(d, data).buf, !.flagcr = Filtered(d, data).flagcr]
     ELSE [t EXCEPT !.buf = data, !.log = @ \o record(data)]
(* write() of n characters.                                                 *)
Put(d, n) == [d EXCEPT !.written = @ \o SubSeq(d.buf, 1, n), !.buf = SubSeq(@, n + 1, Len(@)), !.status = IF n = Len(d.buf) THEN 0 ELSE 1]
Ended(d) == [d EXCEPT !.status = -1, !.log = IF s.prog = "recordio" THEN Append(@, EOF_Line) ELSE @]

(* One of the descriptors that iopause() finds ready is dealt with.  A read  *)
(* that fails ends what is read like its end does.                          *)
ReadLeft ==
  /\ At("copy") /\ s.left.status = 0
  /\ \/ \E n \in 1..Min({SIZE, Len(s.left.coming)}) : s' = [s EXCEPT !.left = Got(@, n)]
     \/ s.left.coming = <<>> /\ s' = [s EXCEPT !.left = Ended(@), !.stdin = "end"]
WriteLeft ==
  /\ At("copy") /\ s.left.status = 1
  /\ \/ s.stdin = "open" /\ \E n \in 1..Len(s.left.buf) : s' = [s EXCEPT !.left = Put(@, n)]
     \/ s.stdin = "closed" /\ s' = [s EXCEPT !.pc = "gone", !.why = "left"]
ReadRight ==
  /\ At("copy") /\ s.right.status = 0
  /\ \/ \E n \in 1..Min({SIZE, Len(s.right.coming)}) : s' = [s EXCEPT !.right = Got(@, n)]
     \/ s.right.coming = <<>> /\ s.right.end /\ s' = [s EXCEPT !.right = Ended(@), !.pc = "gone", !.why = "end"]
WriteRight ==
  /\ At("copy") /\ s.right.status = 1
  /\ \/ s.net = "open" /\ \E n \in 1..Len(s.right.buf) : s' = [s EXCEPT !.right = Put(@, n)]
     \/ s.net = "closed" /\ s' = [s EXCEPT !.pc = "gone", !.why = "right"]

(* The program writes, closes its standard input, and exits; the client     *)
(* goes away.                                                               *)
Program ==
  /\ At("copy") /\ ~s.right.end
  /\ \/ s.program # <<>> /\ s' = [s EXCEPT !.right.coming = Append(@, Head(s.program)), !.program = Tail(@)]
     \/ s.stdin = "open" /\ s' = [s EXCEPT !.stdin = "closed"]
     \/ s.program = <<>> /\ s' = [s EXCEPT !.right.end = TRUE, !.stdin = IF @ = "open" THEN "closed" ELSE @]
Client == At("copy") /\ s.net = "open" /\ s' = [s EXCEPT !.net = "closed"]

Next == ReadLeft \/ WriteLeft \/ ReadRight \/ WriteRight \/ Program \/ Client

(* What a stream becomes, however it is cut into reads.                     *)
Becomes(data) ==
  IF s.prog = "recordio" THEN data
  ELSE FlattenSeq([i \in DOMAIN data |-> IF data[i] = "LF" /\ (i = 1 \/ data[i - 1] # "CR") THEN <<"CR", "LF">> ELSE <<data[i]>>])
Logged(d) == FlattenSeq([i \in DOMAIN d.log |-> d.log[i].text \o (IF d.log[i].mark = " " THEN <<"LF">> ELSE <<>>)])
(* Nothing is lost, doubled or reordered: what has been written, with what   *)
(* is still in the buffer, is what has been read, with its line ends set     *)
(* right; a copy that ends because the program has ended has delivered all   *)
(* that the program wrote; and what has been delivered has been recorded.   *)
Copies ==
  s.prog \in {"recordio", "fixcrio"} =>
    /\ \A d \in {s.left, s.right} :
         /\ d.written \o d.buf = Becomes(d.read)
         /\ s.prog = "recordio" => Logged(d) = d.read \o (IF d.status = -1 THEN <<"[EOF]">> ELSE <<>>)
    /\ s.why = "end" => s.program = <<>> /\ s.right.coming = <<>> /\ s.right.buf = <<>>
=============================================================================
