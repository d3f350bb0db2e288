------------------------------ MODULE Dnsfilter ------------------------------
(***************************************************************************)
(* dnsfilter(1), source/dnsfilter.c: looks up the addresses at the          *)
(* beginnings of lines in parallel, and prints the lines in their order.    *)
(*                                                                         *)
(* The input is a sequence of tokens, "LF" or the text of a line; a line in  *)
(* x has its text, whether it has its LF, and what was put in its middle.   *)
(***************************************************************************)
EXTENDS Integers, Sequences, SequencesExt, FiniteSets, FiniteSetsExt

CONSTANTS
  Inputs, IPs,              \* IPs: the texts that begin with an address
  SIZE,                     \* of inbuf (1024)
  xmax, maxactive, None
VARIABLE s

At(pc) == s.prog = "dnsfilter" /\ s.pc = pc

Init ==
  \E in \in Inputs :
    s = [prog |-> "dnsfilter", pc |-> "wait", input |-> in, coming |-> in, inbuf |-> <<>>, partial |-> <<>>, flag0 |-> TRUE,
         x |-> <<>>, numactive |-> 0, out |-> <<>>]

(* r is what became of the look-up: "fail", an answer with a "name", with    *)
(* "none", one that is "bad"; None without one.  Only that of an answer has *)
(* an equals sign, even where it is bad.                                    *)
Middle == [fail |-> <<":error">>, none |-> <<>>, name |-> <<"=", "name">>, bad |-> <<"=", ":error">>]
Answered(l, r) == IF r = "wait" THEN l ELSE [l EXCEPT !.flagactive = FALSE, !.middle = Middle[r], !.r = r]
Active(x) == {i \in DOMAIN x : x[i].flagactive}
Got(f) == [i \in DOMAIN s.x |-> IF i \in DOMAIN f THEN Answered(s.x[i], f[i]) ELSE s.x[i]]

(* One return of iopause(): input is read, and each active line gets on.     *)
Read(n) == IF n = 0 THEN [s EXCEPT !.flag0 = FALSE] ELSE [s EXCEPT !.inbuf = @ \o SubSeq(s.coming, 1, n), !.coming = SubSeq(@, n + 1, Len(@))]
Reads == IF ~s.flag0 \/ Len(s.inbuf) = SIZE THEN {s}
         ELSE {s} \cup (IF s.coming = <<>> THEN {Read(0)} ELSE {Read(n) : n \in 1..Min({Len(s.coming), SIZE - Len(s.inbuf)})})
Wait ==
  /\ At("wait")
  /\ \E t \in Reads, f \in [Active(s.x) -> {"wait", "fail", "none", "name", "bad"}] :
       s' = [t EXCEPT !.pc = "work", !.x = Got(f), !.numactive = @ - Cardinality({i \in DOMAIN f : f[i] # "wait"})]

-----------------------------------------------------------------------------
(* The inner loop.                                                          *)
Printable == s.x # <<>> /\ ~s.x[1].flagactive
(* Mutant: any line that is ready is printed.                               *)
Emit_Any ==
  /\ At("work")
  /\ \E i \in DOMAIN s.x : ~s.x[i].flagactive /\ s' = [s EXCEPT !.out = Append(@, s.x[i]), !.x = SubSeq(@, 1, i - 1) \o SubSeq(@, i + 1, Len(@))]
Emit ==
  /\ At("work") /\ Printable
  /\ s' = [s EXCEPT !.out = Append(@, s.x[1]), !.x = Tail(@)]

Room == Len(s.x) < xmax /\ s.numactive < maxactive
Newline == SelectInSeq(s.inbuf, LAMBDA t : t = "LF")
Absorb ==
  /\ At("work") /\ ~Printable /\ Room /\ s.inbuf # <<>> /\ Newline = 0
  /\ s' = [s EXCEPT !.partial = @ \o s.inbuf, !.inbuf = <<>>]

Line(ts) == [text |-> SelectSeq(ts, LAMBDA t : t # "LF"), lf |-> "LF" \in ToSet(ts), middle |-> <<>>, r |-> None, flagactive |-> FALSE]
(* dns_transmit_start() may fail at once.                                   *)
Started(l) == IF l.text # <<>> /\ l.text[1] \in IPs THEN {[l EXCEPT !.flagactive = TRUE], Answered(l, "fail")} ELSE {l}
Takeable == Newline # 0 \/ (~s.flag0 /\ s.inbuf = <<>> /\ s.partial # <<>>)
Take ==
  /\ At("work") /\ ~Printable /\ Room /\ Takeable
  /\ \E l \in Started(Line(s.partial \o SubSeq(s.inbuf, 1, Newline))) :
       s' = [s EXCEPT !.inbuf = SubSeq(@, Newline + 1, Len(@)), !.partial = <<>>, !.x = Append(@, l), !.numactive = IF l.flagactive THEN @ + 1 ELSE @]
Rest ==
  /\ At("work") /\ ~Printable /\ ~(Room /\ (s.inbuf # <<>> \/ Takeable))
  /\ s' = [s EXCEPT !.pc = IF s.flag0 \/ s.inbuf # <<>> \/ s.partial # <<>> \/ s.x # <<>> THEN "wait" ELSE "done"]

Next == Wait \/ Emit \/ Absorb \/ Take \/ Rest

(* The lines come out as they went in, each as it was but for what is put    *)
(* behind its address, which is what was found for that address; the number *)
(* of look-ups is what it is said to be and within its limit; whoever waits *)
(* waits for input or for a look-up; and at the end nothing is left.        *)
Lines(in) == [i \in 1..Cardinality({j \in DOMAIN in : in[j] = "LF" \/ (j = Len(in))}) |->
                LET ends == SetToSortSeq({j \in DOMAIN in : in[j] = "LF" \/ j = Len(in)}, <)
                    ts == SubSeq(in, IF i = 1 THEN 1 ELSE ends[i - 1] + 1, ends[i])
                IN [text |-> SelectSeq(ts, LAMBDA t : t # "LF"), lf |-> "LF" \in ToSet(ts)]]
Filters ==
  s.prog = "dnsfilter" =>
    LET made == s.out \o s.x
        lines == Lines(s.input)
    IN /\ IsPrefix([i \in DOMAIN made |-> [text |-> made[i].text, lf |-> made[i].lf]], lines)
       /\ \A i \in DOMAIN made :
            IF made[i].text # <<>> /\ made[i].text[1] \in IPs THEN ~made[i].flagactive => made[i].middle = Middle[made[i].r]
            ELSE made[i].middle = <<>>
       /\ s.numactive = Cardinality(Active(s.x)) /\ s.numactive <= maxactive /\ Len(s.x) <= xmax
       /\ s.pc = "wait" => s.numactive > 0 \/ s.flag0
       /\ s.pc = "done" => Len(s.out) = Len(lines)
(* dnsfilter.xml: only a name is inserted with an equals sign.              *)
ColonOnly == s.prog = "dnsfilter" => \A i \in DOMAIN s.out : "=" \in ToSet(s.out[i].middle) => s.out[i].r = "name"
=============================================================================
