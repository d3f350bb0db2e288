------------------------------- MODULE Buffer --------------------------------
(***************************************************************************)
(* The buffers of all programs here, source/buffer.c, source/buffer_get.c,  *)
(* source/buffer_put.c and source/buffer_copy.c: a program that puts out    *)
(* what it gets, with any mixture of the calls, and ends at an error.       *)
(* source/substdi.c and source/substdo.c are the same once more.            *)
(*                                                                         *)
(* A call of read() or write() that is interrupted is made again and does   *)
(* not change anything.                                                     *)
(***************************************************************************)
EXTENDS Integers, Sequences, FiniteSetsExt

CONSTANTS
  Source,                   \* all that can be read
  INSIZE, OUTSIZE,          \* of the two buffers
  BUFFER_OUTSIZE,           \* what is written at once of long data (8192)
  Lens,                     \* what a program asks for
  None
VARIABLE s

At(pc) == s.prog = "buffer" /\ s.pc = pc
First(d, n) == SubSeq(d, 1, Min({n, Len(d)}))
After(d, n) == SubSeq(d, n + 1, Len(d))

(* in: the unread data of the input buffer; held: what the program has got; *)
(* x: the output buffer; out: what is left for allwrite(); rest: what is    *)
(* left for the call after it.                                              *)
Init == s = [prog |-> "buffer", pc |-> "get", coming |-> Source, in |-> <<>>, held |-> <<>>, copying |-> FALSE, eof |-> FALSE,
             x |-> <<>>, call |-> None, n |-> 0, rest |-> <<>>, out |-> <<>>, written |-> <<>>]

-----------------------------------------------------------------------------
(* How many bytes oneread() may return of len; it may also fail.            *)
oneread(len) == 1..Min({len, Len(s.coming)})

getthis(len) == [s EXCEPT !.pc = "put", !.held = First(s.in, len), !.in = After(@, len)]
buffer_feed(r) == [s EXCEPT !.in = First(s.coming, r), !.coming = After(@, r)]
Direct(r) == [s EXCEPT !.pc = "put", !.held = First(s.coming, r), !.coming = After(@, r)]

(* buffer_get() and buffer_bget() of len bytes.                             *)
Get ==
  /\ At("get") /\ ~s.eof
  /\ \E len \in Lens :
       \/ s.in # <<>> /\ s' = getthis(len)
       \/ s.in = <<>> /\ INSIZE <= len /\ \E r \in oneread(len) \cup oneread(INSIZE) : s' = Direct(r)
       \/ s.in = <<>> /\ INSIZE > len /\ \E r \in oneread(INSIZE) :
            LET fed == buffer_feed(r)
            IN s' = [fed EXCEPT !.pc = "put", !.held = First(fed.in, len), !.in = After(fed.in, len)]

(* buffer_copy(): what was fed stays in the buffer until it has been put.   *)
Copy ==
  /\ At("get") /\ ~s.eof
  /\ \/ s.in # <<>> /\ s' = [s EXCEPT !.pc = "put", !.held = s.in, !.copying = TRUE]
     \/ s.in = <<>> /\ \E r \in oneread(INSIZE) : s' = [buffer_feed(r) EXCEPT !.pc = "put", !.held = First(s.coming, r), !.copying = TRUE]

ReadEnd == At("get") /\ ~s.eof /\ s.in = <<>> /\ s.coming = <<>> /\ s' = [s EXCEPT !.eof = TRUE]
ReadFails == At("get") /\ ~s.eof /\ s.in = <<>> /\ s' = [s EXCEPT !.pc = "failed"]

-----------------------------------------------------------------------------
(* A call that has placed everything; SEEK after the put of a copy.         *)
Placed(t, x) ==
  [t EXCEPT !.pc = IF t.eof THEN "end" ELSE "get", !.x = x, !.call = None, !.rest = <<>>,
            !.in = IF t.copying THEN <<>> ELSE @, !.copying = FALSE]

(* allwrite(out), with the rest of the call to follow.                      *)
Writing(call, out, rest) ==
  s' = [s EXCEPT !.pc = "write", !.call = call, !.held = <<>>, !.x = <<>>, !.out = out, !.rest = rest, !.n = Max({OUTSIZE, BUFFER_OUTSIZE})]

Fits(data) == Len(data) <= OUTSIZE - Len(s.x)
Place == At("put") /\ Fits(s.held) /\ s' = Placed([s EXCEPT !.held = <<>>], s.x \o s.held)
buffer_put == At("put") /\ ~Fits(s.held) /\ Writing("put", s.x, s.held)
buffer_putalign ==
  /\ At("put") /\ ~Fits(s.held) /\ ~s.copying
  /\ LET n == OUTSIZE - Len(s.x) IN Writing("putalign", s.x \o First(s.held, n), After(s.held, n))
buffer_putflush == At("put") /\ ~s.copying /\ Writing("putflush", s.x, s.held)
buffer_flush == At("get") /\ (s.x # <<>> \/ s.eof) /\ Writing("flush", s.x, <<>>)

Write ==
  /\ At("write") /\ s.out # <<>>
  /\ \/ \E w \in 1..Len(s.out) : s' = [s EXCEPT !.written = @ \o First(s.out, w), !.out = After(@, w)]
     \/ s' = [s EXCEPT !.pc = "failed"]

(* The loops of buffer_put() and buffer_putalign(), and what is left then.   *)
Chunk == CASE s.call = "put" -> Min({s.n, Len(s.rest)}) [] s.call = "putalign" -> OUTSIZE [] OTHER -> Len(s.rest)
More_Fitting == IF s.call = "putflush" THEN s.rest # <<>> ELSE Len(s.rest) > OUTSIZE + 1
More == IF s.call = "putflush" THEN s.rest # <<>> ELSE Len(s.rest) > OUTSIZE
Next_write ==
  /\ At("write") /\ s.out = <<>>
  /\ s' = IF More THEN [s EXCEPT !.out = First(s.rest, Chunk), !.rest = After(@, Chunk), !.n = Chunk]
          ELSE Placed(s, s.rest)

Next ==
  \/ Get \/ Copy \/ ReadEnd \/ ReadFails
  \/ Place \/ buffer_put \/ buffer_putalign \/ buffer_putflush \/ buffer_flush \/ Write \/ Next_write

(* A stream is a stream: however reads and writes are cut, what has been     *)
(* written, with what the buffers and the program hold, is what there was    *)
(* to read, in its order; all of it has been written when the program has   *)
(* flushed at the end; and no buffer holds more than it has room for.       *)
Streams ==
  s.prog = "buffer" =>
    /\ s.written \o s.out \o s.rest \o s.x \o s.held \o (IF s.copying THEN <<>> ELSE s.in) \o s.coming = Source
    /\ s.pc = "end" => s.written = Source
    /\ Len(s.in) <= INSIZE /\ Len(s.x) <= OUTSIZE
=============================================================================
