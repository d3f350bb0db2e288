--------------------------------- MODULE Cdb ---------------------------------
(***************************************************************************)
(* The constant databases: source/cdb_make.c, source/cdb_hash.c and         *)
(* source/cdb.c, with a program that replaces the database (as tinydns-data *)
(* and tcprules do) while another reads it.                                 *)
(*                                                                         *)
(* A position is a number of bytes modulo MODULUS.  A database is            *)
(*   recs   the records, in the order in which they were added, each with    *)
(*          its key, data, hash value h and position p;                      *)
(*   table  for each of the TABLES hash tables its slots, counted from 0,    *)
(*          with h and p; p = 0 where a slot is empty.                       *)
(***************************************************************************)
EXTENDS Integers, Sequences, SequencesExt, FiniteSets, FiniteSetsExt

CONSTANTS
  Keys,                     \* sequences
  Data,                     \* of the records, which differ, in order
  cdb_hash,                 \* [Keys -> Nat]
  TABLES,                   \* hash tables (256)
  MODULUS,                  \* of positions (2^32)
  MaxRecords,               \* of the databases that are made, in order
  None
VARIABLE s

At(pc) == s.prog = "cdb" /\ s.pc = pc

cdb_make_start == [recs |-> <<>>, pos |-> 8 * TABLES]

posplus(pos, len) == (pos + len) % MODULUS
Overflows(pos, len) == posplus(pos, len) < len

cdb_make_addend(c, key, data) ==
  [recs |-> Append(c.recs, [key |-> key, data |-> data, h |-> cdb_hash[key], p |-> c.pos]),
   pos |-> posplus(posplus(posplus(c.pos, 8), Len(key)), Len(data))]
AddFails(c, key, data) ==
  \/ Overflows(c.pos, 8)
  \/ Overflows(posplus(c.pos, 8), Len(key))
  \/ Overflows(posplus(posplus(c.pos, 8), Len(key)), Len(data))

(* The first empty slot from where on, of which there is one: a table has   *)
(* twice as many slots as records.                                          *)
Place(slots, where, r) ==
  LET len == Cardinality(DOMAIN slots)
      i == Min({i \in 0..len - 1 : slots[(where + i) % len].p = 0})
  IN [slots EXCEPT ![(where + i) % len] = [h |-> r.h, p |-> r.p]]
Filled(recs) ==
  LET len == 2 * Len(recs)
  IN FoldLeft(LAMBDA slots, r : Place(slots, (r.h \div TABLES) % len, r), [i \in 0..len - 1 |-> [h |-> 0, p |-> 0]], recs)
(* c->split: the list, which is the wrong way round, is read backwards to    *)
(* its beginning.                                                           *)
Split(recs, i) == SelectSeq(recs, LAMBDA r : r.h % TABLES = i)
(* Mutant: the records of a table are filled in from the last added.        *)
cdb_make_finish_Backwards(c) == [recs |-> c.recs, table |-> [i \in 0..TABLES - 1 |-> Filled(Reverse(Split(c.recs, i)))]]
cdb_make_finish(c) == [recs |-> c.recs, table |-> [i \in 0..TABLES - 1 |-> Filled(Split(c.recs, i))]]
FinishFails(c) == c.pos + 16 * Len(c.recs) >= MODULUS

-----------------------------------------------------------------------------
(* A reader: struct cdb.                                                    *)
cdb_findstart(c) == [c EXCEPT !.loop = 0]
Opened(db) == [db |-> db, loop |-> 0, hslots |-> 0, khash |-> 0, start |-> 0]

At0(c, key) ==
  LET u == cdb_hash[key]
      slots == Cardinality(DOMAIN c.db.table[u % TABLES])
  IN IF c.loop # 0 THEN c
     ELSE IF slots = 0 THEN [c EXCEPT !.hslots = 0]
     ELSE [c EXCEPT !.hslots = slots, !.khash = u, !.start = (u \div TABLES) % slots]
Slot(c, i) == c.db.table[c.khash % TABLES][(c.start + i) % c.hslots]
Record(c, p) == CHOOSE r \in ToSet(c.db.recs) : r.p = p

(* The slots from c->loop on, with a wrap at the end of the table, to the   *)
(* first that is empty or has the key: the hash value, the length, and then *)
(* the bytes are compared.  r is 1 with the data, or 0.                     *)
cdb_findnext(c0, key) ==
  LET c == At0(c0, key)
      Match(i) == Slot(c, i).h = c.khash /\ Record(c, Slot(c, i).p).key = key
      stops == {i \in c.loop..c.hslots - 1 : Slot(c, i).p = 0 \/ Match(i)}
      i == Min(stops)
  IN CASE c.hslots = 0 -> [r |-> 0, data |-> None, c |-> c]
       [] c.hslots > 0 /\ stops = {} -> [r |-> 0, data |-> None, c |-> [c EXCEPT !.loop = c.hslots]]
       [] OTHER -> IF Slot(c, i).p = 0 THEN [r |-> 0, data |-> None, c |-> [c EXCEPT !.loop = i]]
                   ELSE [r |-> 1, data |-> Record(c, Slot(c, i).p).data, c |-> [c EXCEPT !.loop = i + 1]]

-----------------------------------------------------------------------------
Empty == cdb_make_finish(cdb_make_start)
Init == s = [prog |-> "cdb", pc |-> "run", db |-> Empty, make |-> None, runs |-> 0, c |-> None, key |-> None, got |-> <<>>, end |-> FALSE]

Start == At("run") /\ s.make = None /\ s.runs < Len(MaxRecords) /\ s' = [s EXCEPT !.make = cdb_make_start, !.runs = @ + 1]
Add ==
  /\ At("run") /\ s.make # None /\ Len(s.make.recs) < MaxRecords[s.runs]
  /\ \E k \in Keys :
       LET c == s.make
           d == Data[Len(c.recs) + 1]
       IN s' = [s EXCEPT !.make = IF AddFails(c, k, d) THEN None ELSE cdb_make_addend(c, k, d)]
(* The finished file takes the place of the other; a program that cannot    *)
(* finish it exits.                                                         *)
Finish ==
  /\ At("run") /\ s.make # None
  /\ s' = [s EXCEPT !.make = None, !.db = IF FinishFails(s.make) THEN @ ELSE cdb_make_finish(s.make)]
Crash == At("run") /\ s.make # None /\ s' = [s EXCEPT !.make = None]

Open == At("run") /\ s.c = None /\ s' = [s EXCEPT !.c = Opened(s.db)]
Took(r) == s' = [s EXCEPT !.c = r.c, !.got = IF r.r = 1 THEN Append(@, r.data) ELSE @, !.end = r.r = 0]
(* One look-up is followed by more with the same structure (cdb_find()).    *)
Find ==
  /\ At("run") /\ s.c # None /\ s.key = None
  /\ \E k \in Keys :
       LET r == cdb_findnext(cdb_findstart(s.c), k)
       IN s' = [s EXCEPT !.key = k, !.c = r.c, !.got = IF r.r = 1 THEN <<r.data>> ELSE <<>>, !.end = r.r = 0]
FindNext ==
  /\ At("run") /\ s.key # None /\ ~s.end
  /\ Took(cdb_findnext(s.c, s.key))
Again == At("run") /\ s.key # None /\ s' = [s EXCEPT !.key = None, !.got = <<>>, !.end = FALSE]
Close == At("run") /\ s.c # None /\ s.key = None /\ s' = [s EXCEPT !.c = None]

Next == Start \/ Add \/ Finish \/ Crash \/ Open \/ Find \/ FindNext \/ Again \/ Close

(* A reader gets the data that were added under its key to the database     *)
(* that it opened, all of them and no others, in the order in which they     *)
(* were added, whatever becomes of the file meanwhile.                      *)
Finds ==
  s.prog = "cdb" /\ s.key # None =>
    LET added == SelectSeq(s.c.db.recs, LAMBDA r : r.key = s.key)
        data == [i \in DOMAIN added |-> added[i].data]
    IN IsPrefix(s.got, data) /\ (s.end => s.got = data)
=============================================================================
