------------------------------ MODULE Transfer ------------------------------
(***************************************************************************)
(* A zone transfer: source/axfrdns.c serves it from the primary's data.cdb, *)
(* source/axfr-get.c makes a secondary's data of it, over one connection.   *)
(* Meanwhile the primary's administrator publishes other data, and either   *)
(* program or the connection may fail at any time.                          *)
(*                                                                         *)
(* A message is one resource record.  The zones above are not served here.  *)
(***************************************************************************)
EXTENDS ZoneData, FiniteSets

CONSTANTS
  Zone,                     \* the name of the zone
  Start, Edits,             \* the primary's data: at first, and later
  Clients,                  \* addresses of the secondary
  Times,                    \* at which transfers are made
  MaxRuns, MaxPublish       \* bounds on runs of axfr-get, and on changes

VARIABLE s

At(pc) == s.prog = "transfer" /\ s.pc = pc
SvAt(sv) == s.prog = "transfer" /\ s.sv = sv

Init ==
  \E ip \in Clients, allowed \in BOOLEAN :
    s = [prog |-> "transfer", pc |-> "idle", sv |-> "closed", wire |-> <<>>,
         cdb |-> tinydns_data(Start, <<>>), old |-> {}, db |-> <<>>, now |-> 0, loc |-> None, allowed |-> allowed, ip |-> ip,
         soa |-> None, fn |-> None, fntmp |-> <<>>, oldserial |-> None, serial |-> None, numsoa |-> 0, runs |-> 0, seen |-> {}]

(* The primary publishes other data: seen is what was in data.cdb since     *)
(* axfr-get began, and old what was there before.                           *)
Publish ==
  /\ s.prog = "transfer" /\ Cardinality(s.old) < MaxPublish
  /\ \E z \in Edits : LET c == tinydns_data(z, s.cdb)
                      IN /\ c \notin s.old \cup {s.cdb}
                         /\ s' = [s EXCEPT !.cdb = c, !.old = @ \cup {s.cdb}, !.seen = @ \cup {c}]

-----------------------------------------------------------------------------
(* axfr-get: the question for the serial, and the transfer                  *)

Serial(lines) == IF lines = None THEN None ELSE IF Head(lines).c = "#" THEN Head(lines).n ELSE None
Zero == <<"0">>

Begin ==
  /\ At("idle") /\ s.runs < MaxRuns
  /\ s' = [s EXCEPT !.pc = "soa", !.sv = "soa", !.runs = @ + 1, !.oldserial = Serial(s.fn), !.seen = {s.cdb}, !.numsoa = 0]

End(t, pc) == [t EXCEPT !.pc = pc, !.sv = "closed", !.wire = <<>>, !.db = <<>>, !.soa = None, !.now = 0, !.loc = None]

(* With the answer: a serial that it has already ends it.                   *)
Compare ==
  /\ At("soa") /\ s.wire # <<>>
  /\ LET new == Head(s.wire).val[Len(Head(s.wire).val)]
     IN s' = IF s.oldserial # None /\ s.oldserial # Zero /\ new # Zero /\ s.oldserial = new
             THEN [End(s, "done") EXCEPT !.serial = new]
             ELSE [s EXCEPT !.pc = "axfr", !.sv = "axfr", !.wire = <<>>, !.fntmp = <<>>, !.serial = new]

Line(c, rr) == [c |-> c, d |-> rr.owner, ip |-> None, x |-> <<>>, n |-> <<>>, ttl |-> rr.ttl, ttd |-> None, lo |-> None]
todot(n) == IF n = <<>> THEN <<"", "">> ELSE n \o <<"">>

(* The lines of a record.                                                   *)
Lines(rr) ==
  CASE rr.type = "SOA" -> <<[Line("#", rr) EXCEPT !.n = rr.val[2]],
                            [Line("Z", rr) EXCEPT !.x = todot(rr.val[1]), !.n = rr.val[2]]>>
    [] rr.type = "NS" -> <<[Line("&", rr) EXCEPT !.x = todot(rr.val[1])]>>
    [] rr.type = "CNAME" -> <<[Line("C", rr) EXCEPT !.x = todot(rr.val[1])]>>
    [] rr.type = "SRV" -> <<[Line("S", rr) EXCEPT !.x = todot(rr.val[2]), !.n = rr.val[1]]>>
    [] rr.type = "PTR" -> <<[Line("^", rr) EXCEPT !.x = todot(rr.val[1])]>>
    [] rr.type = "MX" -> <<[Line("@", rr) EXCEPT !.x = todot(rr.val[2]), !.n = rr.val[1]]>>
    [] rr.type \in {"A", "AAAA"} -> <<[Line("+", rr) EXCEPT !.ip = rr.val[1]]>>
    [] OTHER -> <<[Line(":", rr) EXCEPT !.x = rr.type, !.n = rr.val]>>

Within(n) == Zone \in Ancestors(n)

(* One record is written to fn.tmp: of SOA records the first, and a         *)
(* wildcard of name servers ends axfr-get.                                  *)
doit ==
  /\ At("axfr") /\ s.wire # <<>>
  /\ LET rr == Head(s.wire)
         t == [s EXCEPT !.wire = Tail(@)]
     IN s' = IF ~Within(rr.owner) THEN t
             ELSE IF rr.type = "SOA" /\ s.numsoa = 1 THEN [t EXCEPT !.numsoa = 2, !.pc = "all"]
             ELSE IF rr.type = "NS" /\ Star(rr.owner) THEN End(t, "died")
             ELSE [t EXCEPT !.fntmp = @ \o Lines(rr), !.numsoa = IF rr.type = "SOA" THEN @ + 1 ELSE @]

(* fn.tmp is complete, on the disk, and renamed.                            *)
Rename == At("all") /\ s' = [End(s, "done") EXCEPT !.fn = s.fntmp, !.fntmp = <<>>]

(* Mutant: the end of the connection is taken for the end of the transfer.  *)
Fail_Rename ==
  /\ s.prog = "transfer" /\ s.pc \in {"soa", "axfr", "all"}
  /\ s' = IF s.pc = "axfr" THEN [End(s, "done") EXCEPT !.fn = s.fntmp] ELSE End(s, "died")
(* The connection ends, a time runs out, a disk is full, or a kill.         *)
Fail == s.prog = "transfer" /\ s.pc \in {"soa", "axfr", "all"} /\ s' = End(s, "died")
(* It is run again.                                                         *)
Again == s.prog = "transfer" /\ s.pc \in {"done", "died"} /\ s.runs < MaxRuns /\ s' = [s EXCEPT !.pc = "idle"]

-----------------------------------------------------------------------------
(* axfrdns                                                                  *)

(* What is sent of one record, with a star before the owner.                *)
build(r, flagsoa) ==
  LET ttl == IF r.ttd # None /\ r.ttl = 0 THEN 2 ELSE r.ttl
      owner == IF r.wild THEN <<"*">> \o r.owner ELSE r.owner
  IN IF (r.type = "SOA") # flagsoa \/ ~Sees(r, s.loc, s.now) \/ (flagsoa /\ r.wild) THEN <<>>
     ELSE <<[owner |-> owner, type |-> r.type, ttl |-> ttl, val |-> r.val]>>

Die == s' = End(s, "died")

(* A question for the serial is answered as any other: not at all without   *)
(* name servers, without an answer when there is no SOA record.             *)
RespondSoa ==
  /\ SvAt("soa")
  /\ \E now \in Times, loc \in {ClientLoc(s.cdb, s.ip)} :
       LET rs == find(s.cdb, Zone, FALSE, loc, now)
           soas == SelectSeq(rs, LAMBDA r : r.type = "SOA")
       IN IF soas = <<>> \/ \A i \in DOMAIN rs : rs[i].type # "NS" THEN Die
          ELSE s' = [s EXCEPT !.sv = "wait", !.wire = <<soas[1]>>]

(* data.cdb is opened once more, for the transfer.                          *)
doaxfr ==
  /\ SvAt("axfr") /\ s.db = <<>>
  /\ IF ~s.allowed THEN Die
     ELSE \E now \in Times : s' = [s EXCEPT !.db = s.cdb, !.loc = ClientLoc(s.cdb, s.ip), !.now = now, !.sv = "first"]

Messages(flagsoa) == FlattenSeq([i \in DOMAIN s.db |-> build(s.db[i], flagsoa)])
ApexSoa == SelectSeq(Messages(TRUE), LAMBDA rr : rr.owner = Zone)

SendSoa ==
  /\ SvAt("first")
  /\ IF ApexSoa = <<>> THEN Die
     ELSE s' = [s EXCEPT !.soa = ApexSoa[1], !.wire = <<ApexSoa[1]>>, !.sv = "records"]

(* The records of data.cdb one by one, as fast as axfr-get takes them; what *)
(* was sent leaves db.                                                      *)
SendRecord ==
  /\ SvAt("records") /\ s.wire = <<>> /\ s.db # <<>>
  /\ LET r == Head(s.db)
         t == [s EXCEPT !.db = Tail(@)]
     IN s' = IF r.type = "%" \/ ~Within(r.owner) THEN t ELSE [t EXCEPT !.wire = build(r, FALSE)]
SendLast == SvAt("records") /\ s.wire = <<>> /\ s.db = <<>> /\ s' = [s EXCEPT !.wire = <<s.soa>>, !.sv = "wait"]

Next ==
  \/ Publish \/ Begin \/ Compare \/ doit \/ Rename \/ Fail \/ Again
  \/ RespondSoa \/ doaxfr \/ SendSoa \/ SendRecord \/ SendLast

-----------------------------------------------------------------------------
(* What a record is to the secondary, and what it is there after tinydns-    *)
(* data has read the line that axfr-get wrote: the numbers of a SRV record  *)
(* have changed places (axfr-get.c:210-214, tinydns-data.c:460-468).        *)
Part(r) == [owner |-> r.owner, wild |-> r.wild, type |-> r.type, val |-> r.val,
            ttl |-> IF r.ttd # None /\ r.ttl = 0 THEN 2 ELSE r.ttl]
Reread(r) == IF r.type = "SRV" THEN [Part(r) EXCEPT !.val[1] = <<@[2], @[3], @[1]>>] ELSE Part(r)

Image(c, now, as(_)) ==
  LET loc == ClientLoc(c, s.ip)
      zone == SelectSeq(c, LAMBDA r : Sees(r, loc, now) /\ Within(r.owner))
      soas == SelectSeq(zone, LAMBDA r : r.type = "SOA" /\ r.owner = Zone /\ ~r.wild)
  IN {as(zone[i]) : i \in {j \in DOMAIN zone : zone[j].type # "SOA"}} \cup (IF soas = <<>> THEN {} ELSE {as(Head(soas))})
IsOf(lines, versions, as(_)) ==
  \E c \in versions, now \in Times : Image(c, now, as) = {Part(r) : r \in ToSet(Compile(lines))}

(* The secondary's data is never anything but all of one version of the     *)
(* zone, as the secondary's location sees it at one time: its records, but  *)
(* for the places of the numbers of SRV records, and their times to live.   *)
(* When a run ends well that version was published while it ran, or has the *)
(* serial of what it has already.                                           *)
Transferred ==
  /\ s.fn # None => Accepted(s.fn) /\ IsOf(s.fn, s.old \cup {s.cdb}, Reread)
  /\ At("done") => IsOf(s.fn, s.seen, Reread) \/ (s.serial = Serial(s.fn) /\ s.serial # Zero)

(* "Copies DNS data from a content DNS server" (axfr-get.xml): the records   *)
(* of the secondary are those of the primary, with the priority, weight and *)
(* port of SRV records.  They are not.                                      *)
NumbersKept == s.prog = "transfer" /\ s.fn # None => IsOf(s.fn, s.old \cup {s.cdb}, Part)
=============================================================================
