------------------------------ MODULE Rblsmtpd -------------------------------
(***************************************************************************)
(* rblsmtpd(1), source/rblsmtpd.c: whether an SMTP client is let through,   *)
(* turned away or told to bounce, and what it is told.                      *)
(*                                                                         *)
(* Options are processed one by one; given has those so far, each with what *)
(* its look-up found: "listed", "none" or "fail".                           *)
(***************************************************************************)
EXTENDS Integers, Sequences, SequencesExt, FiniteSets

CONSTANTS MaxOptions, MaxCommands, None
VARIABLE s

At(pc) == s.prog = "rblsmtpd" /\ s.pc = pc

(* The environment variable RBLSMTPD, None where it is not set.             *)
Decision(env) == CASE env = None -> 0 [] env = "" -> 1 [] env = "-text" -> 3 [] env = "text" -> 2
Init ==
  \E env \in {None, "", "-text", "text"}, timeout \in {0, 60} :
    s = [prog |-> "rblsmtpd", pc |-> "options", env |-> env, timeout |-> timeout, given |-> <<>>, replies |-> <<>>,
         flagrblbounce |-> FALSE, flagfailclosed |-> FALSE, flagmustnotbounce |-> FALSE, decision |-> Decision(env)]

Flag(o) ==
  CASE o = "b" -> [s EXCEPT !.flagrblbounce = TRUE]
    [] o = "B" -> [s EXCEPT !.flagrblbounce = FALSE]
    [] o = "c" -> [s EXCEPT !.flagfailclosed = TRUE]
    [] o = "C" -> [s EXCEPT !.flagfailclosed = FALSE]

rbl(found) ==
  IF s.decision # 0 THEN s
  ELSE CASE found = "fail" -> [s EXCEPT !.flagmustnotbounce = TRUE, !.decision = IF s.flagfailclosed THEN 2 ELSE 0]
         [] found = "listed" -> [s EXCEPT !.decision = IF s.flagrblbounce THEN 3 ELSE 2]
         [] found = "none" -> s
(* Mutant: a failed look-up of an allow-list is not remembered.             *)
antirbl_Forgets(found) ==
  IF s.decision # 0 THEN s
  ELSE CASE found = "fail" -> [s EXCEPT !.decision = IF s.flagfailclosed THEN 0 ELSE 1]
         [] found = "listed" -> [s EXCEPT !.decision = 1]
         [] found = "none" -> s
antirbl(found) ==
  IF s.decision # 0 THEN s
  ELSE CASE found = "fail" -> [s EXCEPT !.flagmustnotbounce = TRUE, !.decision = IF s.flagfailclosed THEN 0 ELSE 1]
         [] found = "listed" -> [s EXCEPT !.decision = 1]
         [] found = "none" -> s

Given(t, o, found) == s' = [t EXCEPT !.given = Append(@, [opt |-> o, found |-> found])]
Option ==
  /\ At("options") /\ Len(s.given) < MaxOptions
  /\ \/ \E o \in {"b", "B", "c", "C"} : Given(Flag(o), o, "none")
     \/ \E found \in {"listed", "none", "fail"} : Given(rbl(found), "r", found) \/ Given(antirbl(found), "a", found)

Code == IF s.flagmustnotbounce \/ s.decision = 2 THEN 451 ELSE 553
Said(cmd, code) == Append(s.replies, [cmd |-> cmd, code |-> code])
(* The end of the options: run the server, or rblsmtpd().                   *)
Run == At("options") /\ s.decision < 2 /\ s' = [s EXCEPT !.pc = "run"]
Refuse ==
  /\ At("options") /\ s.decision >= 2
  /\ s' = [s EXCEPT !.pc = IF s.timeout = 0 THEN "gone" ELSE "smtp", !.replies = Said("", IF s.timeout = 0 THEN Code ELSE 220)]

Accepted == {"helo", "ehlo", "mail", "rset", "noop"}
Command ==
  /\ At("smtp") /\ Len(s.replies) < MaxCommands
  /\ \E cmd \in {"helo", "mail", "noop", "quit", "rcpt", "data"} :
       s' = [s EXCEPT !.replies = Said(cmd, CASE cmd = "quit" -> 221 [] cmd \in Accepted -> 250 [] OTHER -> Code),
                      !.pc = IF cmd = "quit" THEN "gone" ELSE "smtp"]
(* The client ends its input, or the alarm goes off.                        *)
Gone == At("smtp") /\ s' = [s EXCEPT !.pc = "gone"]
Next == Option \/ Run \/ Refuse \/ Command \/ Gone

(* The modes in which the manual page has the i-th option work.             *)
InMode(i, on, off) ==
  LET j == SelectLastInSeq(SubSeq(s.given, 1, i), LAMBDA g : g.opt \in {on, off}) IN j # 0 /\ s.given[j].opt = on
Decides(i) ==
  LET g == s.given[i]
  IN \/ g.opt \in {"r", "a"} /\ g.found = "listed"
     \/ g.opt = "r" /\ g.found = "fail" /\ InMode(i, "c", "C")
     \/ g.opt = "a" /\ g.found = "fail" /\ ~InMode(i, "c", "C")
Decider == SelectInSeq([i \in DOMAIN s.given |-> i], Decides)
(* A client is refused if RBLSMTPD says so or, without it, the first list    *)
(* that decides is a deny-list; it is told to bounce only if it is listed,   *)
(* with -b in force, and no list before that one failed; and no recipient   *)
(* and no message is ever accepted from it.                                 *)
Judged ==
  s.prog = "rblsmtpd" /\ s.pc # "options" =>
    LET d == Decider
        byList == s.env = None /\ d # 0 /\ s.given[d].opt = "r"
        bounce == \/ s.env = "-text"
                  \/ byList /\ s.given[d].found = "listed" /\ InMode(d, "b", "B") /\ \A i \in 1..d - 1 : s.given[i].found # "fail"
    IN /\ (s.pc # "run") = (s.env \in {"text", "-text"} \/ byList)
       /\ \A i \in DOMAIN s.replies :
            s.replies[i].cmd \in {"rcpt", "data"} \/ s.replies[i].code \notin {220, 221, 250} =>
              s.replies[i].code = IF bounce THEN 553 ELSE 451
=============================================================================
