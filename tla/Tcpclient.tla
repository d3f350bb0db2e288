------------------------------ MODULE Tcpclient ------------------------------
(***************************************************************************)
(* tcpclient(1), source/tcpclient.c with source/timeoutconn.c and           *)
(* source/remoteinfo.c: which addresses are tried, for how long, and what    *)
(* the environment of the program then says.                                *)
(***************************************************************************)
EXTENDS Integers, Sequences, SequencesExt, FiniteSets, FiniteSetsExt, TLC

CONSTANTS
  Hosts,                    \* the addresses of a host: sequences without repetitions
  Timeouts,                 \* values of ctimeout: pairs of seconds
  Responses,                \* of identification servers: sequences of characters
  MAXINFO,                  \* characters that are taken of one (256)
  None
VARIABLE s

At(pc) == s.prog = "tcpclient" /\ s.pc = pc

(* A single address has all of the time at once.                            *)
ctimeout(t, addresses) == IF Len(addresses) = 1 THEN <<t[1] + t[2], 0>> ELSE t
Init ==
  \E h \in Hosts, t \in Timeouts, force, host, info \in BOOLEAN :
    s = [prog |-> "tcpclient", pc |-> IF h = <<>> THEN "died" ELSE "try", host |-> h, given |-> t, ctimeout |-> ctimeout(t, h), cloop |-> 0,
         addresses |-> h, j |-> 1, moreaddresses |-> <<>>, waited |-> 0, tries |-> <<>>, warned |-> <<>>, env |-> <<>>,
         forcelocal |-> force, flagremotehost |-> host, flagremoteinfo |-> info, answer |-> None, connected |-> None]

Address == s.addresses[s.j]
(* The end of the round is at the last address.                             *)
Advanced(t) ==
  IF t.j < Len(t.addresses) THEN [t EXCEPT !.j = @ + 1]
  ELSE [t EXCEPT !.cloop = @ + 1, !.addresses = t.moreaddresses, !.moreaddresses = <<>>, !.j = 1,
                 !.pc = IF t.cloop = 1 \/ t.moreaddresses = <<>> THEN "gone" ELSE "try"]
(* timeoutconn(): r is "ok", "timeout" or "error".                          *)
timeoutconn(r) == [s EXCEPT !.tries = Append(@, [address |-> Address, cloop |-> s.cloop, r |-> r]),
                            !.waited = IF r = "timeout" THEN @ + s.ctimeout[s.cloop + 1] ELSE @]
(* Mutant: whatever failed is tried again.                                  *)
Retries_All(r) == s.cloop = 0 /\ s.ctimeout[2] # 0
Retries(r) == s.cloop = 0 /\ s.ctimeout[2] # 0 /\ r = "timeout"
Try ==
  /\ At("try")
  /\ \/ s' = [s EXCEPT !.pc = "died"]                 \* no socket, or it cannot be bound
     \/ s' = [timeoutconn("ok") EXCEPT !.pc = "connected", !.connected = Address]
     \/ \E r \in {"timeout", "error"} :
          s' = Advanced(IF Retries(r) THEN [timeoutconn(r) EXCEPT !.moreaddresses = Append(@, Address)]
                        ELSE [timeoutconn(r) EXCEPT !.warned = Append(@, Address)])

(* dns_name(): a name, "" for none, None for a failure.                     *)
Names == {"name", "", None}
Set(env, var, val) == IF val = None THEN env ELSE (var :> val) @@ env
LocalName == IF s.forcelocal THEN {"forced"} ELSE Names
RemoteName == IF s.flagremotehost THEN Names ELSE {None}
Environment ==
  /\ At("connected")
  /\ \E local \in LocalName, remote \in RemoteName :
       s' = [s EXCEPT !.pc = "info",
                      !.env = Set(Set("PROTO" :> "TCP" @@ "TCPREMOTEIP" :> s.connected, "TCPLOCALHOST", local), "TCPREMOTEHOST", remote)]

(* doit() of remoteinfo.c: what follows the third colon, up to the end of    *)
(* the line, without spaces; a long one is cut.                             *)
Info(chars) ==
  LET text == SelectSeq(chars, LAMBDA c : c \notin {" ", "CR"})
      newline == SelectInSeq(text, LAMBDA c : c = "LF")
      line == IF newline = 0 THEN text ELSE SubSeq(text, 1, newline - 1)
      colons == {i \in DOMAIN line : line[i] = ":"}
      third == {i \in colons : Cardinality({k \in colons : k <= i}) = 3}
      rest == IF third = {} THEN <<>> ELSE SubSeq(line, Max(third) + 1, Len(line))
  IN CASE Len(rest) > MAXINFO -> SubSeq(rest, 1, MAXINFO + 1)
       [] Len(rest) <= MAXINFO -> IF newline = 0 THEN None ELSE rest
(* Without a whole answer the connection ends, or the time is up.           *)
remoteinfo(a) == IF a = None THEN None ELSE Info(a)
RemoteInfo ==
  /\ At("info")
  /\ \E a \in IF s.flagremoteinfo THEN Responses \cup {None} ELSE {None} :
       s' = [s EXCEPT !.pc = "run", !.answer = a, !.env = Set(@, "TCPREMOTEINFO", remoteinfo(a))]

Next == Try \/ Environment \/ RemoteInfo

(* Every address is tried in its turn before any is tried again, and only    *)
(* one whose time was up is, once; nothing is waited for but the time that   *)
(* -T gives; a failure is told once of every address; and the program runs   *)
(* only with a connection, to the first address that accepted one, with the  *)
(* name and information of that connection or without.                      *)
Connects ==
  s.prog = "tcpclient" =>
    LET round(n) == SelectSeq(s.tries, LAMBDA t : t.cloop = n)
        slow(n) == SelectSeq(round(n), LAMBDA t : t.r = "timeout")
        of(tries) == [i \in DOMAIN tries |-> tries[i].address]
        second == IF Len(s.host) > 1 /\ s.given[2] > 0 THEN of(slow(0)) ELSE <<>>
    IN /\ IsPrefix(of(round(0)), s.host) /\ (round(1) # <<>> => of(round(0)) = s.host) /\ IsPrefix(of(round(1)), second)
       /\ s.waited = IF Len(s.host) = 1 THEN Len(slow(0)) * (s.given[1] + s.given[2])
                     ELSE Len(slow(0)) * s.given[1] + Len(slow(1)) * s.given[2]
       /\ s.pc = "gone" => of(round(0)) = s.host /\ of(round(1)) = second /\ ToSet(s.warned) = ToSet(s.host) /\ Len(s.warned) = Len(s.host)
       /\ s.pc \in {"connected", "info", "run"} =>
            /\ Last(s.tries) = [address |-> s.connected, cloop |-> s.cloop, r |-> "ok"]
            /\ \A i \in 1..Len(s.tries) - 1 : s.tries[i].r # "ok"
       /\ s.pc = "run" /\ "TCPREMOTEINFO" \in DOMAIN s.env =>
            s.flagremoteinfo /\ ("LF" \in ToSet(s.answer) \/ Len(s.env["TCPREMOTEINFO"]) = MAXINFO + 1)
            /\ ToSet(s.env["TCPREMOTEINFO"]) \cap {"LF", "CR", " "} = {}
(* tcp-environ.xml: where there is no name, TCPREMOTEHOST is not set.       *)
Named == At("run") /\ "TCPREMOTEHOST" \in DOMAIN s.env => s.env["TCPREMOTEHOST"] # ""
=============================================================================
