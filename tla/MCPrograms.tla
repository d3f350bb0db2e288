----------------------------- MODULE MCPrograms -----------------------------
(* Instances for TLC of the programs that run on their own: a behaviour is  *)
(* one of one program.  The modules share s, which says which it is.        *)
EXTENDS Integers, Sequences, FiniteSets, TLC

CONSTANTS None, Bogus
VARIABLE s

Zones == INSTANCE MCZones
FileServers == INSTANCE MCFiles

Wall == INSTANCE Walldns WITH Octets <- {"0", "1", "127", "192", "170"}, Digits <- {"0", "1"},
          IP6_SANS_SCOPE_LEN <- 2, IP6_SCOPE_ID_LEN <- 1,
          Names <- {<<"x", "test">>, <<"a", "example">>, <<"in-addr", "arpa">>, <<"5", "localhost">>, <<"ipv4only", "arpa">>,
                    <<"y", "ipv4only", "arpa">>, <<"z", "service", "arpa">>, <<"default", "service", "arpa">>, <<"ip6", "arpa">>, <<>>},
          Types <- {"A", "AAAA", "PTR", "ANY", "MX"}

Net(ip, bits) == [c |-> "n", ip |-> ip, bits |-> bits, text |-> None]
MCNets == {<<Net(a, m), Net(b, n)>> : a \in {0, 8, 10, 11}, m \in {None, 1, 2, 3, 4, 9}, b \in {4}, n \in {1, 2, 3}}
             \cup {<<Net(1, None), [Net(2, None) EXCEPT !.c = ":"]>>, <<[Net(2, None) EXCEPT !.c = "x"]>>}
Rbl == INSTANCE Rbldns WITH WIDTH <- 4, DEEPEST <- 2, Files <- MCNets

(* Two keys have the same hash, and the two slots of the last record of a   *)
(* full table wrap.                                                         *)
MCHash == (<<"a">> :> 6) @@ (<<"b">> :> 6) @@ (<<"c", "c">> :> 6) @@ (<<"d">> :> 4) @@ (<<"e">> :> 1)
Database == INSTANCE Cdb WITH Keys <- {<<"a">>, <<"b">>, <<"c", "c">>, <<"d">>}, Data <- <<<<"x">>, <<"y", "y">>, <<"z">>, <<>>, [i \in 1..70 |-> "x"]>>,
              TABLES <- 2, MODULUS <- 124, MaxRecords <- <<5, 1>>, cdb_hash <- MCHash

Rule(a, w, e) == [c |-> "r", colon |-> TRUE, addr |-> a, word |-> w, env |-> e]
MCFirst ==
  {Rule(<<"1", ".", "2">>, "allow", <<>>), Rule(<<"1", ".", "1", "-", "2">>, "deny", <<<<"A", "x">>>>), Rule(<<"1", "-", "7", ".">>, "deny", <<>>),
   Rule(<<"2", ".">>, "allow", <<<<"A", "y">>, <<"A", "z">>>>), Rule(<<"=", "h", ".", "x">>, "allow", <<<<"B", "y">>>>), Rule(<<"=", ".", "x">>, "deny", <<>>),
   Rule(<<"=">>, "allow", <<>>), Rule(<<>>, "deny", <<>>), Rule(<<"u", "@", "1", ".", "2">>, "deny", <<>>), Rule(<<"u", "@", "=", "h", ".", "x">>, "allow", <<<<"C", "u">>>>),
   [Rule(<<>>, "deny", <<>>) EXCEPT !.colon = FALSE], [Rule(<<>>, "deny", <<>>) EXCEPT !.c = "#"]}
MCSecond ==
  {Rule(<<"1", ".", "1", "-", "2">>, "deny", <<<<"A", "x">>>>), Rule(<<"1", "-", "7", ".">>, "deny", <<>>), Rule(<<"=", "h", ".", "x">>, "allow", <<<<"B", "y">>>>),
   Rule(<<"=", ".", "x">>, "deny", <<>>), Rule(<<"u", "@", "1", ".", "2">>, "deny", <<>>), Rule(<<>>, "allow", <<>>)}
MCBad == {Rule(<<"6", ":", "1">>, "deny", <<>>), Rule(<<"1", ".", "x", "-", "2">>, "deny", <<>>), Rule(<<>>, "first", <<>>), Rule(<<>>, "allow", None)}
Control == INSTANCE Rules WITH CAP <- 3, Texts <- {<<a, b>> : a \in MCFirst, b \in MCSecond} \cup {<<b>> : b \in MCBad} \cup {<<>>},
             Clients <- [ip : {<<"1", ".", "2">>, <<"2", ".", "3">>, <<"6", ":", "1">>}, host : {None, <<"h", ".", "x">>, <<"g", ".", "x">>}, info : {None, <<"u">>}]

Smtp == INSTANCE Rblsmtpd WITH MaxOptions <- 4, MaxCommands <- 2

Copy == INSTANCE Copyio WITH Inputs <- {<<"a", "CR", "LF", "LF">>, <<"LF", "b", "CR">>}, Outputs <- {<<"CR", "LF", "LF">>, <<"c", "LF", "d">>}, SIZE <- 3

Pty == INSTANCE Ptyio WITH Input <- <<"i", "j">>, Output <- <<"a", "b", "c">>, SIZE <- 2, CAPACITY <- 2, MaxStops <- 2

Client == INSTANCE Tcpclient WITH Hosts <- {<<>>, <<"a">>, <<"a", "b">>, <<"a", "b", "c">>}, Timeouts <- {<<2, 58>>, <<5, 0>>}, MAXINFO <- 3,
            Responses <- {<<"1", " ", ":", "x", ":", "y", " ", ":", " ", "u", "CR", "LF">>, <<":", ":", ":", "v", ":", "w">>,
                          <<":", ":", ":", "v", ":", "w", "x", "y">>, <<":", "LF", "x">>, <<>>}

Filter == INSTANCE Dnsfilter WITH IPs <- {"1", "2", "3"}, SIZE <- 3, xmax <- 3, maxactive <- 2,
            Inputs <- {<<"1", "LF", "t", "LF", "2", "LF", "LF", "3">>, <<"1", "LF", "2", "LF", "3", "LF", "t", "LF">>, <<"t">>, <<>>}

Buffers == INSTANCE Buffer WITH Source <- <<1, 2, 3, 4, 5, 6, 7>>, INSIZE <- 3, OUTSIZE <- 2, BUFFER_OUTSIZE <- 3, Lens <- {1, 2, 5}

Init == \/ Zones!Init \/ FileServers!Init \/ Buffers!Init \/ Wall!Init \/ Rbl!Init \/ Database!Init \/ Control!Init
        \/ Smtp!Init \/ Copy!Init \/ Pty!Init \/ Client!Init \/ Filter!Init
Next == \/ Zones!Next \/ FileServers!Next \/ Buffers!Next \/ Wall!Next \/ Rbl!Next \/ Database!Next \/ Control!Next
        \/ Smtp!Next \/ Copy!Next \/ Pty!Next \/ Client!Next \/ Filter!Next
Spec == Init /\ [][Next]_s

-----------------------------------------------------------------------------
(* The servers of DNS data: tinydns answers, and axfr-get gets from axfrdns, *)
(* one version of the data; walldns answers for an address what it answers   *)
(* for its name; rbldns lists the addresses of the networks of its data.     *)
(* On the other side, tinydns-edit keeps the data whole; dnstrace follows    *)
(* every path once; and the client library asks for what a name stands for. *)
NamesServed ==
  /\ Zones!Editing!Edited /\ Zones!Trace!Traced /\ Zones!Client!Resolved
  /\ Zones!Answers /\ Zones!Transferred
  /\ s.prog = "walldns" => Wall!Wall
  /\ s.prog = "rbldns" => Rbl!Lists

(* The file servers send what was asked for and may be read.                *)
FilesServed == FileServers!FilesServed

(* Who is let in: a search of a database finds the records of its key in     *)
(* their order; with the database of rules, a client is treated by the       *)
(* nearest for it; rblsmtpd refuses it when the lists say so, by its flags.  *)
ClientsJudged ==
  /\ s.prog = "cdb" => Database!Finds
  /\ s.prog = "rules" => Control!Followed
  /\ s.prog = "rblsmtpd" => Smtp!Judged

(* recordio and fixcrio pass all bytes on, and dnsfilter all lines, in      *)
(* order and once, and so do the buffers under all of them; ptyio reads all  *)
(* that the program wrote, and answers each of its stops.                   *)
StreamsKept ==
  /\ s.prog \in {"recordio", "fixcrio"} => Copy!Copies
  /\ s.prog = "dnsfilter" => Filter!Filters
  /\ s.prog = "ptyio" => Pty!Attended
  /\ Buffers!Streams

(* tcpclient connects to an address that answers in its time.               *)
Connected == s.prog = "tcpclient" => Client!Connects

(* What the documentation says and the programs do not do: a name that       *)
(* walldns makes of an address has that address; TCPREMOTEHOST is not set    *)
(* without a name; dnsfilter sets an equals sign before names only; for      *)
(* tinydns-edit, axfr-get and the client library see their modules.         *)
MapsBack == s.prog = "walldns" => Wall!MapsBack
HostNamed == s.prog = "tcpclient" => Client!Named
ColonOnly == Filter!ColonOnly
NoneLost == Zones!Editing!NoneLost
AddressOnce == Zones!Editing!AddressOnce
NumbersKept == Zones!Axfr!NumbersKept
OwnLine == Zones!Client!OwnLine
OnionKept == Zones!Client!OnionKept
GroupsKept == Zones!Client!GroupsKept
=============================================================================
