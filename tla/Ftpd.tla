-------------------------------- MODULE Ftpd ---------------------------------
(***************************************************************************)
(* ftpd(1), source/ftpd.c with source/fetch.c: one session of one client.   *)
(*                                                                         *)
(* s.asked is what the client asked for and was promised since the last     *)
(* transfer that ended in 226 or 426; the program keeps no such record.     *)
(* s.want is what a transfer should send and s.got what the client got.     *)
(***************************************************************************)
EXTENDS Files

CONSTANTS
  Trees,                    \* what the files may be
  Paths,                    \* arguments of CWD, RETR, LIST and NLST
  Hosts,                    \* arguments of HOST, <<>> is none
  localhost,                \* name of the server, from the environment
  Rests,                    \* arguments of REST
  Numbers,                  \* the fifth number of PORT
  SSBUF,                    \* size of ssbuf (1024)
  Replies,                  \* to the commands that only get one
  MaxCommands               \* commands of a session

VARIABLE s

At(pc) == s.prog = "ftpd" /\ s.pc = pc
NoneAsked == [rest |-> 0, ports |-> {}, passive |-> FALSE, all |-> FALSE]

(* The host is not put in lower case here.                                  *)
Init ==
  \E t \in Trees :
    s = [prog |-> "ftpd", pc |-> "command", left |-> MaxCommands, code |-> 220, tree |-> t, host |-> localhost, dir |-> <<>>,
         fdlisten |-> "none", portremote |-> 0, anonymous_login |-> FALSE, epsv_only |-> FALSE, fetch_ascii |-> TRUE,
         fetch_rest |-> 0, node |-> None, fn |-> <<>>, how |-> "", arg |-> <<>>, conn |-> "none", out |-> <<>>, asked |-> NoneAsked, want |-> <<>>, got |-> <<>>]

(* A command is read; its handler changes t, which is s with one command    *)
(* less, and gives a reply.                                                 *)
Command == At("command") /\ s.left > 0
Told(t, code) == s' = [t EXCEPT !.code = code]
t0 == [s EXCEPT !.left = @ - 1, !.conn = "none"]

stoplistening(t) == [t EXCEPT !.fdlisten = "none", !.asked.passive = FALSE]
startlistening(t, as) == [stoplistening(t) EXCEPT !.fdlisten = as, !.asked.passive = TRUE]

(* pasv() and spsv()                                                        *)
Pasv ==
  /\ Command
  /\ IF s.epsv_only THEN Told(t0, 503) ELSE Told(startlistening(t0, "pasv"), 227)
Epsv ==
  /\ Command
  /\ \E arg \in {"", "1", "2", "all"} :
       IF arg = "2" THEN Told(t0, 504)
       ELSE Told([startlistening(t0, "epsv") EXCEPT !.epsv_only = @ \/ arg = "all", !.asked.all = @ \/ arg = "all"], 229)
(* Numbers are cut to a byte.                                               *)
Port ==
  /\ Command
  /\ \E six, client \in BOOLEAN, n \in Numbers :
       LET t == stoplistening(t0)
           x4 == n % 256
       IN IF ~six \/ x4 < 4 \/ ~client THEN Told(t, 501)
          ELSE Told([t EXCEPT !.portremote = x4 * 256, !.asked.ports = {x4 * 256}], 200)
Rest == Command /\ \E n \in Rests : Told([t0 EXCEPT !.fetch_rest = n, !.asked.rest = n], 350)

-----------------------------------------------------------------------------
(* What is sent of a file, in which "newline" is a byte, and of a           *)
(* directory: a line, of which the model makes one byte, for every name     *)
(* that is not hidden, with or without what stat() tells.                   *)
Crlf(data) == FlattenSeq([i \in DOMAIN data |-> IF data[i] = "newline" THEN <<"return", "newline">> ELSE <<data[i]>>])
Hidden(c) == c[1] = "." \/ "~" \in Range(c) \/ " " \in Range(c)
Listed(tree, f) == {g \in DOMAIN tree : Len(g) = Len(f) + 1 /\ IsPrefix(f, g) /\ ~Hidden(Last(g))}
printstat(node) == IF node.kind = "reg" /\ node.r THEN <<"+", Len(node.data)>> ELSE <<"+", node.kind>>
Lines(tree, f, long) ==
  LET names == SetToSeq(Listed(tree, f))
  IN [i \in DOMAIN names |-> <<IF long THEN printstat(tree[names[i]]) ELSE <<>>, Last(names[i])>>]
Sends(t) ==
  CASE t.how = "listone" -> << <<printstat(t.node), t.arg>> >>
    [] t.how \in {"list", "nlst"} -> Lines(t.tree, Resolved(t.fn), t.how = "list")
    [] OTHER -> IF t.fetch_ascii THEN Crlf(t.node.data) ELSE t.node.data

After(n, data) == SubSeq(data, n + 1, Len(data))

Name(arg) ==
  pathdecode(<<".", "/">> \o s.host \o <<"/">> \o (IF arg # <<>> /\ arg[1] = "/" THEN arg ELSE s.dir \o <<"/">> \o arg))

(* get(), as far as the data connection.                                    *)
Get ==
  /\ Command
  /\ \E arg \in Paths, how \in {"retr", "list", "nlst", "listone"} :
       /\ (how = "list") => (arg = <<>>)
       /\ (how = "listone") => (arg # <<>>)
       /\ LET fn == Name(arg)
              node == file_open(s.tree, fn, how = "retr", how \in {"list", "nlst"})
              t == [t0 EXCEPT !.fn = fn, !.node = node]
          IN IF node = None THEN Told(t0, 550) ELSE s' = [t EXCEPT !.pc = "connect", !.code = 150, !.how = how, !.arg = arg]
(* A temporary error of file_open() is the end.                             *)
Temporary == At("command") /\ s' = [s EXCEPT !.pc = "gone"]

(* fetch() begins.                                                          *)
Fetch(conn) ==
  s' = [s EXCEPT !.pc = "send", !.conn = conn, !.fdlisten = "none", !.out = Sends(s),
                 !.want = After(s.asked.rest, Sends(s)), !.got = <<>>]
(* The kernel refuses port 0.                                               *)
ConnectOut ==
  /\ At("connect") /\ s.fdlisten = "none"
  /\ \/ s.portremote # 0 /\ Fetch("port")
     \/ s' = [s EXCEPT !.pc = "command", !.code = 425]
(* A connection of somebody else is closed.                                 *)
Accept ==
  /\ At("connect") /\ s.fdlisten # "none"
  /\ \/ Fetch(s.fdlisten)
     \/ s' = [stoplistening(s) EXCEPT !.pc = "command", !.code = 425]

(* datawrite(), for what is in ssbuf.  The rest to skip counts down, a      *)
(* write may be short.                                                      *)
Datawrite ==
  /\ At("send") /\ s.out # <<>>
  /\ LET len == IF Len(s.out) > SSBUF THEN SSBUF ELSE Len(s.out)
     IN IF s.fetch_rest > 0
        THEN LET n == IF len > s.fetch_rest THEN s.fetch_rest ELSE len
             IN s' = [s EXCEPT !.fetch_rest = @ - n, !.out = After(n, @)]
        ELSE \E w \in 1..len : s' = [s EXCEPT !.got = @ \o SubSeq(s.out, 1, w), !.out = After(w, @)]

(* The end of fetch() and of get().                                         *)
(* Mutant: the port can be used again.                                      *)
Fetched_KeepsPort(code) ==
  s' = [s EXCEPT !.pc = "command", !.code = code, !.fetch_rest = 0, !.asked = [NoneAsked EXCEPT !.all = s.asked.all]]
Fetched(code) ==
  s' = [s EXCEPT !.pc = "command", !.code = code, !.fetch_rest = 0, !.portremote = 0,
                 !.asked = [NoneAsked EXCEPT !.all = s.asked.all]]
Success == At("send") /\ s.out = <<>> /\ Fetched(226)
Trouble == At("send") /\ Fetched(426)

-----------------------------------------------------------------------------
(* ok_dir(): t.dir is the new directory, or the old one stays.              *)
Moved(t, ndir, code) ==
  LET fn == pathdecode(<<".", "/">> \o t.host \o <<"/">> \o ndir \o <<"/">>)
  IN IF file_open(t.tree, fn, FALSE, TRUE) = None THEN Told(t, 550) ELSE Told([t EXCEPT !.dir = ndir], code)

Absolute(to) == to # <<>> /\ to[1] = "/"
dir_move(to) ==
  LET from == IF Absolute(to) THEN <<>> ELSE s.dir
      rest == IF Absolute(to) THEN Tail(to) ELSE to
  IN IF rest = <<>> THEN from ELSE from \o <<"/">> \o rest
dir_moveup ==
  LET slashes == {i \in DOMAIN s.dir : s.dir[i] = "/"}
  IN IF slashes = {} THEN s.dir ELSE SubSeq(s.dir, 1, (CHOOSE i \in slashes : \A j \in slashes : j <= i) - 1)

Cwd == Command /\ \E to \in Paths : Moved(t0, dir_move(to), 250)
Cdup == Command /\ Moved(t0, dir_moveup, 200)
Rein == Command /\ Moved(stoplistening(t0), <<>>, 200)
Vhost ==
  /\ Command
  /\ \E h \in Hosts : IF h = <<>> THEN Told(t0, 501) ELSE Told([t0 EXCEPT !.host = case_lowerb(h)], 220)
User == Command /\ \E a \in BOOLEAN : Told([t0 EXCEPT !.anonymous_login = a], IF a THEN 331 ELSE 230)
Pass == Command /\ Told(t0, IF s.anonymous_login THEN 230 ELSE 202)
Type == Command /\ \/ \E a \in BOOLEAN : Told([t0 EXCEPT !.fetch_ascii = a], 200)
                   \/ Told(t0, 504)
(* Commands that only get a reply: feat, opts, size, acct, noop, pwd, stru, *)
(* mode, syst, help, allo, those that modify files, and others.             *)
Others == Command /\ \E code \in Replies : Told(t0, code)
(* QUIT, and the client does not say anything for 60 seconds.               *)
Quit == At("command") /\ s' = [s EXCEPT !.pc = "gone", !.code = 221]
Publish == s.prog = "ftpd" /\ s.pc # "gone" /\ \E t \in Trees : t # s.tree /\ s' = [s EXCEPT !.tree = t]

Next ==
  \/ Pasv \/ Epsv \/ Port \/ Rest \/ Get \/ Temporary \/ ConnectOut \/ Accept \/ Datawrite \/ Success \/ Trouble
  \/ Cwd \/ Cdup \/ Rein \/ Vhost \/ User \/ Pass \/ Type \/ Others \/ Quit \/ Publish

(* A transfer sends the file, or the list, from the place that was asked    *)
(* for since the last one; over a connection of the kind that was asked for *)
(* since, never a listening one that the client gave up, and never a port   *)
(* that an earlier transfer used or that is reserved; what is sent lies     *)
(* below the directory of the virtual host and is fit for all to read; and   *)
(* nothing goes over PASV once EPSV ALL was accepted.                       *)
Transfers ==
  /\ At("command") /\ s.code = 226 => s.got = s.want
  /\ At("send") =>
       /\ IsPrefix(s.got, s.want)
       /\ s.conn = "port" => s.portremote \in s.asked.ports /\ s.portremote >= 1024
       /\ s.conn # "port" => s.asked.passive
       /\ s.asked.all => s.conn # "pasv"
       /\ s.fn # <<>> /\ Head(Resolved(s.fn)) \in {s.host, <<":">> \o Tail(s.host)}
       /\ s.node.r /\ ~s.node.oddx
=============================================================================
