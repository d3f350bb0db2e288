-------------------------------- MODULE Httpd --------------------------------
(***************************************************************************)
(* httpd(1), source/httpd.c: the requests of one connection.                *)
(*                                                                         *)
(* A request is its method, protocol, the host and path of its URL (host    *)
(* is None when the URL does not name one), the fields of its header in     *)
(* their order, and whether the line is too long.  flagbody and protocolnum *)
(* outlive a request.                                                       *)
(***************************************************************************)
EXTENDS Files

CONSTANTS Trees, Requests, localhost, MaxRequests
VARIABLE s

At(pc) == s.prog = "httpd" /\ s.pc = pc

Init ==
  \E t \in Trees, old \in BOOLEAN :
    s = [prog |-> "httpd", pc |-> "line", tree |-> t, flagoldprotocol |-> old, left |-> MaxRequests,
         flagbody |-> TRUE, protocolnum |-> 0, req |-> None, bodiless |-> FALSE, seen |-> t, r |-> None]

(* A response: whether it has a header, the length that the header names,   *)
(* -1 for chunks; the body; whether the connection ends.                    *)
Html == <<"html">>
barf(code, flagbody, protocolnum) ==
  [code |-> code, head |-> protocolnum > 0, length |-> Len(Html), body |-> IF flagbody THEN Html ELSE <<>>, close |-> TRUE]

Refused(name) ==
  CASE name \in {"content-length", "transfer-encoding"} -> 413
    [] name = "expect" -> 417
    [] name \in {"if-match", "if-none-match", "if-unmodified-since"} -> 412
    [] OTHER -> 0
Fields(q, name) == SelectSeq(q.fields, LAMBDA f : f.name = name)
RefusedIn(q) == SelectSeq(q.fields, LAMBDA f : Refused(f.name) # 0)

(* The host of the URL, or else of the first Host field, or else that of    *)
(* the server, without a port.                                              *)
BeforeColon(h) == SelectInSeq(h, LAMBDA t : t = ":")
Stripped(h) == IF BeforeColon(h) = 0 THEN h ELSE SubSeq(h, 1, BeforeColon(h) - 1)
HostOf(q, protocolnum) ==
  IF q.host # None THEN q.host
  ELSE IF protocolnum > 0 /\ Fields(q, "host") # <<>> THEN Head(Fields(q, "host")).val ELSE localhost
PathOf(q) ==
  LET p == IF q.path = <<>> THEN <<"/">> ELSE q.path IN IF Last(p) = "/" THEN Append(p, "index.html") ELSE p

(* The exact prefix of the last If-Modified-Since.                          *)
Unmodified(q, node) ==
  Fields(q, "if-modified-since") # <<>> /\ IsPrefix(<<node.mtime>>, Last(Fields(q, "if-modified-since")).val)

Has(p, tokens) == Range(p) \cap tokens # {}

get(t, q, flagbody, protocolnum) ==
  LET h == Stripped(HostOf(q, protocolnum))
      fn == pathdecode(<<".", "/">> \o case_lowerb(IF h = <<>> THEN <<"0">> ELSE h) \o <<"/">> \o percent(PathOf(q)))
      node == file_open(t.tree, fn, TRUE, FALSE)
      body == flagbody /\ ~(protocolnum > 0 /\ Unmodified(q, node))
  IN CASE h = <<>> /\ protocolnum > 1 -> barf(400, flagbody, protocolnum)
       [] node = None -> barf(404, flagbody, protocolnum)
       [] OTHER -> [code |-> IF protocolnum > 0 /\ Unmodified(q, node) THEN 304 ELSE 200, head |-> protocolnum > 0,
                    length |-> IF protocolnum >= 2 THEN -1 ELSE Len(node.data),
                    body |-> IF body THEN node.data ELSE <<>>, close |-> protocolnum < 2]

(* Mutant: the body that one request did without, the next does without.    *)
Body_Kept(t, q) == t.flagbody /\ q.method # "HEAD"
Body(t, q) == q.method # "HEAD"
(* doit() from the method on.                                               *)
Method(t, q, protocolnum) ==
  LET flagbody == Body(t, q)
  IN CASE q.method \notin {"GET", "HEAD"} -> barf(405, TRUE, protocolnum)
       [] protocolnum > 0 /\ RefusedIn(q) # <<>> -> barf(Refused(Head(RefusedIn(q)).name), flagbody, protocolnum)
       [] Has(HostOf(q, protocolnum), {"@"}) \/ Has(PathOf(q), {"#", "?"}) -> barf(400, flagbody, protocolnum)
       [] OTHER -> get(t, q, flagbody, protocolnum)

(* One turn of doit().                                                      *)
Answer(t, q) ==
  LET protocolnum == CASE q.proto = "" -> 0 [] q.proto = "1.1" -> 2 [] OTHER -> 1
      r == IF q.long THEN barf(414, t.flagbody, t.protocolnum)
           ELSE IF ~t.flagoldprotocol /\ protocolnum < 2 THEN barf(426, t.flagbody, protocolnum)
           ELSE Method(t, q, protocolnum)
  IN [t EXCEPT !.protocolnum = protocolnum, !.req = q, !.r = r, !.seen = t.tree,
               !.flagbody = IF r.code \in {414, 426} THEN @ ELSE Body(t, q) /\ r.code # 304]

(* s.bodiless: the last response had no body; s.seen: the files it saw.     *)
Request ==
  /\ At("line") /\ s.left > 0
  /\ \E q \in Requests :
       LET t == Answer(s, q)
       IN s' = [t EXCEPT !.left = @ - 1, !.bodiless = s.r # None /\ (s.req.method = "HEAD" \/ s.r.code = 304),
                         !.pc = IF t.r.close THEN "gone" ELSE "line"]
Publish == At("line") /\ \E t \in Trees : t # s.tree /\ s' = [s EXCEPT !.tree = t]
(* Errors of the system, and clients that say nothing for 60 seconds.       *)
Leave == At("line") /\ s' = [s EXCEPT !.pc = "gone"]
Next == Request \/ Publish \/ Leave

(* Every request gets the answer to it, whatever came before it on the      *)
(* connection: a file of the host that it names, fit for all to read, whole *)
(* for GET and not at all for HEAD; and a client that counts finds the end  *)
(* of it: a body has the length that the header names, and a connection     *)
(* that stays open has only chunks.  One case is known to be otherwise: a   *)
(* refusal that comes before flagbody is set anew, after a request without  *)
(* body, has no body either; and a line that is too long, as the first of a *)
(* connection, is refused without a header.                                 *)
Pages ==
  s.prog = "httpd" /\ s.r # None =>
    LET r == s.r
        early == r.code \in {414, 426}
    IN /\ r.code \in {200, 304} =>
            \E f \in DOMAIN s.seen :
              /\ s.seen[f].kind = "reg" /\ s.seen[f].r /\ ~s.seen[f].oddx
              /\ Head(f) = case_lowerb(Stripped(HostOf(s.req, IF r.head THEN 1 ELSE 0)))
              /\ r.body = (IF r.code = 304 \/ s.req.method = "HEAD" THEN <<>> ELSE s.seen[f].data)
       /\ r.head /\ r.length >= 0 /\ s.req.method # "HEAD" /\ r.code # 304 => Len(r.body) = r.length \/ (early /\ s.bodiless)
       /\ ~r.close => r.head /\ r.length = -1
       /\ s.req.method # "HEAD" /\ s.req.proto = "1.1" => r.head \/ r.code = 414
=============================================================================
