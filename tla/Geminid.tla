------------------------------- MODULE Geminid -------------------------------
(***************************************************************************)
(* geminid(1), source/geminid.c: the one request of a connection.  The      *)
(* request is the host and path of the URL, host None when it names none,   *)
(* and its length: short, long for the protocol, long for the system.       *)
(***************************************************************************)
EXTENDS Files

CONSTANTS Trees, Requests
VARIABLE s

At(pc) == s.prog = "geminid" /\ s.pc = pc

Init == \E t \in Trees : s = [prog |-> "geminid", pc |-> "line", tree |-> t, req |-> None, r |-> None]

barf(code) == [code |-> code, url |-> None, body |-> <<>>]

Colon(h) == SelectInSeq(h, LAMBDA t : t = ":")
Stripped(h) == IF Colon(h) = 0 THEN h ELSE SubSeq(h, 1, Colon(h) - 1)

(* A path with a slash at its end is sent elsewhere, before any look at it. *)
get(tree, h, p) ==
  LET node == file_open(tree, pathdecode(<<".", "/">> \o case_lowerb(h) \o <<"/">> \o percent(p)), TRUE, FALSE)
  IN CASE h = <<>> -> barf(59)
       [] h # <<>> /\ Last(p) = "/" -> [barf(30) EXCEPT !.url = [host |-> h, path |-> Append(p, "index.gemini")]]
       [] OTHER -> IF node = None THEN barf(51) ELSE [barf(20) EXCEPT !.body = node.data]

doit(tree, q) ==
  LET h == IF q.host = None THEN <<>> ELSE q.host
      p == IF q.path = <<>> THEN <<"/">> ELSE q.path
  IN IF q.length # "short" \/ "@" \in Range(h) \/ Range(p) \cap {"#", "?"} # {} THEN barf(59)
     ELSE get(tree, Stripped(h), p)

(* An empty line gets no answer.                                            *)
Request ==
  /\ At("line")
  /\ \/ \E q \in Requests : s' = [s EXCEPT !.pc = "gone", !.req = q, !.r = doit(s.tree, q)]
     \/ s' = [s EXCEPT !.pc = "gone"]
Next == Request

(* A file is sent only if the request names its host, and it is fit for all *)
(* to read; and where a client is sent elsewhere, it is not sent elsewhere  *)
(* again.                                                                   *)
Capsule ==
  At("gone") /\ s.r # None =>
    /\ s.r.code = 20 =>
         \E f \in DOMAIN s.tree : /\ s.tree[f].kind = "reg" /\ s.tree[f].r /\ ~s.tree[f].oddx /\ s.tree[f].data = s.r.body
                                  /\ Head(f) = case_lowerb(Stripped(s.req.host))
    /\ s.r.code = 30 => doit(s.tree, [host |-> s.r.url.host, path |-> s.r.url.path, length |-> "short"]).code \in {20, 51}
=============================================================================
