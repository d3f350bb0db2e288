------------------------------- MODULE Gopherd -------------------------------
(***************************************************************************)
(* gopherd(1), source/gopherd.c: the requests of one connection.  A request *)
(* is its selector, the first letter of the GOPHER+ part, and the length of *)
(* the data that are said to follow.                                        *)
(*                                                                         *)
(* The data of a gophermap are records; ended is FALSE for a last one       *)
(* without its newline.                                                     *)
(***************************************************************************)
EXTENDS Files

CONSTANTS Trees, Selectors, localhost, localport, MaxRequests
VARIABLE s

At(pc) == s.prog = "gopherd" /\ s.pc = pc

Init ==
  \E t \in Trees : s = [prog |-> "gopherd", pc |-> "line", tree |-> t, left |-> MaxRequests, sel |-> <<>>, plus |-> "", seen |-> t, r |-> None]

(* length is -1 for what ends with a period, -2 for errors, and None where  *)
(* only the end of the connection ends it.                                  *)
barf(code, protocol) == [code |-> code, length |-> IF protocol > 0 THEN -2 ELSE None, body |-> <<>>, close |-> TRUE]

IsAbsolute(p) == p # <<>> /\ p[1] = "/"
(* The selector of a record: a relative one is put behind that of the menu. *)
(* Mutant: without the slash in front.                                      *)
Selector_Bare(path, p) == IF IsAbsolute(p) THEN p ELSE path \o p
Selector(path, p) ==
  IF IsAbsolute(p) THEN p
  ELSE IF path = <<>> THEN <<"/">> \o p
  ELSE (IF path[1] = "/" THEN <<>> ELSE <<"/">>) \o path \o (IF Last(path) = "/" THEN <<>> ELSE <<"/">>) \o p
Filled(path, l) ==
  [l EXCEPT !.path = Selector(path, l.path), !.host = IF l.host = <<>> THEN localhost ELSE l.host,
            !.port = IF l.port = None THEN localport ELSE l.port]
Menu(path, data) == LET lines == SelectSeq(data, LAMBDA l : l.ended) IN [i \in DOMAIN lines |-> Filled(path, lines[i])]

get(tree, path, file, level, protocol) ==
  LET name == percent(file)
      fn == pathdecode(<<".", "/">> \o localhost \o (IF IsAbsolute(name) THEN <<>> ELSE <<"/">>) \o name)
      node == file_open(tree, fn, TRUE, FALSE)
      ok(length, body) == [code |-> 0, length |-> IF protocol > 0 THEN length ELSE None, body |-> body, close |-> protocol < 1]
  IN CASE node = None -> barf(1, protocol)
       [] node # None /\ level = 0 -> ok(Len(node.data), node.data)
       [] node # None /\ level \in {1, 3} -> ok(-1, Menu(path, node.data))
       [] node # None /\ level = 2 -> ok(1, <<[mtime |-> node.mtime, length |-> Len(node.data)]>>)

(* One turn of doit().                                                      *)
Answer(tree, path, plus, rqdf) ==
  LET flagdir == path = <<>> \/ Last(path) = "/"
      protocol == IF plus \in {"+", "$"} THEN 1 ELSE 0
      level == CASE plus = "!" -> 2 [] plus = "$" -> 3 [] OTHER -> IF flagdir THEN 1 ELSE 0
      file == IF ~flagdir THEN path ELSE Append(IF path = <<>> THEN <<"/">> ELSE path, "index.gopher")
  IN IF plus \notin {"", "+", "!", "$"} \/ (plus = "$" /\ ~flagdir) \/ rqdf THEN barf(4, protocol)
     ELSE get(tree, path, file, level, protocol)

Request ==
  /\ At("line") /\ s.left > 0
  /\ \E path \in Selectors, plus \in {"", "+", "!", "$", "x"}, rqdf \in BOOLEAN :
       LET r == Answer(s.tree, path, plus, rqdf)
       IN s' = [s EXCEPT !.left = @ - 1, !.sel = path, !.plus = plus, !.seen = s.tree, !.r = r, !.pc = IF r.close THEN "gone" ELSE "line"]
Publish == At("line") /\ \E t \in Trees : t # s.tree /\ s' = [s EXCEPT !.tree = t]
Leave == At("line") /\ s' = [s EXCEPT !.pc = "gone"]
Next == Request \/ Publish \/ Leave

(* Only files of the host of the server, fit for all to read, are sent; a   *)
(* connection stays open only after an answer whose end a client can find;  *)
(* and what a menu names can be asked for: every line has a host, a port    *)
(* and an absolute selector, which for a relative one in a menu of this     *)
(* host leads to the file of that name beside the menu.                     *)
Menus ==
  s.prog = "gopherd" /\ s.r # None /\ s.pc \in {"line", "gone"} =>
    /\ ~s.r.close => s.r.length # None /\ s.r.length \in {-1, Len(s.r.body)}
    /\ s.r.code = 0 /\ s.r.length # None /\ s.r.length >= 0 =>
         \E f \in DOMAIN s.seen : Head(f) = localhost /\ s.seen[f].r /\ ~s.seen[f].oddx /\ s.seen[f].kind = "reg" /\ s.seen[f].data = s.r.body
    /\ s.r.code = 0 /\ s.plus # "!" /\ (s.sel = <<>> \/ Last(s.sel) = "/") =>
         \E f \in DOMAIN s.seen :
           /\ Last(f) = <<"index.gopher">>
           /\ Len(s.r.body) = Cardinality({i \in DOMAIN s.seen[f].data : s.seen[f].data[i].ended})
           /\ \A i \in DOMAIN s.r.body :
                LET l == s.r.body[i]
                    given == s.seen[f].data[i].path
                IN /\ l.host # <<>> /\ l.port # None /\ IsAbsolute(l.path)
                   /\ ~IsAbsolute(given) => Resolved(l.path) = Tail(Front(f)) \o Resolved(given)
=============================================================================
