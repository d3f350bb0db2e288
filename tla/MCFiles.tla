------------------------------- MODULE MCFiles ------------------------------
(* Instances for TLC of the file servers: two trees of the files, of which  *)
(* the second has a file changed and a directory removed, and what the      *)
(* clients ask for: names that lead up, are escaped, are absolute, end in a *)
(* slash, and files that may not be read.                                   *)
EXTENDS Integers, Sequences, TLC
CONSTANTS None
VARIABLE s
Reg(data) == [kind |-> "reg", r |-> TRUE, oddx |-> FALSE, data |-> data, mtime |-> 1]
Dir == [kind |-> "dir", r |-> TRUE, oddx |-> FALSE, data |-> <<>>, mtime |-> 1]
V == <<"v">>
W == <<"w">>
A == <<"a">>
D == <<"d">>
Line(path, host, port, ended) == [name |-> "n", path |-> path, host |-> host, port |-> port, ended |-> ended]
Up == <<".", ".">>
(* Longer than any other file: TLC cannot compare lines with words.         *)
Map == <<Line(A, <<>>, None, TRUE), Line(<<"/", "d", "/">>, W, 7070, TRUE), Line(A, W, None, TRUE), Line(D, <<>>, 70, TRUE),
         Line(D, <<>>, None, TRUE), Line(A, <<>>, None, FALSE)>>
TreeA == (<<V>> :> Dir) @@ (<<V, A>> :> Reg(<<"x", "newline", "y">>)) @@ (<<V, D>> :> Dir)
  @@ (<<V, D, <<"b">> >> :> [Reg(<<"x">>) EXCEPT !.r = FALSE]) @@ (<<V, <<".">> >> :> Dir) @@ (<<W>> :> Dir)
  @@ (<<W, A>> :> Reg(<<"z">>)) @@ (<< <<"V">>, A>> :> Reg(<<"Z">>)) @@ (<< <<"V">> >> :> Dir) @@ (<<V, <<"e">> >> :> [Reg(<<"e">>) EXCEPT !.oddx = TRUE])
  @@ (<<W, <<"index.html">> >> :> Reg(<<"i">>)) @@ (<<V, D, <<"index.gopher">> >> :> Reg(Map)) @@ (<<V, D, A>> :> Reg(<<"da">>)) @@ (<<V, <<"index.gopher">> >> :> Reg(Map))
  @@ (<<W, <<"index.gopher">> >> :> Reg(Map)) @@ (<<V, <<"index.gemini">> >> :> Reg(<<"g">>))
TreeB == [f \in {g \in DOMAIN TreeA : ~(Len(g) > 1 /\ g[2] = D)} |-> IF f = <<V, A>> THEN [Reg(<<"n">>) EXCEPT !.mtime = 2] ELSE TreeA[f]]
F == INSTANCE Ftpd WITH Trees <- {TreeA, TreeB},
  Paths <- {<<>>, A, D, Up, <<".", ".", "/", "w", "/", "a">>},
  Hosts <- {<<>>, W, <<"V">>, Up}, localhost <- V, Rests <- {0, 2}, Numbers <- {4, 259, 260}, SSBUF <- 2, Replies <- {502}, MaxCommands <- 4
Field(n, v) == [name |-> n, val |-> v]
Headers == {<<>>, <<Field("host", <<"w", ":", "80">>), Field("host", V)>>, <<Field("host", <<>>)>>, <<Field("host", <<"u", "@", "v">>)>>,
            <<Field("if-modified-since", <<1, 0>>)>>, <<Field("host", V), Field("expect", <<>>), Field("content-length", <<>>)>>, <<Field("if-match", <<>>)>>}
Urls == {<<>>, <<"/", "a">>, <<"/", "%2e", "%2e", "/", "w", "/", "a">>, <<"/", "a", "#">>, <<"/", "d", "%2f", ".", ".", "/", "e">>, <<"/", "a", "%">>}
H == INSTANCE Httpd WITH Trees <- {TreeA, TreeB}, localhost <- V, MaxRequests <- 2,
  Requests <- [method : {"GET", "HEAD", "POST"}, proto : {"", "1.0", "1.1"}, host : {None, <<"V", ":", "80">>}, path : Urls, fields : Headers, long : {FALSE}]
     \cup [method : {"GET"}, proto : {"1.1"}, host : {None}, path : {<<"/">>}, fields : {<<>>}, long : {TRUE}]
M == INSTANCE Geminid WITH Trees <- {TreeA, TreeB},
  Requests <- [host : {None, W, <<"V", ":", "80">>, <<"u", "@", "v">>, <<".", ".">>}, path : Urls \cup {<<"/", "d", "/">>}, length : {"short", "protocol", "system"}]
G == INSTANCE Gopherd WITH Trees <- {TreeA, TreeB}, localhost <- V, localport <- 70, MaxRequests <- 3,
  Selectors <- {<<>>, A, <<"/", "a">>, <<"/", "d", "/">>, <<"d", "/">>, <<"d">>, <<"/", "%2e", "%2e", "/", "w", "/", "a">>, <<"/", ".", ".", "/", "w", "/">>, <<"e">>}
Init == F!Init \/ H!Init \/ M!Init \/ G!Init
Next == F!Next \/ H!Next \/ M!Next \/ G!Next

(* Each server sends the files that were asked for, from the tree as it     *)
(* stood, and nothing that is not to be read by all.                        *)
FilesServed ==
  /\ s.prog = "ftpd" => F!Transfers
  /\ s.prog = "httpd" => H!Pages
  /\ s.prog = "geminid" => M!Capsule
  /\ s.prog = "gopherd" => G!Menus
=============================================================================
