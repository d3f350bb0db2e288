-------------------------------- MODULE Files --------------------------------
(***************************************************************************)
(* What ftpd, httpd, gopherd and geminid share: names of files, the tree of *)
(* files below the root directory, and file_open() of source/file.c.        *)
(*                                                                         *)
(* Text is a sequence of tokens, of which "/", "." and those that begin     *)
(* with "%" matter.  A tree maps the resolved name of a file, a sequence of *)
(* components, to a node.                                                   *)
(***************************************************************************)
EXTENDS Integers, Sequences, SequencesExt, FiniteSets, TLC

CONSTANT None

(* percent.c; a "%" is one at the end, without two digits.                  *)
Percent == ("%2e" :> ".") @@ ("%2f" :> "/") @@ ("%00" :> "NUL")
percent(p) == [i \in DOMAIN SelectSeq(p, LAMBDA t : t # "%") |->
                 LET t == SelectSeq(p, LAMBDA u : u # "%")[i] IN IF t \in DOMAIN Percent THEN Percent[t] ELSE t]

(* pathdecode.c                                                             *)
Decoded(f, c) ==
  IF f = <<>> \/ Last(f) # "/" THEN Append(f, IF c = "NUL" THEN "newline" ELSE c)
  ELSE IF c = "." THEN Append(f, ":") ELSE IF c = "/" THEN f ELSE Append(f, IF c = "NUL" THEN "newline" ELSE c)
(* Mutant: dots after slashes stay.                                         *)
pathdecode_Dots(p) == p
pathdecode(p) == FoldLeft(Decoded, <<>>, p)

case_lowerb(p) == [i \in DOMAIN p |-> IF p[i] = "V" THEN "v" ELSE p[i]]

(* How the system finds a file, from the root directory.                    *)
Components(p) ==
  FoldLeft(LAMBDA cs, t : IF t = "/" THEN Append(cs, <<>>) ELSE Append(Front(cs), Append(Last(cs), t)), << <<>> >>, p)
Step(d, c) ==
  CASE c \in {<<>>, <<".">>} -> d
    [] c = <<".", ".">> -> IF d = <<>> THEN d ELSE Front(d)
    [] OTHER -> Append(d, c)
Resolved(p) == FoldLeft(Step, <<>>, Components(p))

(* A node that all may read, of which no stranger may execute what its      *)
(* owner may not, and of the kind that is asked for.                        *)
Fit(node, flagreg, flagdir) ==
  /\ node.r /\ ~node.oddx
  /\ flagreg => node.kind = "reg"
  /\ flagdir => node.kind = "dir"
file_open(tree, fn, flagreg, flagdir) ==
  LET f == Resolved(fn)
  IN IF f \in DOMAIN tree /\ Fit(tree[f], flagreg, flagdir) THEN tree[f] ELSE None
=============================================================================
