-------------------------------- MODULE Stub ---------------------------------
(***************************************************************************)
(* The DNS client library: qualification of names and the choice of proxy   *)
(* servers, source/dns_rcrw.c, source/dns_rcip.c, source/dns_ipq.c,         *)
(* source/dns_ip.c and source/dns_resolve.c, as dnsipq(1) uses it for one   *)
(* name after another.  What was read of the files is used for a while;     *)
(* meanwhile they change.                                                   *)
(*                                                                         *)
(* A text is a sequence of tokens; "." and "+" are tokens.  Of the groups   *)
(* of servers, 0 is the regular one, 3 that of onion (home and dnssd are    *)
(* like it), and 4 that of local.                                           *)
(***************************************************************************)
EXTENDS Integers, Sequences, SequencesExt, FiniteSets, FiniteSetsExt

CONSTANTS
  Envs,                     \* environments: ip, for each group, and domains (LOCALDOMAIN)
  Files,                    \* rewrite, rules; nameserver, for each group; search; host, a domain
  Args,                     \* sequences of names
  Literal,                  \* texts that are addresses
  Data(_, _, _),            \* what a server has of a type for a name
  LIFETIME, USES,           \* of what was read (600 seconds, 10000)
  MaxTime, MaxEdits, None
VARIABLE s

At(pc) == s.prog = "stub" /\ s.pc = pc
Groups == {0, 3, 4}

-----------------------------------------------------------------------------
(* dns_rcrw.c                                                               *)
Rule(c, match, replacement) == [c |-> c, match |-> match, repl |-> replacement]
NoDot == Rule("*", <<".">>, <<>>)
Search(domains) == <<Rule("?", <<>>, FlattenSeq([i \in DOMAIN domains |-> <<"+", ".">> \o domains[i]])), NoDot>>
RulesOf(env, files) ==
  CASE files.rewrite # None -> files.rewrite
    [] files.rewrite = None /\ env.domains # None -> Search(env.domains)
    [] files.rewrite = None /\ env.domains = None /\ files.search # None -> Search(files.search)
    [] OTHER -> IF files.host = <<>> THEN <<NoDot>> ELSE <<Rule("?", <<>>, <<".">> \o files.host), NoDot>>

(* dns_rcip.c: the environment; else the directives of resolv.conf, which   *)
(* are only looked at for the first group without servers, because the      *)
(* position is moved on with it; else the loopback addresses, or multicast. *)
Given(env, g) == IF env.ip[g] # None THEN env.ip[g] ELSE IF g = 3 /\ env.ip[0] # None THEN env.ip[0] ELSE <<>>
Unset(env) == {g \in Groups : Given(env, g) = <<>>}
Directed(env, files, g) == IF g \in Unset(env) /\ g = Min(Unset(env)) THEN files.nameserver[g] ELSE Given(env, g)
Servers(env, files) ==
  [g \in Groups |-> IF Directed(env, files, g) # <<>> THEN Directed(env, files, g)
                    ELSE IF g = 4 THEN <<"multicast4", "multicast6">> ELSE <<"loopback4", "loopback6">>]
find_group(name) == CASE IsSuffix(<<"onion">>, name) -> 3 [] IsSuffix(<<"local">>, name) -> 4 [] OTHER -> 0

(* dns_resolvconfip() and dns_resolvconfrewrite(): what is kept, read anew   *)
(* when it is old or used up.                                               *)
Kept(val) == [ok |-> FALSE, uses |-> 0, deadline |-> 0, val |-> val]
Stale_Used(c) == ~c.ok \/ c.uses = 0
Stale(c) == ~c.ok \/ c.deadline < s.now \/ c.uses = 0
Used(c, val) ==
  IF Stale(c) THEN [ok |-> TRUE, uses |-> USES - 1, deadline |-> s.now + LIFETIME, val |-> val]
  ELSE [c EXCEPT !.uses = @ - 1]

-----------------------------------------------------------------------------
(* dns_ipq.c                                                                *)
Rewritten(work, r) ==
  LET prefix == SubSeq(work, 1, Len(work) - Len(r.match))
      fits == /\ r.c \in {"?", "=", "*", "-"} /\ IsSuffix(r.match, work)
              /\ r.c = "=" => prefix = <<>>
              /\ r.c = "?" => ToSet(prefix) \cap {".", "[", "]"} = {}
  IN IF fits THEN (IF r.c = "-" THEN <<>> ELSE prefix) \o r.repl ELSE work
dns_qualify_rules(in, rules) == FoldLeft(Rewritten, in, rules)

(* The first part with each of the others.                                  *)
Candidates(fqdn) ==
  LET plus == SetToSortSeq({i \in DOMAIN fqdn : fqdn[i] = "+"} \cup {Len(fqdn) + 1}, <)
  IN IF Len(plus) = 1 THEN <<fqdn>>
     ELSE [i \in 1..Len(plus) - 1 |-> SubSeq(fqdn, 1, plus[1] - 1) \o SubSeq(fqdn, plus[i] + 1, plus[i + 1] - 1)]

(* files is what the files hold, and past what they held at each time.      *)
Init ==
  \E env \in Envs, files \in Files, args \in Args :
    s = [prog |-> "stub", pc |-> "arg", env |-> env, files |-> files, past |-> <<{files}>>, now |-> 1, edits |-> 0, todo |-> args, since |-> 0,
         rules |-> Kept(<<>>), ip |-> Kept(<<>>), fqdns |-> <<>>, out |-> {}, tried |-> <<>>, lines |-> <<>>]

(* dns_ip_qualify() of the next name, and what dnsipq prints of it.         *)
Shown(t, out) ==
  [t EXCEPT !.pc = "arg", !.out = out, !.todo = Tail(@), !.tried = <<>>, !.fqdns = <<>>,
            !.lines = Append(@, [name |-> Head(t.todo), since |-> t.since, out |-> out, tried |-> t.tried])]
Qualify ==
  /\ At("arg") /\ s.todo # <<>>
  /\ LET name == Head(s.todo)
         t == [s EXCEPT !.rules = Used(@, RulesOf(s.env, s.files)), !.since = s.now]
     IN s' = IF name \in Literal THEN Shown(t, s.out \cup {name})
             ELSE [t EXCEPT !.pc = "try", !.fqdns = Candidates(dns_qualify_rules(name, t.rules.val))]

(* dns_ip(): a name that is an address after all; or dns_resolve() for AAAA *)
(* and then for A, whose failure ends the program.                          *)
Literally == At("try") /\ Head(s.fqdns) \in Literal /\ s' = Shown(s, {Head(s.fqdns)})
Below(name, tops) == \E top \in tops : IsSuffix(top, name)
Ipv4Only == <<"ipv4only", ".", "arpa">>
Special(name) == Below(name, {<<"invalid">>, <<"localhost">>, Ipv4Only})
handle_specials(name, type) ==
  CASE Below(name, {<<"localhost">>}) -> IF type = "AAAA" THEN {"::1"} ELSE {"127.0.0.1"}
    [] name = Ipv4Only /\ type = "A" -> {"192.0.0.170", "192.0.0.171"}
    [] OTHER -> {}
dns_resolve(type, pc) ==
  LET name == Head(s.fqdns)
      t == [s EXCEPT !.pc = pc, !.ip = Used(@, Servers(s.env, s.files))]
      servers == t.ip.val[find_group(name)]
  IN IF Special(name) THEN {[t |-> t, by |-> None, got |-> handle_specials(name, type)]}
     ELSE {[t |-> t, by |-> servers[i], got |-> Data(servers[i], name, type)] : i \in DOMAIN servers}
Tried(type, r) == [type |-> type, fqdn |-> Head(s.fqdns), by |-> r.by, got |-> r.got, servers |-> r.t.ip.val, at |-> s.now]

ResolveAAAA ==
  /\ At("try") /\ Head(s.fqdns) \notin Literal
  /\ \E r \in dns_resolve("AAAA", "A") : s' = [r.t EXCEPT !.out = r.got, !.tried = Append(@, Tried("AAAA", r))]
ResolveA ==
  /\ At("A")
  /\ \E r \in dns_resolve("A", "try") :
       LET t == [r.t EXCEPT !.out = @ \cup r.got, !.tried = Append(@, Tried("A", r))]
       IN s' = IF t.out # {} \/ Len(t.fqdns) = 1 THEN Shown(t, t.out) ELSE [t EXCEPT !.fqdns = Tail(@)]
Running == s.prog = "stub" /\ s.pc # "gone" /\ s.todo # <<>>
Fail == Running /\ s' = [s EXCEPT !.pc = "gone", !.tried = <<>>, !.fqdns = <<>>]

Tick == Running /\ s.now < MaxTime /\ s' = [s EXCEPT !.now = @ + 1, !.past = Append(@, {s.files})]
Edit ==
  /\ Running /\ s.edits < MaxEdits
  /\ \E f \in Files : s' = [s EXCEPT !.files = f, !.edits = @ + 1, !.past[s.now] = @ \cup {f}]

Next == Qualify \/ Literally \/ ResolveAAAA \/ ResolveA \/ Fail \/ Tick \/ Edit

-----------------------------------------------------------------------------
(* What the configuration means: a name with a final dot is itself without, *)
(* one with a dot within is itself, and another is looked for in each of    *)
(* the domains.                                                             *)
Domains(env, files) == IF env.domains # None THEN env.domains ELSE IF files.search # None THEN files.search ELSE IF files.host = <<>> THEN <<>> ELSE <<files.host>>
Means(env, files, name) ==
  LET domains == Domains(env, files)
  IN IF Last(name) = "." THEN <<Front(name)>>
     ELSE IF Contains(name, ".") \/ domains = <<>> THEN <<name>>
     ELSE [i \in DOMAIN domains |-> name \o <<".">> \o domains[i]]

(* Each name gets the addresses of the first name that it may stand for and  *)
(* that has any, after all before that have none; the rules that say so, and *)
(* the servers that are asked, are all of one reading of the files, which is *)
(* not older than its time; names of onion and local are asked of their own *)
(* servers; and for special names none is asked.                            *)
Resolved ==
  s.prog = "stub" =>
    LET recent(now) == UNION {s.past[i] : i \in (IF now > LIFETIME THEN now - LIFETIME ELSE 1)..now}
    IN \A k \in DOMAIN s.lines :
         LET l == s.lines[k]
             names == [i \in 1..Len(l.tried) \div 2 |-> l.tried[2 * i].fqdn]
             got(i) == l.tried[2 * i - 1].got \cup l.tried[2 * i].got
         IN /\ \A i \in DOMAIN names : l.tried[2 * i - 1].fqdn = names[i] /\ (i < Len(names) => got(i) = {})
            /\ names # <<>> => l.out = got(Len(names))
            /\ \E f \in recent(l.since) :
                 f.rewrite = None /\ names # <<>> =>
                   IsPrefix(names, Means(s.env, f, l.name)) /\ (l.out = {} => names = Means(s.env, f, l.name))
            /\ \A i \in DOMAIN l.tried :
                 LET r == l.tried[i]
                 IN /\ \E f \in recent(r.at) : r.servers = Servers(s.env, f)
                    /\ r.by = None <=> Special(r.fqdn)
                    /\ r.by # None => r.by \in ToSet(r.servers[find_group(r.fqdn)])
            /\ l.name \in Literal => l.name \in l.out /\ l.tried = <<>>

(* A line has the addresses of its name only (dnsipq.xml); onion is not      *)
(* looked up without servers for it (djbdns-client.xml); each group has the *)
(* servers that resolv.conf gives it (djbdns-client.xml).                   *)
OwnLine == s.prog = "stub" => \A k \in DOMAIN s.lines : s.lines[k].name \in Literal => s.lines[k].out = {s.lines[k].name}
OnionKept == s.prog = "stub" => \A k \in DOMAIN s.lines : \A i \in DOMAIN s.lines[k].tried :
  s.lines[k].tried[i].by \in {"loopback4", "loopback6"} => find_group(s.lines[k].tried[i].fqdn) # 3
GroupsKept == s.prog = "stub" => \A k \in DOMAIN s.lines : \A i \in DOMAIN s.lines[k].tried : \A g \in Unset(s.env) :
  \E t \in DOMAIN s.past : \E f \in s.past[t] : f.nameserver[g] # <<>> => s.lines[k].tried[i].servers[g] = f.nameserver[g]
=============================================================================
