-------------------------------- MODULE Edit ---------------------------------
(***************************************************************************)
(* tinydns-edit(1), source/tinydns-edit.c: programs that each add one line  *)
(* to data; the machine may go down meanwhile.  Each has a temporary file   *)
(* of its own: data is only replaced, so that what a program has opened     *)
(* stays as it was.  Lines are those of ZoneData.                           *)
(***************************************************************************)
EXTENDS ZoneData, FiniteSetsExt

CONSTANTS
  Start,                    \* data at first, not empty
  Editors,                  \* running at the same time
  Additions,                \* what is added: the c, d and ip of a line
  Letters,                  \* for names of servers (26)
  MaxOutages
VARIABLE s

(* files: data, and the temporary file of each program (None if there is    *)
(* none); synced: those that are on the disk.                               *)
Names == {"data"} \cup Editors
Init ==
  \E add \in [Editors -> Additions] :
    s = [prog |-> "edit", pc |-> [e \in Editors |-> "open"], add |-> add, old |-> [e \in Editors |-> <<>>],
         files |-> [f \in Names |-> IF f = "data" THEN Start ELSE None], synced |-> Names, ok |-> {}, outages |-> 0]
At(e, pc) == s.prog = "edit" /\ s.pc[e] = pc
Exit(t, e) == [t EXCEPT !.pc[e] = "gone", !.old[e] = <<>>]

-----------------------------------------------------------------------------
Kind(c) == IF c = "@" THEN <<"mx">> ELSE <<"ns">>
Alike(lines, a) == SelectSeq(lines, LAMBDA l : l.c = a.c /\ l.d = a.d)

(* Of ns, childns and mx: the first letter whose name no line of the same   *)
(* kind for the same domain has, and the time of the last such line.        *)
Taken(lines, a) == {Host(l, Kind(a.c)) : l \in ToSet(Alike(lines, a))}
Free(lines, a) == {i \in DOMAIN Letters : <<Letters[i]>> \o Kind(a.c) \o a.d \notin Taken(lines, a)}
Ttl(lines, a) ==
  LET default == IF a.c \in {".", "&"} THEN TTL_NS ELSE TTL_POSITIVE
      same == Alike(lines, a)
  IN IF a.c \in {"=", "+"} \/ same = <<>> THEN default ELSE ttlparse(Last(same), default)

(* ip_scan() with ":" does not know an IPv6 address in a line, which has    *)
(* "_".                                                                     *)
Refused(lines, a) ==
  \/ a.c = "=" /\ \E i \in DOMAIN lines : lines[i].c = "=" /\ (lines[i].d = a.d \/ (lines[i].ip = a.ip /\ a.ip \in Addr4))
  \/ a.c \in {".", "&", "@"} /\ Free(lines, a) = {}

Added(lines, a) ==
  [c |-> a.c, d |-> a.d, ip |-> a.ip, x |-> IF a.c \in {"=", "+"} THEN <<>> ELSE <<Letters[Min(Free(lines, a))]>>,
   n |-> <<>>, ttl |-> Ttl(lines, a), ttd |-> None, lo |-> None]

(* data is opened, and the temporary file truncated.                        *)
Open(e) == At(e, "open") /\ s' = [s EXCEPT !.pc[e] = "copy", !.old[e] = s.files["data"], !.files[e] = <<>>, !.synced = @ \ {e}]
(* The lines are copied, and the new one is put after them.                 *)
Copy(e) == At(e, "copy") /\ s.files[e] = <<>> /\ s' = [s EXCEPT !.files[e] = s.old[e]]
Refuse(e) == At(e, "copy") /\ Refused(s.old[e], s.add[e]) /\ s' = Exit(s, e)
Add(e) ==
  /\ At(e, "copy") /\ s.files[e] # <<>> /\ ~Refused(s.old[e], s.add[e])
  /\ s' = [s EXCEPT !.pc[e] = "sync", !.files[e] = Append(@, Added(s.old[e], s.add[e]))]
Sync_Not(e) == At(e, "sync") /\ s' = [s EXCEPT !.pc[e] = "rename"]
Sync(e) == At(e, "sync") /\ s' = [s EXCEPT !.pc[e] = "rename", !.synced = @ \cup {e}]
Rename(e) ==
  /\ At(e, "rename")
  /\ s' = Exit([s EXCEPT !.files = [@ EXCEPT !["data"] = s.files[e], ![e] = None], !.ok = @ \cup {e},
                         !.synced = IF e \in @ THEN @ \cup {"data"} ELSE (@ \ {"data"}) \cup {e}], e)
(* A call fails, or the program is killed.                                  *)
Fail(e) == s.prog = "edit" /\ s.pc[e] # "gone" /\ s' = Exit(s, e)

-----------------------------------------------------------------------------
(* All programs end, and what is not on the disk is cut off.                *)
Outage ==
  /\ s.prog = "edit" /\ s.outages < MaxOutages
  /\ \E cut \in [Names \ s.synced -> 0..1] :
       s' = [s EXCEPT !.outages = @ + 1, !.pc = [e \in Editors |-> "gone"], !.old = [e \in Editors |-> <<>>], !.synced = Names,
                      !.files = [f \in Names |-> IF f \in DOMAIN cut THEN SubSeq(@[f], 1, cut[f] * (Len(@[f]) \div 2)) ELSE @[f]]]

Next ==
  \/ \E e \in Editors : Open(e) \/ Copy(e) \/ Refuse(e) \/ Add(e) \/ Sync(e) \/ Rename(e) \/ Fail(e)
  \/ Outage

-----------------------------------------------------------------------------
Pairs(lines) == {<<i, j>> \in (DOMAIN lines) \X (DOMAIN lines) : i < j}

(* At any time data is whole: what it was at first, and lines of programs    *)
(* that have succeeded, among them the last one's; tinydns-data takes it.    *)
(* However the programs overlap, no two of the "=" lines have one name or   *)
(* one IPv4 address, and no two servers of one kind for a domain one name.  *)
Edited ==
  s.prog = "edit" =>
    LET data == s.files["data"]
        new == {l \in ToSet(data) : l \notin ToSet(Start)}
    IN /\ IsPrefix(Start, data) /\ (s.ok # {} => new # {}) /\ Accepted(data)
       /\ \A l \in new : \E e \in s.ok : [c |-> l.c, d |-> l.d, ip |-> l.ip] = s.add[e]
       /\ \A p \in Pairs(data) :
            LET l == data[p[1]]
                m == data[p[2]]
            IN /\ l.c = "=" /\ m.c = "=" => l.d # m.d /\ (l.ip = m.ip => l.ip \notin Addr4)
               /\ l.c = m.c /\ l.c \in {".", "&", "@"} /\ l.d = m.d => Host(l, Kind(l.c)) # Host(m, Kind(l.c))

(* The line of each program that has succeeded is in data ("atomically      *)
(* modifies", tinydns-edit.xml).                                            *)
NoneLost == s.prog = "edit" => \A e \in s.ok : \E l \in ToSet(s.files["data"]) : [c |-> l.c, d |-> l.d, ip |-> l.ip] = s.add[e]
(* A "=" line is not added for an address that has one (tinydns-edit.xml).   *)
AddressOnce == s.prog = "edit" => \A p \in Pairs(s.files["data"]) :
  LET l == s.files["data"][p[1]] m == s.files["data"][p[2]] IN l.c = "=" /\ m.c = "=" => l.ip # m.ip
=============================================================================
