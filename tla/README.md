# A verification project for djbwares

djbwares collects Daniel J. Bernstein's daemontools, ucspi-tcp, djbdns, cdb,
clockspeed, publicfile and ptyget in one source tree (`src/source/*.c`).  The
programs are small, they are written around a handful of system calls, and
most of what can go wrong in them is a matter of order: a signal that arrives
between two calls, a child that exits before its pid is stored, a ring buffer
that wraps, a log directory that is found again after a crash.  This project
states what those programs promise in TLA+, model-checks it with TLC and
proves part of it with TLAPS.

## 1. Inventory

| Component | State | Operations | Hard behaviour | What makes it correct |
|---|---|---|---|---|
| supervise, svc, svok, svstat | pid, flagwant, flagwantup, flagpaused, flagexit, the status file, the FIFO `supervise/control`, a self-pipe | start, reap, eleven one-letter commands | SIGCHLD against poll, exits against commands, failed forks, crash of supervise | one child, never forgotten; no lost wakeup; status file up to date; wishes are carried out |
| svscan | table `x[]` of (dev, ino) entries, a pipe per logged service | scan every five seconds, reap, fork, sweep | directory changes during a scan, errors half way through, pipes that must outlive restarts | every child in the table exactly once, same pipe for both halves of a service, no forgotten directory |
| multilog | per directory: `current`, `previous`, `state`, old files; mode bits as commit marks | write a line, rotate, process, finish, exit | crash between any two system calls, full disk, TERM and ALRM against a blocking read | no line is lost or torn by a crash after it was committed; limits on size and number are kept |
| cache (dnscache) | one byte ring with a hash table in front | `cache_set`, `cache_get` | wrap-around, chains of XOR links into overwritten memory | a get returns the newest entry for the key or nothing |
| dns_transmit | current server, round, one socket, one packet | start, poll step, timeouts, UDP to TCP | late, forged or truncated answers, refused connections | terminates; releases what it holds; only a matching answer is returned |
| query (dnscache) | stacks of names, servers, aliases | one step per answer | loops of aliases and glue, lame servers | bounded; caches only what it may |
| dnscache | tables of UDP and TCP clients | accept, read, resolve, write, time out, drop the oldest | many clients, full tables, late answers | counters equal the live slots, answers go to the client that asked |
| tdlookup, tinydns, tinydns-data, response | a cdb file, the answer under construction | compile, look up, answer | wildcard and delegation rules, times and locations, truncation, data replaced meanwhile | the answer follows one version of the zone data |
| axfrdns, axfr-get | the serial, a file under construction | ask, compare, transfer, rename | the zone changes, either end dies | the file holds one version of the zone, or stays |
| rbldns, walldns | a cdb file, or nothing | one query each | boundaries of networks, reversal of names | address and name agree; exactly the listed networks |
| cdb, cdb_make | hash tables in a file | add, finish, find, findnext | collisions, wrap-around of the table, a writer that dies | a find returns the records of the key in the order they were added |
| tcpserver, tcpclient | number of children, limit; addresses and tries | accept, fork, reap; try, retry, ask who it is | SIGCHLD against accept, failed fork, connect timeouts | never more than the limit, never stuck at it; every address gets its turn |
| tcprules, rules, tcprulescheck | a cdb file of rules | compile, look up | ranges, a dozen names of one client | the nearest rule decides |
| rblsmtpd | what the lists said so far | option, look-up, refuse | lists that cannot be asked, flags that change between options | refused when, and as, the lists say |
| recordio, fixcrio, mconnect-io | buffers between descriptors | copy in both directions | one side closes, partial writes | nothing lost, reordered or duplicated |
| dnsfilter | lines under look-up | read, look up, print | answers in any order, limits on lines and look-ups | lines come out as they went in |
| tinydns-edit | data and a temporary file | copy, add, sync, rename | programs at once, outages | data whole, no name or address twice |
| dnstrace | tables of queries, servers and addresses; what is to be asked | add to a table, ask, parse | tables that grow while their join is walked | each path once |
| dns_rcip, dns_rcrw, dns_ipq, dns_ip, dns_resolve | servers and rules as last read | qualify, choose, look up | files that change, readings that age | what a name stands for is asked, of its servers |
| buffer, substdio, stralloc, alloc | a buffer, counters n and p | get, put, feed, flush | interrupted and partial calls | a stream is a stream |
| clockspeed, sntpclock, taiclock, libtai | clock adjustment, TAI arithmetic | add, subtract, convert, adjust | carries, leap seconds, overflow | arithmetic agrees with time |
| ptyget, ptyio, ptyspawn, ptyrun | two descriptors, terminal modes, child states | copy, suspend, resume | job control signals against poll | nothing lost, no stop left unanswered |
| httpd, ftpd, gopherd, geminid, file | one connection; for ftpd a session | parse, open, send | state left from the last request, protocol state of FTP, files that change | a client gets what it asked for, below the directory of its host |
| pickdns, dnsq, dnsip and the other client tools | none that outlives a query | one query each | few | - |
| setlock, fghack, pgrphack, softlimit, envdir, setuidgid... | none kept | exec a program under changed conditions | little | - |
| readproctitle, tai64n, tai64nlocal, *-conf, tcpcat, scripts | none kept | a filter or a generator of files | none | - |

How they interact: svscan forks supervise (twice when there is a log) and holds
the pipe between them; supervise forks `./run` and is told what to do by svc
through a FIFO; svstat and svok read what supervise leaves in files; multilog is
the usual `./run` of a log service and gets its lines from svscan's pipe;
tcpserver forks the network servers; dnscache drives query, which drives
dns_transmit and the cache, from one poll loop, and tinydns and axfrdns read the
cdb file that tinydns-data replaces by rename.

## 2. Plan

Modules, in the order in which they were written:

1. `Supervise`, with `SuperviseProofs` (daemontools' heart).
2. `Svscan`, with `SvscanProofs`.
3. `CacheRing`, the byte ring of dnscache, and the abstract cache it implements, with `CacheRingProofs`.
4. `DnsTransmit`, one DNS query over UDP and TCP, with `DnsTransmitProofs`.
5. `Multilog`, rotation and crash recovery of one log directory, with `MultilogProofs`.
6. `TcpServer`, the children of tcpserver, with `TcpServerProofs`.
7. `Dnscache`, the client tables of dnscache and its loop, with `DnscacheProofs`.
8. `Query`, the resolver on top of 3 and 4, with `QueryProofs`.
9. `ZoneData` with `Tinydns` and `Transfer`; `Walldns`, `Rbldns`.
10. `Files` with `Ftpd`, `Httpd`, `Gopherd` and `Geminid`.
11. `Cdb`, `Rules`, `Rblsmtpd`.
12. `Copyio`, `Ptyio`, `Tcpclient`, `Dnsfilter`.
13. `Buffer`; `Edit`, `Dnstrace`, `Stub`.

What each of them composes: `CacheRing` implements the abstract `CacheFifo`;
`Query` has for a cache a map that may forget anything, which is less than
`CacheFifo` promises, and a summary of `DnsTransmit` ("in the end a packet or a
failure"); `Dnscache` uses such a summary of `Query` in turn.  `Supervise` and
`Svscan` meet at one point, that svscan starts a supervise again that has
exited; each has the other in its environment, so that neither has to carry the
other's state.  `Tinydns` and `Transfer` share the compiler and the look-up in
`ZoneData`; the file servers share `Files`.  tinydns, rbldns and the rules rely
on what `Cdb` shows, that a search finds the records of its key in their order,
and have a sequence of records in its place.

The programs of 9 to 13 do not meet: their modules share one variable, the
record `s`, whose field `prog` says whose state it is, and the instances are
put together in `MCPrograms` (with `MCZones` and `MCFiles`), so that one run
checks them all.

Left in the plan: libtai, as functions over small words; the decoding of packets in
the client tools.  Theorems still worth proving: for `Ptyio` that no stop is left unanswered, for `Buffer` `Streams`.

## 3. The models

Sources are in `src/source/`.  `PROJECT.json` maps each definition to the lines
it stands for.  An action whose name ends in a verb of the system
(`ForkFails`, `ChildExits`, `Outage`) is what the kernel, a peer or the
administrator may do at any time.  Definitions marked "Mutant" are plausible
mistakes in the line they stand beside; nothing uses them in the specifications,
they are swapped in to see that a property notices.

### 3.1 Supervise (`Supervise.tla`)

`pc` is the place in `main()`, `doit()` and `trystart()`; the flags, `pid` and
`flagpaused` are the variables of the C file.  `pending` is a SIGCHLD that is
blocked and `selfpipe` the pipe that its handler `trigger` writes to; `control` is
the FIFO.  `proc` is the process table as far as ./run is concerned.

| Code | Definitions |
|---|---|
| `main()`, first half: locks, status file, `ok`, first `trystart()` | `Boot`, `FirstAnnounce`, `OpenOk`, `EnterLoop`, `DieAtStart` |
| `trystart()` | `Forked`, `ForkFailed` |
| top of the loop, `sig_unblock`, `iopause`, `sig_block` | `LoopTop`, `trigger`, `Wakeup`, `Polled`, `TimedOut` |
| the `wait_nohang()` loop | `ReapRun` (with `AfterExit`), `ReapNone` |
| the `switch` on the byte from the FIFO | `Down`, `Up`, `Once`, `OtherSignal`, `Term`, `KillRun`, `Pause`, `Cont`, `Exit`, `NoCommand` |
| `announce()` | `announce`, a file replaced by rename, or left as it was when a call fails |
| svc; ./run; SIGKILL of supervise; svscan | `Svc`; `ChildExit`; `Crash`; `Respawn` |

After `Crash` the child is an orphan that supervise will never see again, and the
next supervise starts with all variables new, as the code does.

Runs.  *supervise_safety*: two pids, all eleven commands, one byte in the FIFO,
one failed `fork()`, failing writes of the status file, one crash.  Two pids are
enough for "the old child is not reaped, the new one runs"; a command that waits
behind another one sees the same loop as one that comes later, so that one byte
suffices for safety.  *supervise_liveness*: two bytes and the command line `dx`,
no failed `fork()`.  With `MaxForkFails = 1` in `MCSuperviseLive.cfg` there is a
counterexample, see section 5.

Fairness: supervise is scheduled (weak fairness of its steps together), and a
process that got TERM and is not stopped exits in the end - this is what svc -d
relies on.  The timeout of 3600 seconds is *not* fair: the promises must be kept
without it.

### 3.2 Svscan (`Svscan.tla`)

`x` is the table with the fields of the code; `pc` is the place in `doit()`.
`Reap` is the `wait_nohang()` loop, `Opendir`, `StartKnown`, `StartNew`, `StartNot`,
`EndOfDir` and `DirError` the scan with `start()` inlined, `Sweep` and `Swept` the loop that
drops dead entries, `Wake` the five seconds.  A child first exists (`forked`),
then has reached its directory (`ChildStarts`): in between the name may have been given to another
directory.  `Create`, `Remove`, `Rename`, `AddLog` and `RemoveLog` are the administrator, who may put
a log into a directory that svscan has seen already, and take away one that no supervise is in.  `todo` and
`done` are what `readdir()` still owes: a name that is there all through the scan comes once,
one that is created or removed meanwhile may come or not.

Runs.  *svscan_safety*: one name, two inodes and four pids let a directory be
replaced while both supervises of the old one still run; one failing call.
*svscan_liveness*: two names compete for a table of one entry; `GetsSupervises` promises a
supervise for each directory that there is room for, and one for its log if the log was there when the entry was made.
`EveryLogSupervised` is the sentence of the manual, which promises the latter for every log, and does not hold (section 5).
`ReuseInodes` says whether a new directory may get the inode of one that is gone;
*svscan_liveness* is checked without: a child looks its name up again (svscan.c:102), and if the directory was
removed and made again with its inode between `fork()` and then, a supervise may be in another directory
than its entry says, whose own is kept out.  Fairness: svscan runs, and children
reach `exec`; nobody has to exit and no directory has to change.

### 3.3 The cache (`CacheRing.tla`, `CacheFifo.tla`)

`writer`, `oldest`, `unused`, `pos`, `prevpos` and `loop` are the variables of
`cache.c` with its arithmetic; `link` is the memory at the places where a link is
stored.  `cache_set` begins a call, `Evict` is one turn of its loop, `TooLarge` the
early return in it, `Insert` the rest; `cache_get` begins a lookup, `Follow`, `Found`
and `GiveUp` are the steps along a chain.  `CacheFifo` says
what a user of the cache may rely on: a queue that loses its oldest entries, only for want
of room, and answers with the newest entry of a key.  Beside the queue it keeps `bytes`,
what the entries take, so that "for want of room" is said in numbers: with the new entry and `Slack` the
bytes would be more than the ring has.  `Slack` is what may lie idle at the end of the ring: an entry that does not fit there goes to the
beginning, so that less is lost than the longest entry takes.  The refinement mapping `Abs` in
`CacheRing` reads the queue off the ring (`ImplementsFifo`).

Run *cache_ring*: a ring of 128 bytes with two buckets of four bytes.  Entries take 30, 31, 60 or 61 bytes,
so that the ring holds one to four of them, ends of the ring with
and without a gap occur, and chains have zero to three members from both
sides of the wrap.  One data is larger than the ring and one than MAXDATALEN.
The clock has two readings, before and after the expiry of
an entry of one second.  `MaxLoop` is 2 in place of 100, so that a chain that is too long
occurs.  Fairness: a call in progress goes on.

### 3.4 dns_transmit (`DnsTransmit.tla`)

The record `d` is the `struct dns_transmit`.  `SendUdp` and `ConnectTcp` are one
turn of the loops of `thisudp()` and `thistcp()`, `NoSocket`, `SkipUnassigned`,
`NextRound` and `Exhausted` the other ways through them; `nextudp`, `firsttcp` and
`nexttcp` are the functions of that name.  `dns_transmit_get` is a disjunction with one
action per return of that function.  `Stamp` and `Poll` are the caller's loop in
`dns_resolve.c`.  `d.fds` and `d.mem` count what is open and allocated, so that a leak is visible.
Time is abstract: whether the deadline has passed, and whether it had passed when the caller read the clock.

Run *transmit*: two servers, of which any set is unassigned; four UDP rounds or,
for a recursive query, three, and TCP; a query that one `write()` takes; packets of up to two bytes; one packet that is
ignored.  Two servers are enough for "next server", "skip" and "wrap to the next round".
*transmit_pos* is a counterexample.  Fairness: the caller goes on and deadlines pass; nobody answers by necessity.

### 3.5 multilog (`Multilog.tla`)

Input is a sequence of tokens, some of which are line feeds.  `dir` is the
directory: file contents, how much of them is synced, the commit mark
(mode 0744, field `exec`), links, and the old files in order.  `mem` is what a kill loses.
`FinishSteps` is `finish()` with `filesfit()`, `Rotation` is `fullcurrent()`, one action
per system call, `Writing` is `c_write()` with its search for a line end near the size limit, `Doit` is `doit()`,
`flushread()` and `c_quit()`, `Restart` is `restart()`, one action per case of its
recovery.  `Kill` and `Outage` may come between any two steps; an outage cuts
every file to what was synced.  Operations on the directory are durable at once: the code
relies on that (it never syncs a directory).

Run *multilog*: six tokens of input and the newline that the program adds, three lines
of which one is longer than the line buffer; a file size of three so that every second line
rotates; two files kept; two crashes, so that recovery is itself interrupted; TERM or
ALRM once; a processor that fails once.  The states of both settings of `processor` are in one run.
`StopsAtNewline` has a counterexample, see section 5.  Fairness: multilog runs, and is started again after a crash
(supervise does so); calls that fail succeed in the end, as "pausing" and trying again needs.  Input need not come.

### 3.6 tcpserver (`TcpServer.tla`)

`pc` is the place in the loop of `main()`; `resume` is where the SIGCHLD handler
returns to, since the handler is a step sequence of its own that can only begin where the signal is
unblocked (`Unblocked`).  `Reap` is one turn of the handler's loop.  A child is `setup`
until `exec`.  `Inherited` are children that the process had before it became
tcpserver: the code has a line for them (`if (numchildren) --numchildren`).

Run *tcpserver*: three clients, a limit of two, four pids, one inherited child, one
failure.  Three clients are one more than the limit; four pids cover the limit, the inherited child
and one that would be too many.  Deadlock is not checked since tcpserver exits upon TERM and
its children then may all be gone.  Fairness: the parent is scheduled.

### 3.7 dnscache (`Dnscache.tla`)

`u` and `t` are the tables of UDP and of TCP clients, and a query number in
`active` means what it means in the code; `j` is the slot that the loops of
`doit()` are at.  `ustart` and `tstart` are the slots in the order of
their start times, which is all that `taia_less()` is asked.  `held` counts
descriptors and buffers, and `log` remembers what became of each query.

| Code | Definitions |
|---|---|
| the time stamp and `iopause()` | `Stamp`, `Poll` |
| the loop over `u[]` | `SkipUdp`, `EndUdp` |
| `u_new()`, `u_drop()`, `u_respond()` | `NoPacket`, `BadPacket`, `Packet`, with `Chosen`, `Room`, `Dropped` and `Answered` |
| the loop over `t[]`, `t_timeout()`, `t_respond()`, `t_close()`, `t_drop()` | `SkipTcp`, `QueryGoesOn`, `QueryFails`, `QueryAnswered`, with `Renew`, `Respond` and `Close` |
| `t_rw()` by state | `RwFails`, `Write`, `ReadHigh`, `ReadLow`, `ReadBody`, `ReadQuery` |
| `t_new()` | `NoConnection`, `BadConnection`, `Connection` |
| `query_get()` has a result; clients; the clock | `QueryReady`, `TcpQueryReady`; `Arrive`; `Expire` |

`query_start()` and `query_get()` return any of -1, 0 and 1: what they do is for `Query` and `DnsTransmit`.
`packetquery()` and `okclient()` are the choice between `Packet` and `BadPacket`.

Run *dnscache*: two UDP slots, so that there is an oldest and a newer one; one TCP slot, so
that each connection beyond the first meets a full table; two clients, two connections and three queries, one more
than the UDP slots.  A message over TCP is one or two bytes after its length, so that
it may come in two parts.  Fairness: dnscache is scheduled, a query that
has been started ends (that is `Returns` and `Ends` of `DnsTransmit`, and the counters in `query.c`), and ten seconds
pass; no client has to send or to read.

The invariant `TablesSound` is `QueriesTabled` and `NoLeak` together: an answer can
go astray through a slot used again as well as through a buffer freed too early.

### 3.8 The resolver (`Query.tla`)

`z[q]` is the `struct query` of client `q`: `level` and the arrays `name`, `control`, `ns`,
`alias` with the code's names, `addrs` for `server_addresses`, and `pc` for the label of `doit()` at which it goes on.  One call of
`doit()` is not interrupted (`running`), but calls for several clients follow each other in any order, and
they share the cache.

| Code | Definitions |
|---|---|
| `query_start()`, `query_get()`, `cleanup()` | `Start`, `Packet`, `NoAnswer`, `Idle`; `Reply` is what servers and dns_transmit do |
| `NEWNAME`, `LOWERLEVEL`, `HAVENSPARTIAL`, `HAVENSADDR` | actions of these names, `Lookup`, `Begin` |
| `HAVEPACKET`, to `save_records()` | `HAVEPACKET` with `Empty` and `Saved` |
| the second scan of the answers | `Follow`, one record a step, with `Controls` and `Within` |
| from "no such name" to `goto HAVENS` | `Judge` with `Referral`, `Lame`, `Negative`, `AnswerData`, `NsNames` |
| `SERVFAIL`, `NXDOMAIN`, `DIE`, `HAVENS`, `rqa()` | operators of these names, `Finish` |
| `cachegeneric()`, `save_records()` | `Cached`, `Stored`, `Saved`, `Bailiwick` |
| `handle_specials()`, `handle_specials_as_glue()`, the root servers | `Synthetic`, `SyntheticGlue`, `Local`, `RootOf` |

`MCQuery` has a world of servers in which what is hard occurs: two zones, each of which is served by a
name in the other; an alias that leads to itself, one out of its zone, and one for the name of a name server; a
lame server; a server that adds records about somebody else's zone to its answers and its glue; a
zone whose servers are in `servers/`.  What a client should be told is stated without any server: `Data` and `Exist` are the zones, `Hosts` their name servers,
`Loops` the names whose aliases do not end.  `Freed` is what a name that was freed may be read as, which
here is the root or nothing.  `WorldAssumption` says what it takes for answers to be true, and TLC checks that the world of
`MCQuery` satisfies it: the zones are consistent, and the servers of a zone are honest about it, whatever they say of others.

Run *query*: two clients, any two of twelve questions; three levels in place of five, two aliases in place of
sixteen, fourteen names and eleven packets in place of 300 and 100 (the circle of the two
zones is cut by the levels, and by the number of names); one thing is forgotten by the cache, one query
of dns_transmit fails.  `StackKept`: levels in use have a name, levels above have nothing left over from an earlier
look-up, and a query that waits has servers that are in charge of its name.  `AnswersTrue`: the cache holds only what the zones say, and a
client gets the truth or a failure, whatever the lying server has put into packets and whatever the
other client has put into the cache.  `SolidAnswered`: where all servers of a name (`Solid`) answer, the client gets
an answer and no failure; what a level has found reaches the loop over servers that asked for it.  `Ends`: each query ends.  Fairness: each client's `doit()` goes on, and
each query of dns_transmit ends (which is `Ends` of `DnsTransmit`).

### 3.9 Programs on their own (`MCPrograms.tla`)

These programs serve one client, or make one file, so that what they do depends on the order of
their input and not on other programs - except for the files that they read, which somebody else
replaces meanwhile.  Each module has its state in one record `s`, which is `s.prog` and that program's fields; a
behaviour of `MCPrograms` is one of one program.  Nobody has to go on with anything (a client may
close the connection at any point), so that there is no fairness and deadlock is not checked.

*Zone data.*  `ZoneData` is `tinydns-data.c` line by line (`SOALine` to `OtherLine`, with defaults, times, locations and what is
refused) and `find()` of `tdlookup.c` (`Sees`, `Left`); a sequence of records
stands for data.cdb here, whose order is the business of `Cdb` and its `Finds` alone.  `Tinydns` has the packet (`Receive`), the location
(`Loc`), the search of `doit()` for the name, its aliases and the wildcards above it
(`Follow`, `Wild`), authority and glue (`Authority`, `Additional`), and the truncation of
`server.c` (`Send`).  The administrator may replace the data between the question and the opening of the file.
`Answers` (in `NamesServed`) compares each answer with `Right`, which is a set of conditions on the lines, and no search.
Instance: some 430 questions to one primary with addresses that come, go and differ by location, wildcards, aliases into a
child zone, abroad and to themselves, a delegation with data below it, a second zone inside, a reverse
zone; three later versions of the data, one with an error in it.  `MAXLOOP` is 3 for 100 and `MAXADDR` 2 for 8.

*Zone transfer.*  `Transfer` has axfr-get's question for the serial (`Begin`, `Compare`), what it writes for each record
(`Line`, `Lines`) and its rename (`Rename`), axfrdns's messages (`SendSoa`, `SendRecord`, `SendLast`); either may fail in each step (`Fail`, `Die`),
the primary publishes other data in between (`Publish`), and axfr-get runs again.
`Transferred`: the file that is left holds, compiled again, the records of one version of
the zone as this secondary sees it, but for the numbers of SRV records, of which it says where they go (`Reread`):
tinydns-data reads the line that axfr-get writes in another order.  `NumbersKept` is the same without this exception, and does
not hold (section 5).  Instance: two runs, two changes of five versions, two
locations, two readings of the clock.  A message holds one record.

*walldns, rbldns.*  `Walldns` has the names of `respond()` in the order in which the code tries them (`Forward`, `Local`, `Unanswered`, `Nonexistent`);
`Double` is the second look-up, of the name that the first one gave.  IPv6
addresses have two bytes and a scope of one.  `Rbldns` has `Compile` for rbldns-data, with the widths that it leaves out, and `Listed` for the
loop over shorter and shorter prefixes; words of `WIDTH` 4 bits for 32, and 2 bits are given up for 24.  Each address is
asked for with each file.

*File servers.*  `Files` has the decoding of percent signs, names with dots, `file_open()` and its
permissions.  `Ftpd` is a session, one action per command (`Cwd`, `Cdup`, `Pasv`, `Epsv`, `Port`, `Rest`, `Type`,
`User`, `Pass`, `Rein`, `Vhost`, `Get`) and the data connection in its steps (`ConnectOut`, `Accept`, `Datawrite`, `Fetched`).  `Transfers`: what arrives is the
file, or the list, that was asked for, in the directory and with the offset and the type that the
client was promised, over the kind of connection it was promised, and 226 comes only after all of it.  Those promises are
kept apart from the program's variables, in `s.asked`.  Instance: four commands, two trees of files, a line buffer of
two characters for 1024.  `Httpd` and `Gopherd` answer two and three requests of one connection,
`Geminid` one; `Pages`, `Menus`, `Capsule`: each answer is that of its own request, from the files as they stood, below
the directory of its host.  The gophermap in `MCFiles` has more lines than any other file has
words, since TLC cannot compare a line with a word.

*cdb.*  `Cdb` has `cdb_make_add`, `cdb_make_finish` (with the split into tables and the linear
probing) and `cdb_find` as loops over slots (`Place`, `Find`, `FindNext`), positions modulo `MODULUS` (124 for 2^32), two tables for 256, up to five records; the writer may crash at
each step and the reader may open the file before or after the rename.  Hash values are chosen so that two
keys collide and a probe wraps.  `Finds`: the records of the key in the order in which
they were added, from one version of the file, and no other.

*Rules.*  `Rules` has tcprules with ranges and `=` names (`Keys`, `Entries`), the order of look-ups in `rules()` (`Names`), and what tcpserver and
tcprulescheck make of the result (`Taken`, `Shown`).  `Followed` compares with `Nearness` and `Means`, which say which rule
speaks about a client without saying how it is looked up.  A range ends at 3 in place of 255; all pairs of
twelve and six lines, four files with an error, all clients with three addresses, three names and
with or without a user.

*rblsmtpd.*  `Option` processes one option with its look-up, `Command` is one SMTP command.  `Judged`: the first list that
decides, decides, in the mode in force at its place on the command line.  Four options, two commands.

*Streams.*  `Copyio` has recordio and fixcrio with the poll, reads of at most three bytes for 256, the writes, and one side that closes first; `Copies`: each side gets
what the other wrote, once, in order, up to where it stopped reading, and the log has all of it.  `Dnsfilter` has the lines under look-up (`xmax` 3, `maxactive` 2, reads of three bytes for 1024); answers come in any order.  `Filters`: the lines
come out in the order in which they went in, each with the answer for its own address.

*ptyio.*  `Ptyio` has the loop with its four descriptors, ptyspawn as the child, the program, and a shell that stops and resumes the job from outside; buffers and the
pty hold two bytes, two stops.  `Attended`: what the program writes comes out in order, and
all of it as long as there is somebody to read it; the exit code is passed on; the stop of a program is still to be
reported, on its way or being answered; the terminal is in raw mode only while ptyio runs in the foreground.

*tcpclient.*  `Try` is one `connect()`, with its first and second timeout; `Connects`: every address is tried in its turn before any is tried again, only one whose time was
up is tried again, nothing is waited for but the times that `-T` gives, and the program runs with a
connection to the first address that accepted one, and with its name.
Up to three addresses, two pairs of timeouts, answers of five kinds of identification servers of which
three characters are taken for 256.

*Buffers.*  `Buffer` is a program that puts out what it gets, with any mixture of the calls: `Get` and `Copy`
on one side, `buffer_put`, `buffer_putalign`, `buffer_putflush` and `buffer_flush` on the other, each
followed by the partial writes of `allwrite()` (`Write`, `Next_write`); reads return what they like.  `Streams`: nothing is lost, doubled or
out of order, and no buffer holds more than its size.  Seven bytes, buffers of three and two, chunks of three for 8192.
`substdi.c` and `substdo.c` are the same code once more.

*tinydns-edit.*  `Edit` has two programs at once, each with its own temporary file, and an outage, which cuts off
what was not synced; the renaming itself is on the disk at once.  `Edited`: data is whole at any time, tinydns-data accepts it, and no `=` line repeats a name or an IPv4 address, nor
a server a letter.  That both lines are there in the end (`NoneLost`) is not so: the second to
rename replaces what the first has done.  Six lines, additions of five kinds, two letters for 26.
Two programs that are given one temporary file are not modelled.

*dnstrace.*  `Dnstrace` has the three tables and the list that is their join, with the four functions that add to them, and `parsepacket()`.
`Traced` compares the list with the join, which it states as a set: whichever entry came last, every query is put to every address
of every server of a zone above it, once; and nothing is believed of a lame server or from outside the zone.
Two zones that name each other's servers, a lame server, one that is its own address, two failures.  Packets that cannot be parsed count as failures.

*The client library.*  `Stub` has dnsipq on top of `dns_ip_qualify()`: the rules (`RulesOf`, `Rewritten`, `Candidates`), the servers
of each group (`Servers`, `find_group`), what is kept of them and for how long (`Used`), the look-ups for AAAA and A and the special names
(`handle_specials`, without reverse look-ups and without the numbers below localhost).  Meanwhile the files are edited.
`Resolved` says what a name stands for without rules (`Means`), and compares.  Groups 1 and 2 of five are like group 3 and left out;
a reading lasts for its own second, and three uses for 10000.

Run *programs* checks all of them: `NamesServed`, `FilesServed`, `ClientsJudged`, `StreamsKept` (`ptyio` among the streams) and `Connected` are
the conjunctions, over the programs, of what was said above.

## 4. What is proved

| Module | Theorems | Assumptions |
|---|---|---|
| `SuperviseProofs` | `TypeCorrect`, `OneChild`, `NoLostWakeup`, `StatusIsFresh`, `PausedIsStopped`, `DownIsTermed`, `FlagsAreTrue`, `ExitIsFinal` | any pids, any command lines, any bounds |
| `SvscanProofs` | `TypesKept`, `ChildrenAreTabled`, `PipesAreKept`, `PresentStay` | any directories, inodes, pids and pipes, any size of the table, any failures; for `PresentStay`, that `stat()` of a directory that is there succeeds |
| `CacheRingProofs` | `InductiveInvariant`, `MemoryIsSound`, `RingIsFifo` | any size of the ring and of the hash table, any hash, lengths, times and `MAXTTL`; of `xor` only its algebra (`XorAssumption`) |
| `DnsTransmitProofs` | `TypeCorrect`, `NothingLeaks`, `ResultsHold`, `CallsAreSound`, `TimeoutsAreLate`, `AllHaveTheirTurn` | any number of servers, any lengths and bounds |
| `MultilogProofs` | `InductiveInvariant`, `NothingIsLost`, `LogIsInOrder`, `OldFilesAreSound`, `EverythingIsHandedOn` | any input, any sizes of files and buffers, any number of old files, with and without a processor, any crashes, signals and failures |
| `TcpServerProofs` | `TypeCorrect`, `LimitHolds`, `CountIsKept` | any limit, any clients, finitely many pids, any of them inherited |
| `DnscacheProofs` | `TablesAreSound`, `OldestDropped` | any clients and connections, any sizes of the tables, any number of queries |
| `QueryProofs` | `InductiveInvariant`, `StackIsKept`, `TruthIsInvariant`, `AnswersAreTrue` | any tree of names, any servers, any packets that can be parsed, any questions, any sizes of the tables, any bounds; no file in `servers/` has more addresses than the table of a level; for the last two also `WorldAssumption`: any consistent zones whose own servers are honest about them |

Each module has one inductive invariant `IInv`, which is a conjunction of named parts.
`FlagsAreTrue`, `CallsAreSound` and `CountIsKept` put the theorems before them together into the
invariants that the runs check: `FlagsTrue`, `CallsSound` and `CountHolds`.

*Supervise.*  `PidTracksChild` alone is not inductive: that a fork
makes no second child needs `pid = NoPid` at every place `trystart()` is called
from, which is `PlaceInv`; it holds there because of what
the loop has tested on the way.  `WakeupPending` speaks only of
the poll; `WakeInv` says the same of the whole loop except between the drain of the
self-pipe and the last `wait_nohang()`.  `FreshInv` extends `StatusFresh` to the
moment between the first `announce()` and the opening of `ok`.  `ExitIsFinal` is an action
property and follows from `PlaceInv` step by step.

*Svscan.*  `start()` fills an entry in up to three assignments, each of which leaves a table that the next one looks
at.  `Sound` is therefore stated of any table, any children and any pipes, and there is a lemma for each
assignment; `Start` is their composition.  `PresentStay` is an action property with a memory of its own: `ScanInv` says that an
inode that stayed in place since `opendir()` is either still to come from `readdir()` or has its entry marked active.

*CacheRing.*  What the code keeps in bytes and exclusive ors, the invariant keeps as a sequence of positions with their sizes and
buckets.  `Spans` cuts the sequence in two, the entries from `oldest` to `unused` and those from the beginning to `writer`, each
with no gap; `Linkage` says that the link of an entry is the xor of its `Neighbours` in its bucket.
Two operations change a sequence, one drops its first entry and one adds a last: the lemmas say what they
do to `Spans` and `Linkage`, and the four ways through `cache_set()` follow.  `Walk` holds along the chain of a lookup,
`Lost` bounds what lies idle at the end of the ring, `Dates` relates expiry and the clock.
`RingIsFifo` is the refinement: each step of `cache.c` is a step of `CacheFifo` or none.
The memory is where the hazard lies: that a link is followed only to a place where a link is stored (`MemoryIsSound`) is proved for
every size of the ring, where TLC has one.

*DnsTransmit.*  `Inside` says what the loops hold at their top, `Stamped` relates the time stamp,
the deadline and what `poll()` saw: a stamp past the deadline was taken when the deadline was over, so that
a packet that `poll()` missed came later.  `NoAnswerLost` is a consequence for one step.  `EachOnce` speaks of the history of
tries, and the loops know nothing of a history: `Turns` (`UdpTurns`, `TcpTurns`) says which servers have had which tries when `udploop`, `curserver` and
`pos` have given values, and that is inductive.

*Multilog.*  The invariant has ten parts, and each speaks of what one half of the program relies on: `Types` and `Control` of the places in the program, `Layout` of the
files that are there at each place of `finish()`, `fullcurrent()` and `restart()`, `OldOnes` of the old files and their
number, `Buffers` and `Pipe` of `inbuf`, the line buffer and the descriptors, `Ordered` and `Bounds` of the order of what lies where, `Fates` of what became of
each token, `States` of the processor's state.  Tokens are numbered as they are read, so that order is a relation between sets of
numbers (one lies `Below` another), which needs no induction over files.  A crash is a step like any other: `Layout` is
strong enough that `restart()` finds nothing that it does not expect.  `HandedOn` needs `Attended` in addition.

*TcpServer.*  `Counted` is the heart: children, and the one that `Block` counted but `Fork` has not made yet,
are no more than `numchildren` and the inherited ones.  It is an inequality because an inherited child that
exits takes one off the count.  `Room` carries the result of the test `numchildren < limit`
through the handler to the moment of `Block`; `OwedCounted` makes the decrement after a failed `fork()` safe.

*Dnscache.*  Three ledgers (`ULedger`, `TLedger`, `QLedger`) relate the counters `uactive`, `tactive` and the number of open queries to the
slots that are in use, `Order` and `UOrdered` the start times to the order in which slots were taken.  The ledgers are stated of any table, and one lemma per
change of a slot serves all actions that make this change.  `OldestDropped` needs the order: the slot that is given up
when all are taken has the least time, since no other was taken before it.

*Query.*  `StackKept` speaks of what waits; the invariant has to speak of every label.  `Stack` says in addition that each level but the last has
servers in charge of its name, since that is where a level that ends goes on, and `Place` what the last level has at each label: from
`HAVENSADDR` to the end of `HAVEPACKET` no name of a server is left to be tried.  `control` points into a name that is freed when an alias is followed, and may
then be anything (`Controls`); what makes this harmless is in `Place`: the loop over servers has a control in charge of the name or no
server at all, because `Judge` has checked the referral against the name that is there, and everything else leads to `NEWNAME` or down a level.
`CacheOK` says that the cache never holds NS records, so that the servers come from `servers/` or from a referral;
that the aliases and addresses in it are names and addresses is proved of `save_records()` for any packet.

`AnswersTrue` speaks of the cache and of the last response, which are written at the end of a long way, and the second invariant `TInv` has to
say what is known on it.  `SetsKnown` is the truth of the cache.  `Known` is what a query holds between packets: `Chain`, that each name
in its list of aliases is an alias of the one before, and `Sought`, that each level below the last is `Serving` a zone - the
addresses and servers it has left are those of the zone in its control - and the next level looks for one of them; so an address that comes
back down a level belongs to a server of the zone.  `Trust` adds what holds at each label, most of it about the packet:
while the answers are scanned, `Spoken` says that the packet was an honest answer about some name, and that its aliases lead from there to
the name of the level as far as they have been read.  `save_records()` then only caches what lies under the control, and these sets are
complete because a server is honest about its zone.

`WorldAssumption` is as weak as the code allows.  Of the zone it serves, a server gives complete sets of records, true aliases, negative answers
that are true of the end of the aliases, and referrals to servers of the zone below; of everything else it may say what it likes.  One
conjunct would not be there if the code were different: where levels above the first are concerned, `control` may point into
a name that has been freed (`Controls`), and whatever that memory is read as (`Freed`) is then a zone for which the server is believed.  The theorem holds
for answers to look-ups of servers that do not lie about such a zone either.  `StackIsKept` does not need any of this.

Only model-checked are: all liveness properties, among them those of `Supervise`, `Svscan`, `CacheRing`, `DnsTransmit`, `Multilog`,
`TcpServer`, `Dnscache` and `Query`, and `ENABLED`, on which weak fairness rests, since the prover has no rule for them; `SolidAnswered` of `Query`, which is about
servers that answer, and names for which no bound of the code is reached: `Solid` lists them for the one world of `MCQuery`; everything about the programs
of section 3.9, whose properties compare with reference definitions and would need induction over their data.
The library's induction theorems take an operator as a parameter and cannot be used with the
provers at hand; where a greatest or least element is needed, the proofs take it from `WFMin`, which is stated of a set.

## 5. Where code and documentation differ

Five instances are counterexamples to a sentence in the repository.  One is a run, the others are made from a `.cfg` as said; `PROJECT.json` quotes the sentences.

- `MCSuperviseLive.cfg` with `MaxForkFails = 1`: one failed `fork()` leaves a service down although it is wanted up;
  supervise.c:98 only wakes the loop, and the loop starts nothing without a child that exits (`Restarts`).
- Run *transmit_pos*: when `connect()` succeeds at once, `pos` keeps its old value and the query is
  sent from there, against the comment on `tcpstate` 2 (`SentAsSaid`).
- `MCSvscanLive.cfg` with `PROPERTY EveryLogSupervised`, `Names = {a}`, `Inodes = {i1}` and `MaxFails = 0`: `flaglog` is set only when the entry is new (svscan.c:51-70).  A log that is made after the first
  scan of its directory, be it that the scan comes between the two calls of `mkdir`, or one in a directory with the inode of one without a log that is not
  yet forgotten, gets no supervise, against svscan.xml:38-39 (`EveryLogSupervised`).
- `Multilog.cfg` with `SPECIFICATION Spec`, `PROPERTY StopsAtNewline`, `Input = 7`, `Processors = {FALSE}`, `MaxCrashes = 0`,
  `MaxSignals = 1` and `MaxFails = 0`: TERM that comes between the test of the flag and `read()` does not stop
  `multilog` at the next newline (`StopsAtNewline`).
- `MCQuery.cfg` with `SPECIFICATION Spec`, `PROPERTY TriesNext`, `Servers <- FwdServers`, `Packets <- FwdPackets`, `Asked <- FwdAsked`, `flagforwardonly = TRUE`,
  `Clients = {q1}`, `MaxQueries = 1` and no failures or forgetting (`MaxFails = 0`, `MaxForgets = 0`): with `FORWARDONLY`, a lame answer of the first proxy drops the list of the others, against
  the comment at query.c:1452 (`TriesNext`).

Invariants in `MCPrograms` state what the documentation says and do not hold when they are put in its
`.cfg`; `PROJECT.json` quotes the sentences of all but the last:

- `MapsBack`, `HostNamed` and `ColonOnly`: the first of the items on walldns, tcpclient and dnsfilter below.
- `AddressOnce`: tinydns-edit does not find an IPv6 address in data, where it is written with "_" (tinydns-edit.c:200).
- `OwnLine`: dnsipq prints, with an argument that is an address, the addresses of the argument before (dns_ipq.c:86).
- `OnionKept`: names of onion are asked of the loopback addresses, since the test for no servers (dns_resolve.c:63) never succeeds.
- `GroupsKept`: of the directives in resolv.conf only that of the first group without servers is found
  (dns_rcip.c:129).  They are also called otherwise than in the manual (dns_rcip.c:39-45, djbdns-client.xml:176-189).
- `NumbersKept`: axfr-get writes the numbers of a SRV record in another order (axfr-get.c:210-214) than tinydns-data reads
  them (tinydns-data.c:460-468), so that the secondary has other records than the primary.
- `NoneLost`: of two runs of tinydns-edit that overlap, one is lost ("atomically modifies", tinydns-edit.xml:39).

What else the code does and a reader of the manuals would not expect.  The models do as the code
does.

- walldns: the PTR record of 127.a.b.c is c.b.a.127.localhost, whose address is always 127.0.0.1 (walldns.c:128;
  the manual promises that names map back).  `mem_reverse(ip6, sizeof ip6)` reverses 20 bytes of which 16
  are set, so that AAAA answers are wrong (walldns.c:114).  Labels with leading zeros are refused.
- rbldns-data stores a whole `struct ip_address` (rbldns-data.c:87), of which rbldns takes the first four bytes (rbldns.c:80):
  the A record and the text come from the wrong place.
- axfr-get refuses NS records of wildcards (axfr-get.c:181).  A missing port in an S line is reported as "out of memory".  Two runs of
  tinydns-data at once share `data.cdb.tmp`.
- tinydns: all additional addresses get the time of the last one (tdlookup.c:186); a `:` line whose data
  hold no name, where one belongs, silences its owner; a query for a name outside is not answered, where the manual says "rejects".
- query: NS records of an answer are not cached (query.c:619-639); an alias chain in the cache is followed without counting (query.c:793).  Names and packets are counted by the one `loop`, and packets are compared with `== 100` (query.c:1214): once
  more than 100 names have been looked up, packets no longer end the query, only the 300 of query.c:748 do.
- httpd: without a host the directory is that of TCPLOCALHOST, not `0` (httpd.c:216); the refusals 414 and
  426 after a HEAD announce a body and send none (httpd.c:86, 255).
- ftpd: the first host is not put in lower case (ftpd.c:512); the offset of REST outlives a failed RETR and counts for lists too; REIN leaves EPSV ALL in force;
  HOST keeps the directory; CDUP after `CWD a/` stays in `a`; the address of an old PORT is used again after a failed passive accept.
- geminid: a trailing slash is redirected without the port.  gopherd: menus end with a period, and a last line without newline is left out.
- recordio and fixcrio: when the program no longer reads, its output is no longer copied either.
- tcpclient: `-T x` without `+y` leaves the second timeout at 58 (tcpclient.c:110-118); the host variables are set to the empty
  string where there is no name (tcpclient.c:234-238; tcp-environ.xml:65); a failed `socket()` for one address family ends it.
- dnsfilter: an answer that cannot be parsed gets an equals sign and a text (dnsfilter.c:145-148).
- tcprules: an IPv6 address cannot be written in a rule, since its colons end it (tcprules.c:130).
- ptyio sends SIGPIPE to ptyspawn, which ignores it (ptyspawn.c:55): after an error on output a program that fills the pty blocks for good.

Known and without a run of its own: in dnscache the timeout of a TCP client is not renewed when its query
ends because of a timeout of its own, so that an answer the client cannot take at once may be cut off.

And a bound that is as the code means it but not as the manual says: `tcpserver` started with children
of its own serves up to that many connections more than the limit (`WithinLimit`).

## 6. What is not modelled

Parts that the plan still has are listed in section 2; `PROJECT.json` gives the reason for each component.
Left out for good: programs that change the conditions of one process and execute another
(setlock, softlimit, envdir, ...), generators of configuration files, filters of text, pickdns (its
`respond()` has other parameters than server.h declares, and the changelog says that it left), and the leaf
functions over bytes.  Within the modelled components: the text of messages, the time stamp in the status file,
the byte contents of keys and packets, compression of names, the sizes and times of what query caches, the selection of lines and time stamps in multilog; files that are
changed in place and not replaced; dates and media types in headers, negotiation of telnet options; writes in the copy loops that block half way;
the hangup of a pty when its session leader exits, window sizes and the ways to get a pty; mconnect-io.

What can go wrong and no property covers: the name of a service is renamed between the `fork()` of svscan and the `chdir()` of supervise
(svscan.c:102), which then runs in the wrong directory; the directory of a log is removed while its supervise is in it; svscan is killed (svscan.c:29), its table is lost and its
children are orphans on old pipes; `stat()` of a present directory fails for a moment (svscan.c:43), which
counts as its absence.  In these the code promises nothing.

Abstractions to keep in mind: `fork()`, `pipe()`, `stat()` fail a bounded number of
times per behaviour; a write to a file is atomic per call; memory exhaustion is modelled where the code
answers it by leaving a structure behind (`DnsTransmit`), not where it pauses and tries again.
