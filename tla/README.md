# TLA+ models of log2BGP

log2BGP is a BGP daemon (`bgpd`) that listens to its neighbours, keeps the
routes they announce in an Adj-RIB-In, keeps the routes that were replaced in
an event database, and answers questions about both over a CLI and a TCP API.
It never announces routes itself. This directory holds TLA+ models of its
parts, TLC configurations that check them on small instances, and proofs
checked by TLAPS. Paths below are relative to the repository root.

## The system

| Component | State | Operations | Interacts with |
|---|---|---|---|
| Neighbour thread, one per neighbour (`src/bgp.cpp`, `src/bgp_open.cpp`) | `bgp_peer`: state, `bgp_id`, `in_queue`, `in_q`, hold time | `init_peer`, `init_peer_states`, `peer_established`, `decode_open`, flush and drain at the end of a session | pushes UPDATEs on `in_queue`; erases from the RIB; shares its streams with the main thread |
| Main thread (`init_BGP`, `src/bgp_update.cpp`) | position in `thread_q`, `adj_rib_in_q`, `adj_rib_in_wdraw_q` | `hold_timer_expired`, `proc_in_q`, `proc_adj_rib_in_queue`, `proc_adj_rib_wdraw_queue` | pops `in_queue`; closes streams of silent neighbours; writes the RIB |
| Adj-RIB-In | map [prefix, bgp_id] to attributes, under `adj_rib_in_mutex` | `peer_entry`, `withdraw`, `flush_peer` | read by CLI and API |
| TCP client (`src/tcp_client.cpp`) | socket, `rx`, `tx` | `connect`, `disconnect`, `connected`, `read`, `write` | used by two threads without a lock of its own |
| Thread manager (`src/bgp_thread-mgr.cpp`) | `thread_q` | `start_peer`, `delete_peer`, lookups | CLI threads add, neighbour threads erase, main iterates |
| Event database (`src/bgp_database.cpp`) | one `fstream`, `index_map` | `db_insert`, `db_get_entries` | main inserts under the RIB lock; CLI and API query |
| UPDATE codec (`src/bgp_update.cpp`) | none | attribute loop of `proc_in_q`, `parse_nlri`, `parse_as_path`, `parse_as4_path`, `parse_community`, `get_ipv4_high_range` | main thread, from the bytes of `in_queue` to the RIB queues |
| OPEN codec and message sender (`src/bgp_open.cpp`, `src/bgp_send.cpp`) | hold time, keepalive interval, time stamps | `decode_open`, `send_packet` | main and neighbour thread write to one stream |
| Command parser (`cli/bgp_cmdparser.cpp`) | command tree, static `current_token` | `CmdInit`, `FindCommand`, `ExecuteLine` | every CLI and API connection, each in its thread |
| CLI and API (`cli/bgp_cli.cpp`, `api/bgp_api.cpp`) | the configuration of the neighbours, `bgp_id`, `dumper` | configuration commands, `write_configs`, show commands, the `api_get_...` searches | read the RIB under its lock, `thread_q` without one |
| TCP server (`src/tcp_server.cpp`) | a port each for CLI and API, descriptors | `bind`, `listen`, `accept`, the loops of the two ports | one thread per connection |
| Aliases (`src/bgp_peer.cpp`, `src/bgp_attrib_alias.cpp`) | a list per neighbour | `set_translation`, `translate_...` | set by the CLI, read by CLI, API and syslog dumper |
| Syslog dumper (`src/bgp_syslog.cpp`) | destinations by `bgp_id` | `set_peer_logging`, `translate_and_dump_update` | main thread sends, CLI configures |
| Instance lock (`src/bgp_main.cpp`) | record lock on `/tmp/bgp_lock` | `another_instance`, `daemon` | other runs of the program |

What is hard here: the neighbour threads and the main thread share streams,
queues, state and the RIB, partly without locks; a session can end at any
point of the main thread's work on it; stopping the daemon destroys objects
that other threads use; the database file has one position for all users; all
connections share one parser token and one table of descriptor numbers, each
closed three times; a session stays up only if two threads that know different
hold times speak often enough on one stream; lengths and counts come as bytes.
`PROJECT.json` lists the hazards by line, with the properties aimed at them.

## Modules

- `Bgpd` models the neighbour threads and the main thread. A region under a
  mutex is one action; an unlocked test and the use after it are two (the
  main thread's `empty()`, `front()` and `pop()` are `QueueMore`, `Front` and
  `Pop`; `disconnect()` in the main thread is `HoldDisconnect` and
  `HoldClose`, because `fclose(rx)` waits for the lock `fread()` holds).
  `pc[p]` is the place of a neighbour's thread, `mpc` that of the main thread;
  the other variables keep the names of the code. `conn` stands for the socket
  and the two streams. Undefined behaviour (`front()` of an empty queue, a
  null neighbour, a stream used after it is closed or closed twice, an erased
  `thread_q` element) sets `fault` and ends the behaviour.
- `AdjRibIn` is what the RIB promises: a table keyed by prefix and identifier
  that changes one key at a time and only has routes of neighbours that
  completed an OPEN. `Bgpd` implements it (`ImplementsAdjRibIn`).
- `BgpdOrder` adds two history variables to `Bgpd`: the RIB the UPDATEs ask
  for in the order they were parsed, and the keys that were announced while a
  withdrawal of theirs was queued, be it one of the same message.
- `EventDatabase` models the database file cell by cell: markers, lengths and
  values, read back by the loop of `db_get_entries`, so that a record written
  over another is read as the code would read it. A marker takes two cells, so
  a reader at the wrong place can miss one. When the reader meets the end of
  the file the stream fails, `tellp()` is -1 and inserts are lost until the
  next query clears it; a query for a record at -1 never ends, and neither does
  one that meets the end of the file inside a value.
- `UpdateCodec` has the parser of an UPDATE as operators on a sequence of
  bytes: the loop over attribute headers, each attribute by its code, and
  `parse_nlri`. A read behind the end finds 0, as in the zeroed buffer of the
  code. A length is copied as it is read: a header whose length does not fit its
  attribute (`Overruns`) writes over other memory. A path has any number of
  segments, of which the parsers keep the first. `Encode` is the neighbour's encoder after RFC 4271 and 4893: external,
  and the reference the parser is held against.
- `RouteTable` extends it to the way of a route from the bytes through the
  queues to the RIB, with the code's key (prefix and identifier, no length),
  the prefix count and its unlocked decrement, the flush at the end of a
  session and the searches of CLI and API. `advertised` is the table a speaker
  after RFC 4271 would have; `odd` records the events the code's table is known
  not to survive (below). A search that ends well changes nothing, so searches
  are operators; those that use a null pointer or read behind the end of a table
  are actions that set `fault` and end the behaviour, as are a copy of the parser
  that overruns its object and a log line with the text of an unknown ORIGIN.
  The searches look at the table only: earlier entries of a prefix, which two of
  them add from the event database, are not in this module.
- `HoldTimer` models one session under a clock of seconds, as ages of the time
  stamps: `decode_open`, `hold_timer_expired`, and `send_packet` as the three
  pieces of a message, written by two threads. The neighbour is external and
  follows RFC 4271. The neighbour's thread reads and answers a message within the
  second; the main thread may be held up anywhere for any time, between two
  visits (the comment at `src/bgp.cpp:536` speaks of 78 seconds of one round) and
  between two pieces of a message, which may so end up in the stream of the next
  session (`leftover`), as may the end of an expiry: the state is set and the
  connection closed whichever session it is by then.
- `CommandTree` has the tree as `CmdInit` leaves it, in the order the search
  goes through, and the steps of `FindCommand`: a token matches a name it
  begins, and `<...>` anything.
- `NeighborTable` has the configuration as a value and every command as an
  operator on it: neighbours, aliases, buffers, log destinations, what the
  views print of an entry, and `write_configs` with the reader of what it
  wrote (`Replay`). Texts are tokens; `Numeral` and `Address` say what
  `stoi`, `inet_aton` and the like make of them.
- `Console` composes these two with the process: instances that take the lock,
  the ports and descriptors, connections that read a line, walk the shared
  token, run the command and answer. `aliased` and `logged` record what was
  asked for, `stolen` that a second close hit a descriptor in use again,
  `left` the sockets of API clients that hung up without a line.
- `MCBgpd`, `MCBgpdOrder`, `MCEventDatabase`, `MCRouteTable`, `MCHoldTimer` and
  `MCConsole` give constants their values.
- `BgpdProofs`, `BgpdOrderProofs`, `HoldTimerProofs`, `EventDatabaseProofs`,
  `RouteTableProofs`, `ConsoleProofs` and `ConfigProofs` hold the theorems (the
  last two about `Console`: its threads, and its configuration), `Induction` the
  two lemmas by which they reason about recursive functions.

The operators whose comment begins with "Mutant of" are wrong versions of the
definition that follows. They are not part of the specifications: putting one
in the place of its original makes TLC report the property it was written for.

Left out of `Bgpd`: most statistics (the prefix count is in `RouteTable`), the
contents of messages (`RouteTable`), the messages sent and the seconds
(`HoldTimer`; here time is `silent`: the hold time has passed since the last
header), the copy of a replaced route to the database (`EventDatabase`),
SIGPIPE, the reuse of a descriptor number that `disconnect()` closes twice
(`Console` has it for the server's sockets), neighbours configured while the
daemon runs (`Console`).

## Runs

| Run | Instance | Checks |
|---|---|---|
| `bgpd_one_peer` | one neighbour, 2 UPDATEs (announce, withdraw, both in one), all rare events | `TypeOK`; `OwnedRoutes`: routes and queued items carry the identifier of a neighbour that sent an OPEN; `WithdrawFindsPeer`: `withdraw()` meets no null pointer before a stop; `InQCoversQueue`: the depth shown is never below the queue; `KillEndsProcess`: a stop ends the process; `EofReconnects`: a thread that reads end of file connects again; `QueueServed`: the main thread gets to the UPDATEs of an established neighbour |
| `bgpd_two_peers` | two neighbours, 2 UPDATEs (announce, withdraw), no rare events | `SessionStartsEmpty`: no UPDATE is left for the next session; `RouteRemovalIsOwned`: a route goes by its own neighbour's withdrawal or flush; `ImplementsAdjRibIn` |
| `order_unless_flipped` | one neighbour, 3 UPDATEs of 4 kinds: announced with either of two attribute values, withdrawn, both | `LatestUpdateWinsUnlessFlipped` |
| `database` | two keys, 5 inserts, 2 records per key, paths of length 0 to 2 | `TypeOK`, `IntactBelowRewind`, `NewestIntact`, `SpinsOnlyAfterOverwrite` |
| `routes` | two neighbours, 3 messages of 9 kinds that take every path of the parser; addresses at both ends of every range | see below |
| `timers` | a byte of 6 values, own hold time 5 s, hold times of 0, 3, 5, 7 and 11 s on both sides of a byte and of our own, ages to 6 s | see below |
| `console` | two instances, two connections at a time, 3 clients, 2 lines of 20 kinds, 2 descriptors; neighbours with and without an OPEN and aliases | see below |

`routes`. `TableFollowsNeighbors`: once the queues are empty the RIB has exactly
the routes advertised; `AttributesAreTheLatest`: with the attributes of the last
message about them. Both say nothing after a default route in a list (a length
of 0 ends it), a message that withdraws and announces (the announcements are
lost), two routes that differ in length only (one key), an announcement parsed
while a withdrawal of its prefix waits (the order is lost, as in `order_lost`),
or a session that ends with messages queued (as in `bgpd_stale`); and attributes
sent with extended lengths are misread. Of a path with several segments the
first is compared (`Kept`), which is all the code keeps. `SearchFindsCoveringRoutes`: a search by
address finds the covering routes and no others, at every edge.
`CountMatchesUnlessRaced`: the prefix count is the number of routes unless the
flush and the main thread were in it together. `PrivateListIsPrivate`: the
public and the private list of an AS divide its routes, by whether all addresses
are private, except for a route larger than the private block it begins.
`FaultsOnlyOnOddMessages`: the parser overruns memory, and a search by origin
takes the last of no AS numbers, only after extended lengths; `show bgp
adj-rib-in` follows a null path only for a route with an empty AS_PATH; an
ORIGIN above 2 breaks whatever prints it, and an AS4_AGGREGATOR without
AGGREGATOR the JSON of an entry. One of the messages with extended lengths has
headers that lead the loop to a NEXT_HOP of 232 bytes.

`timers`. `LiveNeighborIsKept`: a neighbour on time is not dropped, if its hold
time is not 0 and less than a byte's values (the code adds the two bytes), and
no expiry of an earlier session was still being sent; `NeighborHearsFromUs`: nor
does it drop us, whatever its hold time, unless the main thread is `late`: a
KEEPALIVE that fell due right after its last visit would now come at the end of
the session's hold time, or later; or messages ran into each other.
`SilenceIsNoticed`: a silent neighbour is met by the first visit of the main
thread after the decoded hold time (whether it is then dropped is the subject of
`bgpd_hold`). `StreamGarbledOnlyIfCrossed`: the stream makes sense unless one
thread began a message while the other was inside `send_packet`, in this session
or left over from the one before.

`console`. `LineRunsItsOwnCommand`, unless another connection was inside
`FindCommand`; `OneAliasPerValue`; `AliasReachesEveryView`: the last alias set
shows in CLI, API and log, if the first neighbour of the table has one too and
the session has had its OPEN; `LogsGoWhereConfigured`, if the host is an address
other than 0.0.0.0 and was set after the OPEN, and to a port of two equal bytes, since the port is
swapped once too often; `SavedConfigReplays`: what `write` saves makes the same
configuration, the aliases of a neighbour as a set, if all are of a saved kind, of
bgp-id at most one, and no neighbour is twice in the table; `AnswerReachesAsker`, unless
a descriptor was stolen; `DescriptorsAreReturned`: a socket is open only while a
connection is in progress on its descriptor, but for API clients that hang up
first; `OneInstanceServes`: although the lock is lost at `daemon()`, the
ports keep two instances apart.

Bounds. Two neighbours are enough for one to disturb another; the main thread
visits them in order, so a third adds no new kind of interference. Two UPDATEs
are enough for one to be in the main thread's hands while another is queued or
belongs to a new session; sessions are not bounded. The rare events, a silent
neighbour among them, are left to the run with one neighbour: they concern a
neighbour and the main thread. Three UPDATEs are needed
for a route to be announced, withdrawn and announced again. Five inserts over
two keys let an overwritten record be overwritten again and be read through.
In `routes` three messages let a route be announced, replaced and withdrawn, or
flushed and announced anew, while the second neighbour holds the same prefix. In
`timers` a byte of 6 and a hold time of 5 keep the order of 256 and 180: 7 s is
decoded as 2 and 11 s as 6, less and more than the session's hold time; ages to 6
reach the hold time of every session (at most 5) and every decoded one.
In `console` an answer goes astray only with a third client, which gets the
number a first thread closes again while a second one uses it; two lines are
enough because the initial table already has neighbours and aliases. `Conn` and
`Instance` are symmetric: no definition tells their members apart. The runs of
starting instances have no clients, and those with clients start with one
instance that serves and others that wait for its ports.
Deadlock is checked in `timers` only: elsewhere the process may end, a spinning
query stops the database for good, and messages, lines and clients run out.

Fairness. `FairSpec` assumes that the operating system runs every thread that
can run (the code polls its locks with `try_lock`). It assumes nothing of the
neighbours. `LiveRemoteSpec` adds that a neighbour sends or closes from time to
time, that a thread waiting for a stream lock gets it if it is released again
and again, and that allocations do not always fail. Nothing is claimed of how
long a round of the main thread takes: `proc_in_q` (`src/bgp_update.cpp:56`)
serves one neighbour until its queue is empty, which a neighbour that keeps
sending can put off for ever; that the main thread returns to the top of its loop
would hold here only because UPDATEs are bounded.

### Where the code and its comments disagree

- `bgpd_stale`: after "flush ALL learned routes from peer" (`src/bgp.cpp:390`)
  routes parsed before the flush enter the RIB and stay there.
- `bgpd_pop`: between the copy of the front and the pop the queue may have
  been drained, and refilled by a new session (`src/bgp_update.cpp:24`).
- `bgpd_hold`: a silent neighbour is not dropped under `FairSpec`: the main
  thread waits in `fclose(rx)` (`src/bgp.cpp:428`, `437`).
- `order_lost`: a prefix withdrawn and announced again in one round is lost
  (`src/bgp.cpp:96-97`), although the API "returns all current info on prefix"
  (`include/bgp.h:70`).
- `database_history`: records are overwritten after a query, long before the
  limit of `README.md:26` (`src/bgp_database.cpp:99`).

### Further observations

These follow from the models and stand as the exceptions of the properties
above; they have no run of their own.

- Extended lengths make `parse_as_path` build a path of no values, which
  `api_get_..._origin_as` reads at index 255 (`api/bgp_api.cpp:185`), and may lead
  the loop to a length that a copy does not check
  (`src/bgp_update.cpp:130`, `182`, `259`, `305`); an empty AS_PATH leaves a null
  pointer that `show bgp adj-rib-in` follows (`cli/bgp_cli.cpp:649`).
- Only the first segment of a path is read (`src/bgp_update.cpp:354`).
- The text of an ORIGIN is looked up in a table of three by any byte
  (`include/bgp_msg_text.h:85`).
- The RIB key has no length (`include/bgp_adj_rib.h:28`), a length byte of 0
  ends a list (`src/bgp_update.cpp:408`).
- The API prints the AS of `aggregator` for `as4_aggregator`, also if there is no
  `aggregator` (`api/bgp_api.cpp:307`).
- `hold_timer_expired` sets the state and disconnects after it has sent the
  NOTIFICATION; a session that began meanwhile is dropped (`src/bgp.cpp:434-437`).
- `std::sort` may change the order of a neighbour's aliases of one code
  (`src/bgp_peer.cpp:100`): saved and read again they may come in another order.
- The hold time is the sum of its bytes (`src/bgp_open.cpp:92`), and a hold time
  of 0 expires at once.
- `FindCommand` may run the command of another connection, or follow a null
  token (`cli/bgp_cmdparser.cpp:129`).
- A connection's descriptor is closed three times (`src/tcp_server.cpp:234`),
  and never when an API client sends nothing (`323`).
- Aliases are shown only if the first neighbour has one
  (`src/bgp_thread-mgr.cpp:139`); one for the bgp-id set before the OPEN hides a
  later one. Kinds of aliases that are not saved leave half a line, which the
  next is glued to (`cli/bgp_cli.cpp:481`).
- Log destinations are keyed by an identifier that is 0 before the OPEN, and a
  host that is no address becomes 0.0.0.0.
- The copy of a configured neighbour has no `ipv4`, so that a duplicate is never
  found (`src/bgp_peer.cpp:48`).

## Proofs

### The daemon's threads

All theorems of `Bgpd` hold for every number of neighbours, every set of prefixes,
attributes and UPDATEs, and every set of rare events. Assumptions: `N` is
positive, `None` is not an attribute, identifiers of different neighbours are
different and not 0, and at most 65535 UPDATEs are read (the bound that keeps
the `uint16_t` `in_q` from wrapping, since nothing ever resets it).

- `TypeCorrect`. `TypeOK` is not inductive: `Parse` needs a packet in hand and
  `Pop` needs `cur` to be a neighbour. `MainAt` adds both.
- `RoutesAreOwned` (with `FixedIds`: a neighbour repeats its identifier). The
  identifier reaches the RIB from the OPEN through the session state, the main
  thread's place and the queues; `OwnInv` follows it along that way: a
  neighbour in openconfirm or established has an identifier, so has the one
  the main thread is working on, and queues and RIB hold only identifiers some
  neighbour has. Without `FixedIds` a neighbour that comes back with another
  identifier leaves routes no one owns.
- `DepthIsCovered`. `QueueInv` adds that `in_q` is at most the number of
  UPDATEs read, so that the increment does not wrap; the decrement follows a
  test that the queue is not empty.
- `SessionsStartEmpty`. `FreshInv` extends the claim to the start of a round:
  the drain leaves the queue empty and only a pop of a queue that is not empty
  touches it before the next read.
- `RemovalsAreOwned`: an action property, from the types alone.
- `RibRefinement` (with `FixedIds`): an OPEN is `Learn`, `peer_entry` is
  `Put`, `withdraw` and `flush_peer` are `Remove`, everything else stutters.
- `WithdrawIsSafe` (with `FixedIds`). `AliveInv`: before a stop no neighbour
  has been erased, so the owner `OwnInv` promises is in `thread_q`.

### The timers of a session

`HoldTimerProofs` proves `TimersTypeCorrect`, `LiveNeighborKept`,
`NeighborHears`, `SilenceNoticed` and `StreamInOrder` for every set of hold
times, every width of a byte, every own hold time and across any number of
sessions, with a main thread as slow as it likes. Assumptions: a byte has values,
our own hold time is not 0, and the neighbour's is 0 or at least 3 (RFC 4271). How
slow the main thread may be is said by the property: in a session of 180 s, with
keepalives every 60, a KEEPALIVE is late if a round takes two minutes; in one of 90
after one minute, which the 78 s of `src/bgp.cpp:536` exceed.

None of the properties is inductive. `IInv` adds: the threads take turns on the
stream unless it was crossed or has a message left over, and the neighbour expects
the piece the writer is at (`StreamInv`); a session that has not ended is the
current one (`EndedInv`); an open session has the timers of its own OPEN, though
the time stamps of the last one are kept (`DecodedInv`); the age of the last read
is bounded from the last visit unless that visit found it too old (`ReadInv`); an
expiry on its way in the session it was found in was found with a neighbour that
was late or decoded wrong (`ExpiryInv`); a neighbour on schedule has spoken
(`SpokeInv`); and its own clock is no older than our last message, which the last
round left young enough (`HeardInv`). The arithmetic of sums, minima and thirds is
in the lemmas `DecodedFacts` and `SessionFacts`.

### The order of UPDATEs

`BgpdOrderProofs` proves `LatestWins` (with `FixedIds`), under the assumptions of
`Bgpd`: whatever the neighbours send and however their sessions interleave with
the main thread, a key that was never flipped is, once both queues are empty,
as the last UPDATE parsed about it said. The invariant follows a key through the
queues (`AsAsked`): a withdrawal in the queue has the last word, else the last
announcement in the queue, else the RIB; and the queues are emptied in order
(`QueuesAt`). For a key that was flipped the first part fails, and `order_lost`
shows what follows.

### The event database

`EventDatabaseProofs` proves `DatabaseTypes`, `DatabaseIntact`, `DatabaseNewest`
and `DatabaseSpins` for all keys, path lengths, limits and numbers of inserts.
`RecordReads` says what the loop of `db_get_entries` reads from the cells
`db_insert` wrote, for every record; `WriteIs` which cells of the file a write
leaves alone. `IInv` says that the record of every position in `index_map` is
known (`InStep`), that records above the position of the stream are whole
(`RecordInv`), those of the last write too (`NewestInv`), and that without a
write over a record every query ends (`CleanInv`); `PositionInv` keeps the
position inside the file unless the stream failed.

### The way of a route

`RouteTableProofs` proves every property of the run `routes`, for any neighbours,
any messages and any addresses asked for: `RouteTypes`, `RouteCount`,
`RouteSearch`, `RoutePrivate`, `RouteFollows`, `RouteAttributes`, `RouteFaults`.
Assumptions (all of them facts about BGP or the code, evaluated by TLC on the
constants of the run): a message fits into 4096 bytes and its routes have no bit
set behind their length; the attributes of a message that also withdraws are less
than 256 bytes; an attribute that is a list has elements and so has each of the
segments of a path, if they are there at all, and numbers are naturals
(`AttributeAssumption`); 0 is no neighbour's identifier.

- The routes of a message. `EncodedRoutes` says where each route begins in the
  bytes of a list, `RoutesRead` (by induction from the end of the list) that
  `parse_nlri` returns the list, or what is before the first default route;
  `EncodeIs` where the four parts of a message are, `PacketIs` what `proc_in_q`
  takes from them.
- The attributes of a message. The loop of `proc_in_q` over the headers is a
  recursive function; `HeadersIs` says that it exists and that each turn ends
  inside its domain, `AttributeTurn` that a turn at the bytes of an attribute
  hands the switch that attribute's code and value. For each of the ten there is
  a lemma (`OriginField`, ..., `As4AggregatorField`) that its parser reads the
  value its encoder wrote and touches no other field; `TenTurns` puts them one
  after the other, and `AttributesReturn` concludes that a message without
  extended lengths is read back as it was meant, of each path the first segment
  (`FirstSegment`); `EncodePathIs` says where the others are. `OverrunIsExtended`:
  no header the loop meets in such a message has a length that overruns.
- The ranges. `NetworkIs`, `LastOfByte`, `RangeOfByte`: for a route without host
  bits, an address compares between the two ends byte by byte exactly if the
  first bits agree, for each of the 33 lengths. `RouteSearch` and `RoutePrivate`
  follow from it and from the shape of the table (`ShapeInv`: an entry is under
  the prefix of its route and has that route's end).
- The count. `CountInv` gives the number in `current` for every place of the main
  thread and of a flush; only if both were in the update of it is nothing claimed.
- `RouteFollows`. `ShareInv` says for each neighbour and prefix what it advertises
  and where that is: a packet in `in_queue` that names the prefix wins over the
  queues, a withdrawal in its queue over an announcement, that over the table.
  Every action moves it one place on; the five events in `Diverging` are exactly
  the ones that break it.
- `RouteAttributes`. `Shown`, the part of `ShareInv` about an announcement and an
  entry, says more than `RouteFollows` needs: the entry carries what `assign`
  made of the attributes `proc_in_q` read from the message that is advertised.
  With `AttributesReturn` that is the message's own attributes.
- `RouteFaults`. `FaultInv`: every packet, queued announcement and entry that the
  parser, the log or a search would not survive came from a message that `odd` has
  recorded: the parser gives only messages with extended lengths an overrun or an
  AS path with no numbers, and only they or the attributes themselves a null path,
  an unknown ORIGIN or an AS4_AGGREGATOR alone. It holds through every event,
  those of `Diverging` included, since it is about what an entry is and not about
  whether it is the latest.

### The console

`ConsoleProofs` proves `ConsoleTypes`, `ConsoleInstances`, `ConsoleDescriptors`,
`ConsoleAnswers` and `ConsoleCommands`, `ConfigProofs` proves `ConsoleAliases`,
`ConsoleLogs`, `ConsoleViews` and `ConsoleSaves`, for any number of instances,
connections and lines. Assumptions: lines are sequences of tokens, the
identifiers of different neighbours differ and are not 0, and the configuration
at the start is well formed with one alias per value, a neighbour that has an
alias is known to have one (`set_translation` sets both), and every value in it
is one that a command can have set (`AsEntered`: `peer_exists` lets the address 0.0.0.0 in as the first
neighbour only). `ConsoleSaves` alone also needs that no word of a saved line is
the beginning of another word of the tree, except `neighbor` of `neighbors`
(`AbbreviationAssumption`), and that 0 and the default sizes can be written as
numbers (`TextAssumption`). TLC evaluates them all on the constants of the run.

- `ConsoleInstances` from `StartInv`: the ports tell instances apart where the
  lock, given up in `daemon()`, does not.
- `ConsoleAnswers` from `AskerInv`: unless a descriptor was stolen, a connection
  that has not closed has its number for itself, and behind it is the socket the
  line came from (`Held`).
- `ConsoleCommands` from `LineInv`: a connection that was not disturbed is alone
  in `FindCommand`, and the shared token is the one its own tokens lead to
  (`Reached`, against the walk of the tree `Walk`).
- `ConsoleAliases` from `TableInv`: every command keeps the shape of the
  configuration, and `set_translation`, which erases from a list it counts
  through, leaves one alias of a value.
- `ConsoleLogs` from `LogInv`: a destination is under the identifier of its
  neighbour, where no other command can have replaced it.
- `ConsoleViews` from `AliasInv`: an alias that was set is in the list of its
  neighbour, whatever was set, for other values and neighbours too, since; the
  last one of an identifier only if the list has no other, which is why the
  property asks for that. Since identifiers belong to one address
  (`PeerWithId`), `translate_...` finds this list from the identifier in a
  route, and in it, by `ConsoleAliases`, that alias and no other
  (`TranslateShows`).
- `ConsoleSaves` from `TableInv` and `EnteredInv`, by which every stored value has
  a text that is read back as that value: only what a command has entered is
  stored, and every command keeps `AsEntered`. The rest is about one
  configuration, in four layers. The words of each kind of saved line lead
  `FindCommand` to the command that was meant (`Calls`, one lemma per kind).
  Run on a configuration of `n` neighbours, each line changes the last one as
  intended: it is found by its address, which no neighbour before it has, and
  its next alias joins those it has, since none equals it. So the lines of a
  neighbour's first `n` aliases make a list of these aliases in some order
  (`Holds`, `AliasIsNew` and its users): `SortByCode` is only known to rearrange a
  list (`SortIs`). The lines of a neighbour append that neighbour, and the lines of
  the first `n` neighbours make those (`ReplayMakes`). Two aliases of bgp-id would fail the
  third layer, because the value of one is not saved, and so would an alias of a
  kind that is not saved, whose line stays open: the property excludes both.

### Recursive functions

The parser, the encoder, the reader of the database, `set_translation`,
`write_configs` and the run of the saved lines are recursive functions. The proofs reason about them by `Induction`: a set of
numbers that has 0 and the successor of each of its members has all. Of each
function it is shown first that it exists (on the first or last `n` places of its
domain, for every `n`), then what it returns.

### Only model-checked

Liveness (`KillEndsProcess`, `EofReconnects`, `QueueServed`):
fairness is out of the prover's reach. Every other property of a passing run is
a theorem.

## Not modelled

Not to be modelled: the timer class (never started), the Ruby HTTP relay (pure
I/O), the text of messages and the formatting helpers (no state), the unit
tests. Left out of modules that cover the rest of their component:

- the descriptor numbers of neighbours' sockets (`src/tcp_client.cpp:148`), the
  same fault `Console` has for the server's;
- the data race between `set_translation` and the readers of an alias list
  (`src/bgp_attrib_alias.cpp:86`): commands are atomic in `Console`;
- a round of the main thread that never ends (`src/bgp_update.cpp:56`): UPDATEs are
  bounded in `Bgpd`;
- the length prefix and the wide characters of the API's answers.
