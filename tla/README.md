# Specifications of the network protocol programs

The repository holds a *network driver*, which owns the raw sockets, and a set
of *handler programs* (hub, switch, VLAN switch, ARP tool, router, frame parser)
which it starts as its child. This directory specifies the driver, the message
loop every handler is built on, the hub, the switch, the ARP tool and the router;
model-checks them with TLC; and proves with TLAPS that the switch, the ARP tool, the
tables of the router, what it does to the header of a datagram, and the driver with any
program as its child, are correct.

Line numbers refer to `src/`. `PROJECT.json` maps every definition to the lines
it models and lists the hazards, runs, mutants and theorems.

## 1. Inventory

### Parts and how they interact

```
 network  <->  network-driver.c  == pipe child_stdin  ==>  loop.c -> handle_mac / handle_control / handle_frame
 terminal  ->        run()       <== pipe child_stdout ==  print.c (write_all, print) <- forward_to
```

Every message is a `struct GLAB_MessageHeader` (size, type) and a payload. Type 0
is "control" (the MAC addresses once, then command lines; from the child: text to
print), any other type is the number of an interface and the payload a frame.
The handlers are single-threaded and share no memory: concurrency is between the
driver, the child, the network and the user.

| Part | State | Operations | What is hard | What makes it correct |
|---|---|---|---|---|
| `network-driver.c` | the sockets; `bufin`, `current_write`, one `buftun` per interface, `cmd_line`, `current_read` | set-up with its failures; one turn of `select()` and its six blocks; `SIGKILL` or `cleanup` at the end | two bounded pipes in both directions, partial reads and writes, six blocks that hand work to one another, starvation, the end of either process | streams of frames unharmed, no lost wake-up, never blocked in `write()`, MAC addresses first, frames get through, neither process outlives the other |
| `loop.c`, `print.c` | `buf`, `off`, `have_mac` | read, dispatch, `write_all` | messages split and joined by reads | each message handled once, in order |
| `switch.c` | `switching_table`, `num_table_entries`, own MACs | `handle_mac`, `handle_frame` | full table, moving stations, timestamps of one second, own addresses | is a learning bridge |
| `arp.c` | `arpCache`, `arpCacheSize` | ARP reply and request, `arp`, `arp IP IFC` | replies that match two entries, full cache, changed MAC address | is a one-to-one binding; the count stays within the array |
| `router.c` | linked list `routing_table`, `arpCache`, `timer` | IPv4 packet, ARP request and reply, `arp`, `route list/add/del` | list that is NULL at first, head node, masks, MTU of ingress and egress, ICMP errors; headers changed in place, arithmetic at 8 and 16 bits | list is a bag ordered by mask, no NULL use, no abort, unambiguous next hop; checksums right, damage found, fragments shrink, loops end |
| `crc.c` | none | 16-bit one's complement sum; CRC32 and CRC8, which nothing calls | the carry of the carry | a sealed header sums up right, a wrong bit is seen |
| `hub.c` | interfaces | `fwd_frame` | writes more per frame than a pipe holds | a frame leaves again |
| `parser.c` | none | one text per frame | - | - |
| `vswitch.c` | interfaces with VLANs | option parsing only | none: `parse_frame` is a TODO | - |
| `hello.c`, `test*.c` | none | print, or drive a program under test | - | - |

### Hazards

`PROJECT.json` lists them at their lines, each with the properties that would
notice it. They fall into five groups: tables at capacity (switch, both ARP
caches); entries that shadow, outlive or replace one another; byte streams that
are cut anywhere; processes that wait for, or outlive, each other; and numbers that
meet the end of their 8 or 16 bits. Two have no property: the abort on a surplus MAC
address (switch.c:386) is one step, which a property would only repeat; and the read
behind a full ARP cache (arp.c:251) yields any value or ends undefined, neither of
which a property could exclude. That finishing a job moves the bytes of typed lines by
the right offset (network-driver.c:518) is not covered, as lines are only counted.

## 2. Modules

| Module | Models | Built on |
|---|---|---|
| `LearningBridge` | abstract: what a learning switch promises | - |
| `Switch` | `switch.c` | - |
| `SwitchProofs` | invariant, theorems and refinement of `LearningBridge` | `Switch`, `SharedLemmas` |
| `ArpBinding` | abstract: partial one-to-one map from IP to MAC | - |
| `ArpTool` | `arp.c` | - |
| `ArpToolProofs` | invariant, theorems and refinement of `ArpBinding` | `ArpTool` |
| `Pipes` | messages, cut into units, and the two pipes | - |
| `ChildLoop` | `loop.c`, `print.c` | `Pipes` |
| `Handlers` | what the hub and the frame parser write | `Pipes` |
| `NetworkDriver` | `main()` of the driver from the first interface on, and `run()` | `Pipes` |
| `DriverChild` | driver, child, network and user, interleaved | `ChildLoop`, `NetworkDriver` |
| `DriverProofs` | invariant and theorems about `DriverChild` | `DriverChild`, `SharedLemmas` |
| `RouteBag` | abstract: a bag of routes | - |
| `RoutingTable` | the list of `router.c` | - |
| `RouterArp` | the ARP cache of `router.c` | `RoutingTable` |
| `CommandLine` | the words of the router's commands and their parsers | `RoutingTable` |
| `FrameSizes` | MTU arguments, and how payloads are cut by them | - |
| `Router` | `route()`, ARP, commands of `router.c` | `RouterArp`, `CommandLine`, `FrameSizes` |
| `SharedLemmas` | facts about numbers, sequences and MTUs that several proofs need | `FrameSizes` |
| `RoutingTableProofs` | lemmas about the list and `init_router` | `RoutingTable`, `SharedLemmas` |
| `RouterProofs` | invariant, theorems and refinement of `RouteBag` | `Router`, `RoutingTableProofs` |
| `Checksum` | the checksum of IPv4 headers, `crc.c` | - |
| `ChecksumProofs` | theorems about it | `Checksum` |
| `Datagram` | headers and sizes through several routers | `Checksum`, `FrameSizes` |
| `DatagramProofs` | invariant and theorems about `Datagram` | `Datagram`, `ChecksumProofs` |

`MCSwitch`, `MCArpTool`, `MCDriver`, `MCRouter` and `MCDatagram` hold the instances TLC
checks. A definition marked `mutant` is a faulty version of the one after it; no
specification uses it, and `PROJECT.json` says which property it breaks.

### Switch

`table` and `numEntries` are `switching_table` and `num_table_entries`; slot *k*
of the model is index *k - 1*. `now` is `time(NULL)` in seconds, advanced by
`Tick`; the model assumes that the clock is not set back. `HandleFrame` is
`handle_frame` as a whole: `Learn` (one of `KeepOwn`, `Refresh`, `AddEntry`,
`OverrideEntry`, as `lookup` decides) and then `Forward` with the table it
leaves. `sent` says how many copies of the frame were written to each
interface, `last` which frame it was. `HandleMac` stands for the calls of
`handle_mac` with all addresses the driver announces, including the `abort` when
there are more of them than interfaces. `HandleOther` are commands and frames
that are too short.

A source address may be a group address, and source or destination an own address, as
the code does not look. `LearningBridge` leaves it open whether frames from own
addresses are delivered: they should be dismissed and are not (`OwnFramesDismissed`). A
station with the address 00:00:00:00:00:00 is left out.

### ARP tool

One action per outcome of `lookup_and_add` (`BothInCache`, `MacInCache`, `IpInCache`,
`NewInCache`), and one per request and command. The state keeps the array and
`arpCacheSize` apart: the count can pass the array (see the findings), after which the
next loop over it is `ReadPastEnd`, and everything after that is undefined. Closing a
gap in a full cache reads one element behind the array (arp.c:251): the last slot
becomes any value of the constant `Beyond`, or the step is `ReadPastEnd` as well. `Send`
is `forward_to` with its abort, for MTUs that wrap (arp.c:550 has no upper bound);
`HandleMac` aborts on a surplus address. The other way into undefined behaviour, frames
and commands of a form the code does not check, is `MalformedInput`.

### Driver and child

A message is cut into units; a unit is the least a reader or writer can be left
with, so that `FrameLen = 2` gives every kind of cut: none, in the middle, between
messages. Reads return any positive amount that is there; a blocking write moves
what there is room for, and a write of at most `PIPE_BUF` waits until it fits as a
whole. `pc` is the next step of `main()`, or the block of `run()` that is next after
`select()` has returned the set `ready`:

    start -> privileges -> select -> stdin -> write -> send -> read -> recv -> select
                                     or return -> done
    start or privileges -> failed,  start -> killed

When the model starts, the child has been forked and the program, or the failing
`execvp`, runs in it. `InitTun` opens one interface after the other; frames arrive on
those that are open, long before `run()` looks at them. `InitTunFails`, and
`DropPrivilegesFails` after the announcement, go to `cleanup`, which closes the
sockets and leaves the child alone: it then reads 0 bytes, or writes to a pipe
without a reader. The announcement of the MAC addresses to a child that is gone
kills the driver by SIGPIPE (`SendMacs`), which is ignored only afterwards.

Blocks without effect are passed over (`FirstBlock`), and two blocks that no
other process can tell apart from one are one action (`SendAndPick`). `bufin`,
`buftun`, `cmdBuf`, `curRead`, `curLeft` and `curWrite` are the driver's
variables. The offset `bufin_write_off` is not kept: a frame leaves through one
`sendto`, as packet sockets do. Frames carry no content but a tag: up to one "red"
and one later "blue" frame of one interface can be followed through the system.
As the programs never look at the tag, what holds for these two holds for any
two frames of an interface.

The handlers are a parameter: `Responses(m)` is the set of what the handler of
message *m* may write, as sequences of messages, which `write_all` writes one by one
while the child reads nothing. `Handlers` gives it for the hub and the frame parser;
`MCDriver` has one for programs that keep, drop, pass on or double a frame.
Texts that the hub prints in a row are one text here.

### Router

`RoutingTable` keeps the list as a sequence, `<<>>` while `routing_table` is NULL.
`Predecessor` is `lookup_routing_entry_rt` with its comparison of masks as signed
little-endian integers (`MaskValue`). The whole of `route()` is `HandleIpv4`, with one
disjunct per outcome in the order of the code's tests; `out` lists the frames a handler
wrote, with their sizes, so that `Emit` can model the assertion of `forward_to`: the
frames up to the first one that is too large are written, then the program aborts. An
ICMP error of more than 65535 bytes overruns `frame_buff` before that (router.c:607,
618), so the status may be "undefined" instead. A packet keeps what decides its fate:
destination, sender, TTL, size and the "don't fragment" bit. What the code leaves unset
or copies from a wrong address (the Ethernet header of fragments) is `AnyMac`.

`handle_control` and all commands are `HandleControl`, with a line as the sequence of
words `strtok` cuts it into; a word is what the parsers can make of it (`CommandLine`).
`route add ... dev` without a name passes NULL to `strcasecmp`, which ends in
"undefined"; "crashed" is only the use of a list that does not exist yet. The ARP cache
counts past its array as the one of the ARP tool does, with `ReadPastEnd` and `Beyond`
for what follows; a lookup that finds its entry stops before the end of the array and is
defined even then (`Unresolved`). The MTU of an interface is computed from its argument
(`IfcMtu`), at 16 bits.

### Datagram

`Router` knows which way a packet takes, `Datagram` what happens to it on the way.
It follows one datagram through routers that forward in a circle, as a loop of
routes makes them; when it is cut, it follows any one of the fragments. `header` has
the words a router changes (identification, fragment information, TTL, checksum), as
16-bit numbers in the byte order the machine adds them in, and the sum of all others;
`size` is its payload. `Route` has one disjunct per end of `route()`:

- `BadChecksum`, `TtlExceeded`, `Unreachable` (no route, or no next hop: possible at
  any time, as the tables are not modelled here);
- `Forward`, with the TTL lowered and the checksum renewed;
- `FragmentationNeeded` always aborts: the payload is larger than the MTU leaves
  room for, so the ICMP error is 62 bytes larger still;
- `Fragmented`: fragment *k* gets the identification raised *k* times and the TTL
  lowered *k* times. Its fragment information is built up in a variable that is never
  initialised and that keeps what the fragments before left in it (`FragInfo`, with
  `Garbage` for the unknown). Every fragment is sent as a full frame with an Ethernet
  header of stray bytes, which the next router may or may not take for IPv4.

A router that has aborted reads nothing more (`Unread`). `Damage` changes one bit of
one word on a link, once per datagram.

## 3. Runs

| Run | Instance | Result |
|---|---|---|
| `switch` | 2 interfaces, 4 stations, one own and one group address, 3 slots, 2 seconds; stations symmetric | 6 invariants and properties hold |
| `switch_evicts_least_recent` | the same with 3 seconds | `EvictsLeastRecent` is violated |
| `switch_own_dismissed` | the same in one second | `OwnFramesDismissed` is violated |
| `arp` | 2 interfaces, one with an MTU that wraps, 3 foreign IP and 4 MAC addresses, 3 slots, 2 seconds; stations symmetric | 4 hold |
| `arp_size_bounded` | the same | `SizeBounded` is violated |
| `driver` | 2 interfaces, pipe of 3 units, two frames to follow among ordinary ones, typed lines, a congested link | 6 hold |
| `driver_liveness` | 2 interfaces, the hub as the child, pipes and buffers of 3 units, ordinary frames on interface 1 and one to follow on interface 2; failing set-up, end of input, crash of the child | 3 hold under fairness |
| `driver_frame_is_handled` | 3 interfaces, the frame parser as the child | `FrameIsHandled` is violated |
| `router` | a /16 with MTU 414 and a /8 with MTU 1514, 4 routes to type, 3 neighbours, 3 MAC addresses, 6 packets, list of 3, cache of 2, 2 seconds | 6 hold |
| `datagram` | 2 routers, 5 assignments of MTUs (smallest, none, mixed, and two that wrap), 6 headers, 6 sizes, 2 values of uninitialised memory, lowest and highest bit flipped | 6 hold, `LoopEnds` under fairness |
| `router_frames_fit` | `router` in one second | `FramesFit` is violated |
| `router_ordered_by_mask` | the same with a list of 4 and a route with a mask of 25 bits | `OrderedByMask` is violated |

Why the bounds are enough:

- *Tables.* With three slots and four stations, the full table, eviction of the
  first, a middle and the last slot, and the return of an evicted station all
  occur. Two seconds tell "same age" from "older"; the violated eviction policy
  needs three. Merges of two ARP entries occur with the gap before, at and after
  the entry that stays.
- *Pipes.* `PipeCap` is 3 units with messages of 1 and 2, so that a message
  straddles the end of a full pipe, and pipes fill up in both directions at once.
  Larger buffers allow more messages in transit but no new kind of cut.
- *Events.* Crash, end of input and failures of set-up only occur in the run about
  liveness: no safety property depends on them but through fewer steps taken.
- *Datagrams.* Sizes lie at and next to each bound: what can be returned as an ICMP
  error (352 bytes at the smallest MTU), what fits (380), and several fragments. The
  headers have the smallest and the largest sum, an identification that wraps, TTL
  0, 1, 2, 20 and 255. MTU 65522 wraps to 0 and 65535 to 13, smaller than any header.
  The proofs cover all other values.
- *Interfaces.* Two are enough for ingress and egress to differ; the starvation
  needs three, as the two others have to take turns.
- *Router.* The four routes are: both connected ones (to be deleted), a second one to
  the network of interface 1, with 24 instead of 16 bits, and a default route. The passing
  run has no longer mask: with one, the order fails (`router_ordered_by_mask`), and the proof
  covers all that the code compares rightly. The packets are: TTL 0, TTL 1, one that
  fits everywhere, one too large for interface 1 with and without DF, and one too large
  for the buffer of ICMP errors. What lies behind the ARP cache (`Beyond`) is two
  different values in `arp` and one in `router`: it gets into the slot behind the used
  ones, which nothing reads before it is written. The proofs hold for any.

### What the properties say

- `ImplementsBridge`, `ImplementsBinding`, `ImplementsRouteBag`: the array or
  list, whatever its slots hold, is the abstract map or bag; nothing but the one
  entry an operation names is changed, except for one evicted when full. The bridge
  also says where frames go, but for those from the switch's own addresses.
- `UniqueMac`, `UniqueAddresses`: no entry shadows another.
- `SenderReachable`: after each frame the table leads back to its sender's port.
- `EvictsNotNewest`: what `search_oldest_entry` still guarantees.
- `InputStream`, `OutputStream`: at all times, what has arrived equals what has
  been handled, followed by what is in transit (and the same outwards). This says
  at once that nothing is lost, doubled, reordered or cut.
- `NoLostWakeup`: when the driver waits in `select()`, no complete message is
  left in a buffer that no descriptor would announce.
- `WriteNeverBlocks`: the driver never waits in `write()`; with the child blocked on
  its own output, that would be a deadlock.
- `MacsFirst`: what the child takes for the MAC addresses are the MAC addresses, and it
  handles no frame before it has them.
- `FrameIsRepeated`: a frame passes the whole system, driver, pipe, hub, pipe, driver,
  although the hub writes 6 units in answer to 2 and neither process reads while it writes.
- `DriverEndsWithChild`, `ChildEndsWithDriver`: when one process ends, at any point from
  the set-up on, so does the other; an error during set-up leaves no orphan.
- `ChecksumRight`, `DamageStops`: the checksum is renewed over the right fields in every
  path, and finds every wrong bit (03-documentation-router.md:162, 220).
- `SmallOnesAreSafe`: a datagram with at most MTU - 62 bytes of payload, for the MTU (with
  its Ethernet header) of every interface it passes, ends no router. It is the exact
  size up to which finding 4 cannot occur.
- `FragmentsShrink`: what is cut becomes smaller and never empty, for MTUs that wrap, too.
- `LoopEnds`: although the TTL of a fragment may wrap to 255, a datagram is not kept for
  ever. It needs both: a fragment is not cut again until an MTU is smaller, and what is
  not cut has a TTL that falls.
- `NeverCrashes`: `route add` cannot meet the NULL list. It is not the code of
  `add_entry` that sees to it: a gateway has to be known by ARP, and the frame
  that makes it known sets up the list.
- `LargestMaskFirst`: of two routes to one network the one with the longer prefix comes
  first, if both masks have more than 24 bits or neither has. Other pairs the code
  compares wrongly, as the sign of the integer lies in the last byte of the mask
  (`OrderedByMask`). The network of the first node is excepted, in front of which nothing
  can be inserted.
- `FirstRouteStays`: the head of the list survives every command.

### Fairness

`FairSpec` of `DriverChild` assumes weak fairness of the driver's step, of the
child's step and of the final `kill`: both are processes the kernel schedules, and
neither gives up while it can run. Nothing is assumed of the network or the user,
and nothing of which descriptors are ready beyond what the pipes hold. A link is
congested only in the run `driver` (event "congest"), which checks safety; a user
who types lines without end is left out of the liveness runs as well, because the
command line is served before all interfaces and would starve them as two busy
interfaces starve a third.

`FairSpec` of `Datagram` assumes that a router reads what is sent to it
(`WF_vars(Route \/ Unread)`); nobody has to send or to damage anything.

## 4. Where the code and its documents differ

Shown by a run each:

1. **The switch evicts the wrong entry** (switch.c:192). The search never moves
   its minimum, so that it returns the *last* entry older than slot 0. The document
   (01-documentation-switch.md:104-105) promises the least recently used one.
2. **`arpCacheSize` passes the array** (arp.c:275): incremented also when a full
   cache has replaced an entry. 02-documentation-ARP.md:109 says up to 10 entries.
3. **Starvation of the last interface** (network-driver.c:784-789). nprj1.tex:281-282
   says that the driver outputs a message for each frame received.
4. **The router aborts on ordinary packets** (router.c:407): an ICMP error returns
   the whole packet with 62 bytes of headers, and a packet that fits the ingress
   need not fit the egress.
5. **The switch forwards frames from its own addresses** (switch.c:315 only skips the
   table), which 01-documentation-switch.md:114-115 ("no further action is taken") and
   the comments at switch.c:141 and 160 say it dismisses.
6. **Long masks sort below short ones** (router.c:637): masks are compared as ints in
   little-endian order, and one of more than 24 bits is negative. With 16, 24 and 25 bits
   the routes to one network come in the order 24, 16, 25; router.c:624-629 asks for the
   order of their masks, and a lookup takes the first, less specific one.

Met while reading, visible in the models, without a run of their own:

- The router's `arpCacheSize` passes the array (router.c:975), as it does in the ARP
  tool; 03-documentation-router.md:370 says up to 10 entries. `TypeOK` of `Router` says
  by how much, `ReadPastEnd` what follows.
- The ARP tool does not learn a changed MAC address (arp.c:258-261), although
  02-documentation-ARP.md:134-135 says the entry is overwritten by the new one.
  `ArpBinding` has the step `Keep` for it.
- Connected routes can be deleted (router.c:473 clears `undeleteable`), unlike
  03-documentation-router.md:79-80 says; only the head of the list cannot
  (`FirstRouteStays`). `Remove` of `RouteBag` allows it.
- The switch sends a frame back to its ingress when its destination was learned there.
- The router forwards packets with TTL 1; it lowers the TTL once per fragment
  (router.c:811); the ICMP "host unreachable" goes to the MAC address of the
  egress interface (router.c:724, 739, then 765); the ARP query goes out on
  the ingress interface (router.c:761); DF packets that do not fit are
  reported *and* forwarded (router.c:862-873).
- The routing table is empty before the first frame, also for `route list`;
  `route del` does not compare the interface (router.c:650).
- The hub sends every frame to interface 1 only, once for each interface there is, and
  none that comes from interface 1 (hub.c:130, 163: `gifc` never advances);
  nprj1.tex:388-390 asks for all other interfaces. `Turn` models it as it is.
- A datagram that is too large and must not be fragmented ends the router, always
  (router.c:867, 407), instead of being reported (03-documentation-router.md:197-199).
- Fragment offsets accumulate in an uninitialised variable (router.c:792, 806), fragments of
  one datagram have different identifications (router.c:800), the last one is padded with
  stray bytes to full size (router.c:818): no receiver could put them together.
- The checksum of an ICMP error is computed over a buffer that is not filled yet
  (router.c:611), its `total_length` from a header length that is not set yet (router.c:595).
- An MTU argument above 65521 is accepted and wraps (router.c:1576): such an interface
  can send nothing, and the first frame for it ends the router. The ARP tool has no upper
  bound at all (arp.c:550); an MTU that wraps to less than 42 bytes ends it likewise.
- A reply that merges two entries of a full ARP cache reads one element behind the array
  (arp.c:251, router.c:950).

## 5. Proofs

### The switch

`SwitchProofs` holds for every number of interfaces, set of
addresses and size of the table. It assumes only `SwitchAssumption`: at
least one interface and slot, an announcement of at least as many interfaces as
are named, addresses of interfaces that are no group addresses.

`TypeOK`, `UniqueMac` and `OwnNeverLearned` are not inductive by themselves. Uniqueness
needs to know that all used slots are in front and hold an address (`SlotsInUse`),
as otherwise a new entry might land on a used one; own addresses can be kept out of
the table only because the table is empty when they become known (`status =
"starting" => numEntries = 0`). `SwitchInv` is the conjunction of these.

- `LearnStep`: each of the four cases of `lookup` either leaves the table alone (own
  address) or stores the sender in exactly one slot `v`, which was the sender's, the
  next free one, or, in a full table without the sender, any (`StoresAt`).
- `StoreKeepsTable`: storing keeps the invariant's parts about the table.
  `HandleMacInv`, `HandleFrameInv` and `NextInv` put the steps together, `Invariance`
  follows with the rule of temporal logic.
- `TypeCorrect`, `EachAddressOnce`, `OwnAddressesNotLearned` are its parts.
- `SendersReachable` uses that a stored address is found in its own slot
  (`StoredIsFound`), which needs uniqueness: `lookup` stops at the first match.
- `NewestNotEvicted` proves the action property from what the search returns.
- `SwitchImplementsBridge`: under the mapping `PortOf` (what a search in the table
  finds) every step is one of `LearningBridge` or changes nothing. `StoreChangesPorts`
  says what storing does to the mapping, `KnownCount` that as many stations are known
  as slots are used, which a bijection between both shows; hence "full" means the
  same on both levels. Frames from own addresses must leave the table as it is; whether
  they are delivered the bridge does not say.

### The ARP tool

`ArpToolProofs` holds for every number of interfaces, set of addresses and size of the
cache, under `ArpAssumption`, which says of the memory behind the array (`Beyond`) only
that it can be read as some entry. `TypeOK` and `UniqueAddresses` need each other: which of
several matches the loops of `lookup_and_add` end up with decides what is overwritten and
which slot a merge closes, and only the uniqueness of addresses makes it *the* match
(`OnlyMatch`). `ArpInv` is the conjunction.

- The four outcomes of `lookup_and_add` are treated one by one. The hard one is
  `BothInCache`, where an entry is written and another one is removed by moving up those
  behind it: a used slot afterwards is the written one or holds what one used slot held before.
- `EachAddressOnce` and `TypeCorrect` are the two parts; `NewestNotEvicted` compares the
  slot `search_oldest_entry` returns with the one a new address is written to.
- `CacheImplementsBinding`: under the mapping `BindingOf` (what a search by IP address
  finds), each outcome is a step of `ArpBinding`: the two that know the MAC address move it
  (`MovedPairs`), the one that knows the IP address only keeps it (`KeptPairs`), the last
  adds a pair or replaces one (`AddedPairs`). "Full" means the same on both levels because
  bound addresses and used slots are in bijection (`BoundCount`), which again is uniqueness.
  Reads and writes behind the array map to the end the abstract specification provides.

### The router

`RouterProofs` holds for every number of interfaces, all tables and caches, and all
packets and command lines, under the assumptions of the modules: masking an address gives
an address, what lies behind the ARP cache can be read as an entry (`RouterArpAssumption`),
MTUs are accepted ones, and a command line (`RouterAssumption`) is a sequence
of words, where a name is that of an interface that exists, as the parser turns others away,
and what is parsed as a route has addresses the model knows. `RouterInv` has five parts:

- `TableOK`: no list before the first frame, and then a list (`IsTable`) that is not empty,
  no longer than its limit, holds only routes that can be created, and is `Sorted`;
- `CacheOK`: types and `UniqueAddresses`;
- an empty cache while there is no list, from which `NoRouteBeforeTheTable` follows:
  `route add` wants its gateway in the cache and so cannot come first;
- `OutputOK`: every frame that was written fits its interface;
- a status other than "crashed".

The list is dealt with in `RoutingTableProofs`. `Inserted` and `Removed` say what
putting an element into a sequence and taking one out does to positions, and
`CountInserted` and `CountRemoved` what it does to the number of times a route occurs,
by bijections between sets of positions. `AddKeepsOrder` is the heart of
`LookupFindsLargestMask`: the node `lookup_routing_entry_rt` inserts behind is the last
one of the network with a larger or equal mask, or the head, so that the order is kept
for all networks but the one of the first node. This is an order of the integers the
code compares; `LongerIsLarger` shows that it is one of prefixes among masks of at most
24 bits, and among longer ones: each byte of a mask grows with the prefix (`ByteGrows`),
and the last one, which has the sign, is 0 in the first case and negative in the second.
`ListImplementsRouteBag` then follows from the counts.

`init_router` builds the list in a loop, `Booted`, a recursive function. The induction
theorems of the library take an operator as a parameter, which the installed provers cannot
instantiate; that the function exists and what its values are is proved from the least
interface for which it would be wrong (`LeastNumber`, `BootedExists`, `BootedIs`).

### Checksums and datagrams

`ChecksumProofs` is about all headers. A sum is written as 65536 *q* + *r* (`Halves`), with
*q* at most 10 for a header. Then `crc16_finish` returns 65535 - (*q* + *r*) when that does
not carry (`FinishNoCarry`) and one more turn of it when it does (`FinishCarry`); it is 0
just when *q* + *r* = 65535. `SealedIsRight` follows by adding the checksum to either case
(`SumWithChecksum`). A sum that finishes with 0 is a multiple of 65535
(`SumThatIsRight`), so that two different ones are at least 65535 apart; a change of one
word by less makes the result differ from 0 (`DamageIsSeen`).

`DatagramProofs` holds for every number of routers, every assignment of accepted MTUs,
and all headers and sizes (`DatagramAssumption`). `TypeOK` and `ChecksumRight` are
inductive only together with `DamageShows`, which says that the checksum of a damaged
datagram is wrong: without it, a router might seal damage with a right
checksum. `DatagramInv` is the conjunction. `TypeCorrect`, `ChecksumsAreRight` and
`DamageIsStopped` follow from it. `FragmentsAreSmaller` needs what `Exceeds` says about
an MTU that wraps: the MTU of an interface is less than 14 or at least 414 (`MtuRange`),
and in the first case the comparison of a negative number with an unsigned one keeps the
code from cutting at all (`FragmentIsSmaller`; both lemmas are in `SharedLemmas`).
`SmallDatagramsAreSafe` compares each frame a router writes with the MTU it has to fit.

### Driver and child

`DriverProofs` holds for every number of interfaces, all lengths of messages, sizes of
pipes and buffers and arrivals, and every program as the child: `Responses` may be any
answers that consist of frames and texts. `PipesAssumption` says that a message fits into
the buffers and the announcement of the MAC addresses into an empty pipe (its size has 16
bits, and a pipe holds 2^16 bytes). `DriverInv` has these parts besides types:

- `StreamsOK`: what is on its way to the child (`Inward`: its buffer, the pipe, and what
  is left of the message the driver has begun to write, `Pending`) is one message after
  the other, but for the part of the first one that has left already; and the same for
  `Outward`, from the driver's buffer to what the child has still to write.
- `MacsOK`: until the child has got its MAC addresses, they are the first of `Inward`.
- `JobOK`, `WakeOK`: the job the driver writes is still in its buffer, and when it has
  none, there is nothing to make one of by the time it gets to `select()`.
- `ReadyOK`: what `select()` has found of a descriptor is still so when its block is
  reached, which is why no block has to look again.
- `SendOK`: while a frame is to be sent, it is complete and the first in `bufin`; while
  none is, none is complete, except between the block that has sent one and the next
  `read()`, and after the loop.
- `SetUpOK`: nothing is read before the loop.

No property is inductive without the streams: that the driver finds its frame in front
of `bufin`, that `Macs` come first, and that the length in a header can be trusted all
need that no reader ever begins in the middle of a message. Streams are dealt with as
sequences of units in which each unit follows the one before (`Follows`) and which end at
the end of a message (`IsWhole`). `RestOfStream`, `JoinedStreams` and `FirstOfStream`
say how they are cut and joined, `MessagesAreWhole` that whatever a handler writes is one,
`MovedUnits` that moving units from one place to the next leaves the stream as it is. With
that every read and write keeps both streams, whatever amount the kernel moves.

- `TypeCorrect`, `MacsComeFirst` and `NoWakeupIsLost` are parts of `DriverInv`.
- `WritesDoNotBlock` needs that messages to the child are at most `PIPE_BUF` long
  (`SmallMessages`; 4096 bytes, and an Ethernet frame has 1514). `RoomLasts` says why it is
  enough: nobody but the driver fills the pipe, so the room `select()` has promised is
  still there. For larger messages the statement is false: a `write()` may then wait in
  the middle of a message.
- `InputArrivesInOrder` and `OutputLeavesInOrder` are `InputStream` and `OutputStream`.
  Both speak of frames that lie in a stream from end to end (`Tags`), which is awkward to
  follow through a step: a read of some units may complete a frame or not. `UnitTags`
  counts a frame where its last unit is instead, so that it is a map over the units and
  distributes over concatenation (`UnitTagsAre`). In a stream both are the same
  (`TagsOfStream`, by `UnitsBefore`: a last unit is preceded by all others of its message);
  in any other sequence of units they are not, so this needs `StreamsOK` again.
  `InputInv` and `OutputInv` state the properties with `UnitTags`, and that no interface
  but the followed one holds a tagged frame. A step then moves, adds or removes: what is
  moved changes nothing; a message at the front of a stream that is handled or sent
  leaves as the first tag (`TagsOfFirst`); what the driver writes holds the tag of its job
  if it is the last part of it (`JobPart`), which is the moment the buffer of the interface
  is freed; and what a handler answers adds its tags at the end (`TagsOfMessages`).

  `FlattenSeq`, which joins them, is a recursive function; its values are shown in
  `SharedLemmas` from the least position for which they would be wrong, as for `Booted`.

### Only model-checked

Every invariant and every refinement that a run checks is proved. `LoopEnds` and the
properties of `driver_liveness` are not: liveness and `ENABLED` are out of reach of the
prover. The runs that expect a violation show states of one instance.

## 6. Not modelled

- In the driver: VLAN tags, the compiled-out filter by MAC address, system calls that
  fail inside `run()`, `fork` and `pipe` that fail (there is no child then), a child
  that names an interface that does not exist, lines typed in pieces, commands
  typed ahead beyond `CmdCap` and the bytes of all of them (lines are counted), the
  discard of frames of other interfaces that a socket has received before it was bound
  (network-driver.c:708-715).
- The hub's aborts (hub.c:181, 215), which happen only when driver and hub are given
  different command lines; `Crash` lets the child die at any time.
- Failing `malloc`; text and formatting; in the router's arguments all but the MTU.
- The bytes of payloads; ICMP errors and ARP messages as datagrams of their own.
- CRC32 and CRC8 (`crc.c`), which no program calls.
- `vswitch.c`: it drops every frame, and the lists of VLANs it reads from its
  arguments are used by nothing. There is no behaviour yet to state a property of.
- `hello.c`, and the test drivers, which are read for what they expect.

## 7. Plan

Done: all components above, with proofs of every safety property of the switch, the ARP
tool, the router, the datagrams and the driver, and of their refinements. Next:

1. The switch in place of the hub in `DriverChild`, so that a frame is followed from
   interface to interface with a table in between.
