# Verification project for HayaletDPI

HayaletDPI is a Windows program, derived from GoodbyeDPI, that diverts packets
with WinDivert and sends them on changed, so that deep packet inspection does
not recognise them.  This directory holds TLA+ models of its core logic, the
TLC configurations that check them, and proofs checked by TLAPS.  Paths below
are relative to the repository; `hayalet.c` stands for `src/hayalet.c`, and so
on for the other files of `src/`.

## The system

| part | code | state it keeps | operations |
| --- | --- | --- | --- |
| Engine lifecycle | `gui.c`, `webview_v2.cc`, `hayalet.c` | `hThread`, `engine_running`, `exiting`, `filters`, `filter_num`, `w_filter`, `settings.ini`, the blacklist file and its hash | ToggleEngine, RestartEngine, StartEngine, StopEngine, dpi_thread, reset_hayalet_state, init, deinit_all, shutdown_hayalet, cb_save_config, cb_save_list, the end of WinMain |
| Packet loop | `hayalet.c` run_hayalet | the packet in `packet`, `should_reinject`, `should_recalc_checksum`, `sni_ok`, `ttl_of_fake_packet`, the counters | receive, attribute, classify, drop, pass, change, fake, fragment, reinject |
| DNS redirector | `dnsredir.c` | hash of outstanding queries, `last_cleanup` | dns_handle_outgoing, dns_handle_incoming, dns_cleanup, dnsredir_clear |
| TTL tracker | `ttltrack.c` | hash of SYN/ACK TTLs, `last_cleanup` | tcp_handle_incoming, tcp_handle_outgoing, tcp_get_auto_ttl, tcp_cleanup, ttltrack_clear |
| Fake packets | `fakepackets.c` | the custom payloads, `fakes_count`, `fakes_resend` | send_fake_request, send_fake_data, fake_add, the loaders, fake_clear |
| Process attribution | `hayalet.c` | TCP and UDP port-to-pid maps, pid cache, list of selected programs, monitor threads | flow_monitor_thread, GetPidFromPort, IsProcessAllowed, LoadFilterApps |
| Host lists | `blackwhitelist.c`, `hayalet.c` | hash of blacklisted names, allowlist array | blackwhitelist_load_list, blackwhitelist_check_hostname, LoadAllowlist, IsAllowlisted |
| Instance and dashboard | `gui.c`, `webview_v2.cc` | the instance mutex, the tray window and its messages, the dashboard flag and threads | WinMain, WindowProc, OpenV2DashboardOnce, V2LaunchThread, V2Thread |
| Windows service | `service.c` | service status | service_register, service_main, service_controlhandler |
| Dialogs, log viewer, diagnostics, updates | `gui.c`, `webview_v2.cc`, `ui_v2/index.html` | windows and widgets | one-shot reads, probes and layout |

The interface threads (the tray's window procedure and the dashboard's thread)
start and stop the engine thread; they share its handle, the stop flag, the
status flag and the table of filters with it, without a lock.  The engine
thread runs the packet loop, one packet at a time, which calls the DNS
redirector, the TTL tracker, the host lists, process attribution and the fake
packet generator in the same thread.  Only the flow monitors write the port
maps from threads of their own.  The kernel driver keeps dropping or queueing
packets for as long as a filter handle is open.  Instances of the program meet
at a mutex, and a second one asks the first, by a window message, to show its
dashboard.

What is hard here: the unsynchronised start/stop protocol with its five-second
wait; tables that expire only when a packet passes; one engine-wide TTL shared
by all connections; answers matched by client port alone, while packets are
lost, delayed, duplicated, and the engine restarts; 8-bit hop arithmetic; a map
of ports and a cache of verdicts that outlive what they are about; a mutex that
protects nothing from a process that may not open it.

What makes each part correct:

* lifecycle: every handle closed once and none lost, the status shown is true,
  what settings.ini says takes effect, a stop returns;
* DNS redirector: every query of a redirected family goes to the resolver,
  every answer comes back under the address the client asked, nothing expires
  early or lives long, no client is locked out by a lost answer;
* packet loop: what the server reads is the request as the client meant it,
  whatever was faked, cut, edited, lost and sent again; a targeted name is never
  in the packet that starts the request; the segments of whom the filter mode
  excludes are sent as they came; the counters are plausible;
* TTL tracker: a fake has the TTL measured on its own connection, dies before
  the server, and is sent for every server far enough away;
* attribution: a port is mapped to the process that has it, verdicts follow the
  list of programs within its reloading time, monitors do not pile up;
* instances: no two that may run an engine, one dashboard each, a dashboard
  flag that is set is cleared again, every request to show the dashboard is
  answered.

Not all of this is so.  Six runs end in a violation, and several properties hold
only for behaviours that nothing in the code sees to, or except cases that do
happen; which, is said under Runs.

## Modules

`Conntrack` is the expiring table that `dnsredir.c` and `ttltrack.c` each
implement.  The code compares only *differences* of `time(NULL)` with the
cleanup interval, so a record carries its age rather than its time of birth, and
ages saturate at twice the interval, where every comparison is decided.  The
clock only moves forward.  `Cleaned` is the cleanup (at most once per interval,
only while handling a packet, the first call only starting the clock).

`DnsRedir` extends it with the DNS branch of the loop.  `conntrack` and
`sinceCleanup` are the hash and the age of `last_cleanup`; `up` says the loop
runs; `net` holds every query that left the machine, or its answer; `delivered`
is what the last step handed to a client.  `QueryRedirected`, `QueryDropped`
and `QueryUntouched` are the three outcomes of an outgoing query,
`AnswerRewritten`, `AnswerDropped` and `AnswerUntouched` those of an answer;
each handled packet runs the cleanup first, also `NonDnsDatagram`.  A client is
a local (address, port) pair, the key of the hash; names and ids of queries do
not exist in the model since the code never compares them.  `FilterPorts` are
the UDP ports `Hayalet_RunConfig` adds to the driver's filter.  `MaxNet` packets
are in flight at most; the network loses what would be one more.  One variable
is not in the code and no guard reads it: `timely`, the clients that have
nothing in flight that is late, duplicated or from before a restart.

`AddressTranslation` says what that amounts to for a client, without table,
clock, network or restart: it has at most one redirected query outstanding, at
most one answer is translated for it, and the address put on the answer is that
of the server it asked.  `ImplementsTranslation` of `DnsRedir` maps the table to
the outstanding queries and the last rewritten answer to the translation.  What
it does not promise is that the answer is the one to this query: the code
compares no query ids.

`TtlTrack` extends `Conntrack` with the SYN/ACK branch and with
`TCP_HANDLE_OUTGOING_FAKE_PACKET`.  `opened` is the environment: connections
whose SYN/ACK has arrived and how long ago; `fakes` are the fake packets of the
last step.  `tcp_get_auto_ttl` is translated with its `uint8_t` wrap-around; its
multiplication by the float `autottl_scale` and truncation is integer division
by ten, which it equals unless the product is whole and rounded down by one.
`orderly` is a history variable like `timely`: a connection whose SYN/ACK was
recorded for it by the engine that is running, and which sends one request,
within `MaxThink` seconds of it.

`PacketLoop` is the TCP half of the loop from one end to the other.  A request is
a sequence of tokens, each standing for a byte; `una` and `window` are what the
client's TCP knows, `Segment` what it sends next or again; `wire` holds the
packets between the engine and the server, `got` what the server has reassembled.
`cfg` are the settings, as `ApplyEngineMode` and `Hayalet_RunConfig` make them.
Per segment the loop takes one of `HelloTreated`, `RequestTreated` and
`SegmentPassed`; the first two send fakes (`Fakes`), the header edits
(`Edited`) and the segment, in `Fragments` or whole (`SendTreated`), and count.
`SynAck` opens a connection and changes its window, a bystander's as well;
`Deliver`, `Lose` and `Ack` are the network and the server.  A fake carries the
flaw that keeps the server from reading it.  One limited by its TTL may lack a
TTL, end on the way or reach the server (`TtlOfFake`): which, is the business of
`TtlTrack`, and here it is any of them.  The order in which fakes and fragments
leave is not modelled, since the network reorders; inbound data is not either.
A name is a sequence of labels.  `extract_sni` finds it when it is whole in the
segment; and, since the code compares its end one byte too late, also when it
lacks its last byte, and it may then read as any name.  The allowlist is
modelled as it is, never loaded: `IsAllowlisted` returns before it calls
`LoadAllowlist`, its only caller, and the branch for HTTP requests never asks
it.  So hosts on the allowlist are treated like all others, against
`src/README.md:45`, and `BystanderAsSent` says nothing of them.

`EngineLifecycle` has the two kinds of controllers and the engine threads as
processes with a program counter; a step is one access to a shared variable.
`handle` is what the driver knows of each handle ("twice" marks a second
close), `slot` and `closing` the position of each `deinit_all`.  `returnTo` is
what the caller of `StopEngine` does next: nothing, `StartEngine`, or the end of
WinMain, after which `ProcessEnds` begins a new process.  `saved_list` is the
file `cb_save_list` writes, `blackwhitelist` the hash that `ResetWipe` empties
and `LoadLists` fills with `HostsFor` the settings read: in the settings of
filter mode 1 (`Listing`) the hosts of the file the key Blacklist names, which
is the dashboard's file in some (`Naming`) and another one, `OtherList`, in the
rest, as in those the program writes by itself.  `StopTimesOut` is the end of
the five-second wait with the thread still there.  `Next` lets the controllers
act at any moment; `PacedNext` does not (see Runs).

`EngineSwitch` is what the interface promises of all this: a switch that is off,
or on with the settings saved last.  `ImplementsSwitch` of `EngineLifecycle`
takes the settings of a thread in its packet loop and the hosts in the hash for
what is in force, and the hosts of the file that settings.ini names for the list
saved.

`PidAttribution` has the port map, the list of programs, the cache and the flow
monitors.  `owner` and `image` are the system's own view: which process has a
port, which program a process runs; ports change hands (`Connect`), process ids
are used again (`ReusePid`), the dashboard writes another list (`SelectApps`).
`LookUp` and `StoreFound` are the two halves of `GetPidFromPort` and the store
after it, between which a monitor may store as well.  `Evaluated` has two
outcomes: the verdict on the image of a process, and the refusal of one that
cannot be opened or read.  `MonitorOpens`, `MonitorFails` and `MonitorReports`
are `flow_monitor_thread`, which looks at `exiting` only when an event wakes it.
Three variables are not in the code and no guard reads them: `missed`, the ports
whose last flow nobody will report; `raced`, those whose last flow was reported
while the loop had looked up who had them before; and `quiet`, the time since
anything a verdict depends on changed.

`Desktop` has the processes of the program as its actors: `Elevate` and `Guard`
are the beginning of WinMain, `AskOther` the message to the instance that was
found, `CreateTray` the rest; `ShowDashboard` is the window procedure's test of
the dashboard flag, `TestFlag`, `SetFlag`, `Opens`, `UserCloses` and `ClearFlag`
the launch thread.  The mutex belongs to the processes that have a handle to it;
`made_elevated` says that others without rights cannot open it.

`MCDnsRedir`, `MCTtlTrack`, `MCPacketLoop`, `MCEngineLifecycle`,
`MCPidAttribution` and `MCDesktop` instantiate them for TLC; `ConntrackProofs`,
`DnsRedirProofs`, `TtlTrackProofs`, `PacketLoopProofs`, `EditProofs`,
`EngineLifecycleProofs`, `PidAttributionProofs` and `DesktopProofs` hold the
proofs.  The operators commented *Slip* are plausible mistakes in the definition
that follows them; no specification uses them, they serve to see that a property
notices the mistake.

## Runs

| run | question | result |
| --- | --- | --- |
| Dns | Does the table's hygiene survive lost, late and duplicated packets, restarts and idle periods of any length? Is every answer to a timely client matched, whatever the packets of the others do, and no client locked out by a loss? | RecordsAreYoung, FreshMatch, NoEarlyExpiry, Matched, InFlightTracked, ClientNotLockedOut hold; the redirector implements AddressTranslation |
| DnsSelectApps | Is the resolver hidden in select-apps mode? | violated: answers are not recognised |
| DnsOtherPort | Are queries redirected to a resolver on another port? | violated: none is captured |
| Ttl | Are connections kept apart under aborts, repeated requests, re-used keys and restarts? With servers 4 to 12 hops away and one whose TTL cannot be read, does the fake of an orderly connection die on the way, and is none missing? | RecordsAreYoung, OwnMeasurementUsed, FakeDiesOnTheWay, FarRequestsFaked hold |
| TtlThreeHops | Does it still at three hops, the configured minimum? | violated: 8-bit wrap |
| LoopModes | Do requests arrive whole and with their meaning, is the targeted name hidden, and are everybody else's segments left alone, in modes -1 and -4 under the four filter modes, -6 with the global one, -5 with the blacklist, and with the command line's further options? | ServerReadsRequest, RequestArrives, NameApartFromStart, BystanderAsSent, RatioBounded hold |
| LifePaced | With a controller acting only when no start or other action is under way, and no wait timing out: is the lifecycle correct, although opening and receiving may fail at any time? | all nine properties hold, StopHeeded and ImplementsSwitch among them |
| LifeInitFails | Is the driver released when a later filter fails to open? | violated: not until the next start or the end of the process |
| LifeListFile | Is the list saved in the dashboard the list in force? | violated: by default the engine reads another file |
| Targets | While ports change hands, process ids are used again, the list changes and the engine restarts in another mode: are packets attributed to the right program? | PortsAttributed, VerdictsCatchUp hold |
| Desk | Instances launched with and without rights, as guest or not, relaunched and ended at any moment: is there one owner of the engine, no flag left behind, and an answer to each request? | OneEngineOwner, FlagMeant, RequestShown hold |
| DeskTwoDashboards | Does an instance show one dashboard at a time? | violated: the flag is tested before it is set |

Each violated property quotes a sentence of the repository's documentation; the
findings in `PROJECT.json` name it and the lines that contradict it.

Bounds.  An interval of 2 seconds with ages to 4 gives every order of "younger
than", "exactly" and "older than" one and two intervals.  Two clients share
nothing but `last_cleanup`, so two show every interference; `MaxNet = 2` allows
two packets in flight for one client, or one for each, and any more are lost at
once, as the network may anyway.  Three
connections, two at different distances and one with a TTL outside the two
ranges the code knows, show every mix-up of the shared TTL.  A request of the
packet loop fits into one segment of `Mss = 20`, or has its host name in the
second, or lacks the last byte of it in the first; windows of 2 and 18 bytes,
which a server or a middlebox made small, cut a method or a hello in two, and a
header between its name and its value.  Connections follow one another
until `Cap = 4` packets are counted, after which the counters stand still and
everything else goes on.  Two engine threads are
enough since a thread that left no trace is used again; two filters are one DROP
filter and the active one (the code opens two or three, the deeper slots behave
like the first); two controllers are the two interface threads; two lists of
hosts the dashboard may save, of which each lacks what the other has, and a
third in the other file.  For attribution, one port with
two processes, since ports share nothing but the list and the cache, and a cache
of one verdict, so that two processes already displace each other; two monitors
and two events in each show a second monitor started while the first has not
left, and reports that arrive one after the other; a reload every second and a
lifetime of two keep the order of the code's 2 and 60 seconds.  Two instances,
either of which may be launched again by the user or by the other's relaunch as
soon as it has ended, with two launch threads each, of which the user asks for
two (`MaxAsked`) and second launches for the others, and one message waiting:
that more of them change nothing is proved for `OneEngineOwner` and `FlagMeant`.

Fairness.  Liveness of the DNS redirector assumes that time passes and that a
client without an answer asks again, as stub resolvers do; nothing is assumed of
the network.  Liveness of the packet loop assumes that the client resends what
is not acknowledged, that the server acknowledges, and that a packet with
something new that is sent again and again is delivered at last (strong
fairness, as TCP needs); nothing is assumed of packets that bring nothing new.
Liveness of the lifecycle assumes that a thread that can take a
step eventually does; not that a call fails, nor that a packet ever comes to
wake a loop blocked in `WinDivertRecv` on an open handle.  Nobody has to act.
Liveness of the desktop assumes that a tray window handles its messages and that
launch threads go on; a user may leave a dashboard open forever, or never close
anything.

What the properties rest on.  A property about what happens as long as something
else does not, says so in its statement: `Matched` and `InFlightTracked` speak of
`timely` clients, `FakeDiesOnTheWay` and `FarRequestsFaked` of `orderly`
connections, `PortsAttributed` of ports neither `missed` nor `raced`; the
variables only record what happened, and all the rest happens beside them.
`ServerReadsRequest` excepts settings that move the space and fragment natively
at once (`EditsAndCuts`), as only the command line can ask: with a window of eighteen
bytes the request of such a setting is sent again in other segments, where the
space goes elsewhere, and the server has parts of both.  It also excepts the
bytes of fakes that only their TTL keeps from the server (`FakesByTtl`), for
`TtlThreeHops` shows one that arrives.  `NameApartFromStart` is about requests
whose name can be cut off at all (`NameIsCutOff`), and `BystanderAsSent` about
segments: SYN/ACKs have their windows shrunk for everybody in the modes that
work by windows (hayalet.c:1649-1657), before any name is known.

The lifecycle is another matter.  Nothing in the code serialises the tray and the
dashboard, keeps them from acting during a start, or bounds the time the engine
thread takes to end; `Next` allows it all, and most properties of `LifePaced` fail
then.  `PacedSpec` excludes it: nobody acts unless all controllers are idle and no
thread is between its creation and its packet loop (`Unhurried`), and
`StopTimesOut` does not happen.  What it excludes are real behaviours of the
program, listed as hazards without a property: two starts before
`engine_running` is set make two engines (gui.c:359); a stop request is withdrawn
by `reset_hayalet_state` (hayalet.c:762); a restart after the timeout wipes the
table under the old thread (gui.c:340), and that thread clears the flag of the
new one (gui.c:317); a save between dpi_thread's reading of settings.ini and
`engine_running = 1` is lost (gui.c:287).  Neither half of the pacing can be
spared: with timeouts, or with actions at any moment, `NoDoubleClose`, `NoLeak`,
`StatusTruthful` and `SavedTakesEffect` each have a counterexample.  So
`LifePaced` is what a user who waits for the interface can count on, on a
machine where the thread ends in time, and no more.

`LifeListFile` needs no haste: with the key Blacklist as the program writes it,
the engine reads `blacklist.txt` and the dashboard writes
`userfiles\blacklist.txt`.  `SavedTakesEffect` and `ImplementsSwitch` are
therefore about the file that settings.ini names, whichever that is.  Nor is
`Desk` paced: with a relaunched instance that finds the mutex of the one about to
end, and gives up (gui.c:1339), or a launch that asks an instance that is leaving
(gui.c:1341), nobody serves, and no property says otherwise; `RequestShown` ends
with the instance that was asked.

## Proofs

`ConntrackProofs` proves four lemmas about the table: cleanup keeps what is
young, leaves a young table, and ageing preserves both.

`DnsRedirProofs`.  `Inv` is `TypeOK` with `RecordsAreYoung`; it is needed
because the bound on the age of a matched record rests on how far the cleanup
can lag behind.  From it: `TypeCorrect`, `RecordsStayYoung`, `MatchesAreFresh`,
`RecordsKeptUntilDue`, for every value of the constants.  `TimelyInv` adds
`InFlightTracked`, and that a timely client's query is redirected exactly when
its answer will be caught (`RedirectedIffCaught`).  Under `Prompt` (not in
select-apps mode, and packets count as late before an interval is over) it is
inductive, whatever happens to the packets of clients that are not timely, since
a record younger than its interval cannot be cleaned up and a second query of
the same client finds the key in use.  From it: `AnswersStayTracked`,
`AnswersMatch`; and `RedirectionExact`, which delimits the finding of
`DnsOtherPort`: no query is redirected when 53 is not among the resolvers'
ports, and every one of a redirected family is when it is.
`LockOutBounded` says, for every value of the constants, that a query is only
dropped for the sake of a record younger than two intervals, the safety half of
`ClientNotLockedOut`.  `ResolverStaysHidden` delimits the finding of
`DnsSelectApps`: outside that mode, in an engine that is not stopped and when
nobody asks the resolver by itself, `ResolverHidden` holds on any network, late
and duplicated answers included, since what was redirected is handled on its way
back (`RedirectedHandled`).
`TranslatesOnce` proves the refinement `ImplementsTranslation` from `Inv`, for
every value of the constants: a record is the query its client has outstanding,
what a cleanup deletes is forgotten, and each step of the redirector is an
`Ask`, a `Translate` or a `Forget`, with the records that expired in the same
step.

`TtlTrackProofs`.  The same invariant gives `TypeCorrect`, `RecordsStayYoung`
and `MeasurementsNotMixed` (each record holds its own connection's TTL).
`FakesExpire` needs `PromptInv`: under `Prompt` (auto TTL, and `MaxThink` less
than the interval) an orderly connection that is open has its record, and hence
never borrows the engine-wide TTL.
`Expiring` says the formula yields less than the distance for the distances at
hand; `DefaultFakesExpire` discharges it for the default options and 4 to 29
hops.  `FarFakesSent` proves `FarRequestsFaked` from the same `PromptInv`, when
the formula does not yield 0 for a server far enough away (`Reaching`; it does
yield 0 with options such as auto_ttl_2 = 20 at twenty hops); `DefaultFarFakesSent`
discharges that for the default options.

`PacketLoopProofs`.  `FragmentsTile` says that the two fragments are parts of the
segment, none empty, and cover it, for any size; `EditKeepsLength` that the
header edits keep the number of bytes, so that the numbers of the stream stay
true.  From them `TypeCorrect`: every packet lies within the request.
`BystandersAsSent` and `CountsPlausible` hold for settings named by
`ListsFollowMode` and `FakesAreCut`, which those of the interface satisfy.

`EditProofs` is about the modes that edit HTTP requests, and about the name.
What a server understands of a text (`Meaning`) are its bytes but for spaces, in
their order and whatever their case, and how many bytes there are.  Two texts
are `Aligned` when a permutation of their places matches their bytes and keeps
the order of all but spaces (`Moves`); alignments of neighbouring parts join
(`AlignedJoin`), the edits align a segment with what is sent (`SpaceMovedAt`,
`EditedAligned`), and aligned texts mean the same (`AlignedMeaning`, by counting
what precedes a byte, so that no induction is needed).  `ReadInv` has three
parts beside types.  A fake the server would read, and so a byte of one among
what it has, comes only of settings that limit fakes by TTL (`FakeInv`).  Where
no space is moved, packets without a flaw carry the request's bytes at their
places, and so does what the server has but for bytes of fakes (`StreamInv`).
Where nothing is cut, and as long as the server has no byte of a fake, every
packet it accepts is aligned with the request at its place, and so is what it
has (`WholeInv`).  The settings that do both are those the property excepts.  From
it `RequestRead`: `ServerReadsRequest`, for every setting.
`NameHidden` proves `NameApartFromStart`, edits, losses and torn names included,
when settings cut what they treat (`CutsAll`); MCPacketLoop assumes of the
requests and settings of `LoopModes` that their names can be cut off, where TLC
evaluates it, all but one made to have its name torn.  `InterfaceSafe` and
`InterfaceHidesName` discharge the conditions on settings for every mode, filter
mode and allowlist that Hayalet_RunConfig can make of the interface's choices
(`Interface`), so that those four properties, with the exceptions they state,
hold for the program as its users see it; none of its settings is of the kind
`EditsAndCuts` excepts, and mode -5 is of the kind `FakesByTtl` does.

`EngineLifecycleProofs` is about `PacedSpec` and says so in every theorem: without
the pacing two engines, double closes, lost handles and a wrong status are
reached (see Runs).  None of the properties is inductive.  The invariant has
three layers, proved one on top of the other.  `Control` says who can be where:
one controller acts at a time, none while a thread starts, a thread that is alive
is the one `hThread` names (`HandleKept`), the status flag is exact
(`StatusExact`), and a controller past its wait is alone (`StoppedFirst`).
`Driver` uses that only one process can be in `deinit_all`: the table names no
handle twice (`TableOnce`) and none that is closed but the one being closed
(`TableHeld`), and what each thread has
opened follows from where it stands (`Stage`).  `Settings` says that a thread
which has read the settings or the list has the current ones, or that a
controller is on its way to replace it.  From them `TypeCorrect`,
`HandlesClosedOnce`, `HandlesKept`, `RunsReleased`, `StatusIsTrue` and
`SavedInForce`, for the list of the file that settings.ini names; and
`StepsOfSwitch`, the safety half of `ImplementsSwitch`.  `StopsHeeded`, the safety
half of `StopReturns`, needs `Heeded` on top: the handle a loop receives from is
one that shutdown_hayalet reaches (`Reachable`), and a stop request stands until
its thread has ended (`Requested`), which is where the pacing keeps it from being
withdrawn.  `OffMeansReleased` proves `ReleasedAtRest`, which `LifeInitFails`
finds violated, as long as no filter fails to open; paced, that failure is the
only cause, while a wait that times out and a second engine are others.  All hold
for any number of controllers, threads, filters, settings and hosts.

`PidAttributionProofs`.  `PortsAttributed` is inductive only with what the queues
and the lookup hold: the last report waiting for a port names its owner
(`LastReported`), and a lookup found the owner or nobody, or a report of the
port is waiting, will never come, or came meanwhile (`LookupRight`).
`VerdictsCatchUp` rests on how old things are
compared with `quiet`: a list read since the last change is the current one
(`LoadedRight`), the cache is no older than the list (`CachedSince`), and a
verdict reached since the last change is right (`CachedRight`).  From them
`TypeCorrect`, `PortsRight` and `VerdictsRight`, without any assumption.

`DesktopProofs`.  `OneEngineOwner` is not inductive: it says nothing of the
instance that has passed the guard and has no window yet, nor why a second one
cannot follow it.  `Inv` adds that an elevated instance past the guard holds the
mutex (`OwnersHold`), where windows and launch threads can be (`TrayPlaced`,
`LaunchersPlaced`), and uniqueness of owners.  A relaunch and a denied
CreateMutex make no owner, since the first starts before the guard and the
second has no rights.  From it `TypeCorrect` and `EngineOwnerUnique`, for any
number of instances and in any order of launches and ends.  `FlagTruthful` proves
that a dashboard flag is never left set without a thread that will clear it
(`FlagMeant`), also when two dashboards are open and the flag is already clear
for one of them; it is inductive, given the types.

Only model-checked: `ClientNotLockedOut`, `RequestArrives`, `StopReturns`,
`RequestShown` and the liveness half of
`ImplementsSwitch`, since liveness under fairness is beyond the prover; the
safety they rest on is proved for all of them (`LockOutBounded`,
`RequestRead`, `StopsHeeded`, `FlagTruthful`, `StepsOfSwitch`).
No model uses RECURSIVE operators and no result rests on induction over data.

## Not modelled, and the plan

The repository has some 67,000 lines of code, of which the program's own are
about 5,000: the rest is `zapretupdate/` (two copies of another project, which
nothing here calls), the WebView2 header `webview_core.h`, uthash and WinDivert.
Of its own lines about 1,000 are byte tables (the payloads of `fakepackets.c`)
and strings, and about 2,000 lay out windows.  So the models cover most of what
changes state, and a small share of the lines.

Left to do, in this order:

1. Inbound data of the packet loop: the drop of a censor's HTTP redirects, a
   heuristic on the packet's bytes with no state.
2. The lengths at which `blackwhitelist_load_list` and
   `blackwhitelist_check_hostname` refuse a host.

Left out for good: the Windows service (`service.c` runs the same run_hayalet
from the service manager; started from the desktop, `service_register` fails at
once and changes nothing); the order in which fakes and fragments leave, since
the network may reorder them; the payload tables; dialogs, log viewer,
diagnostics and update check (layout and one-shot network reads; they touch the
engine only through RestartEngine; nothing opens `SettingsDialogProc` any more,
and `AutoProbeThread` only sets a label); the texts of filter strings; third-party
code.  Packets too short for DNS, and the data race on plain `int` flags beyond
interleaving, are abstracted.
