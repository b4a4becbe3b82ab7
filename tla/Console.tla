------------------------------ MODULE Console ------------------------------
(***************************************************************************)
(* The clients of the control daemon and the calls they make: the terminal *)
(* dashboard with its polls, requests and answers under way at once, the   *)
(* download command that draws a bar until its job ends, and calls that    *)
(* other commands and tools make meanwhile.  The daemon is what its RPC    *)
(* handlers do to one record.                                              *)
(*                                                                         *)
(* The dashboard handles one message at a time; what it asks for runs in   *)
(* goroutines whose answers come back as messages in any order.            *)
(***************************************************************************)
EXTENDS Naturals, Sequences, SequencesExt, FiniteSets

CONSTANTS
  Lists,        \* the profile lists the daemon may start with
  BackendOf(_), \* a profile's backend
  Backends,     \* the sequence of backends
  ModelsOf(_),  \* the model files a backend can have
  TargetOf(_),  \* the model file a profile's download makes
  Missing,      \* the model files that are not there at the start
  Sessions,     \* what users do: sets of the dashboard's keys, of the kinds of calls that other
                \* clients make, "command" for the download command and "fault" for failing calls
  MaxJobs,      \* bound on downloads
  MaxWork,      \* bound on keys, other clients' calls, commands and faults together
  MaxFaults     \* bound on failing calls

ASSUME ConsoleOK == MaxJobs \in Nat /\ MaxWork \in Nat /\ MaxFaults \in Nat

VARIABLES
  world,   \* the daemon
  dash,    \* the dashboard
  poll,    \* its poll under way
  fetch,   \* the backend whose catalog it has asked for
  rpcs,    \* its requests under way
  cli,     \* the download command
  work, faults,
  mine     \* downloads whose start the dashboard has been told of

vars == <<world, dash, poll, fetch, rpcs, cli, work, faults, mine>>

None == "none"
Works == work < MaxWork /\ work' = work + 1
Fault == "fault" \in world.session /\ faults < MaxFaults /\ faults' = faults + 1

-----------------------------------------------------------------------------
(* The daemon: its handlers                                                *)

Terminal(s) == s # "running"
Req(kind, target, arg) == [kind |-> kind, target |-> target, arg |-> arg]
Active(w) == IF w.running = None THEN None ELSE BackendOf(w.running)
Known(w, p) == p \in ToSet(w.profiles)

\* The job a download gets: that of the transfer that still has its target, cancelled or not,
\* or one of its own.
Owners(w, p) == {id \in DOMAIN w.jobs : w.jobs[id].live /\ TargetOf(w.jobs[id].p) = TargetOf(p)}
Started(w, p) ==
  IF TargetOf(p) \notin w.models /\ Owners(w, p) # {} THEN CHOOSE id \in Owners(w, p) : TRUE ELSE Len(w.jobs) + 1
Job(p, s) == [p |-> p, state |-> s, live |-> s = "running"]

\* What a handler refuses: an unknown name, a runtime that is in the way, a job that is over.
Accepts(w, r) ==
  /\ r.kind \in {"start", "restart", "cleanup", "autostart", "download", "apply"} => Known(w, r.target)
  /\ r.kind = "start" => Active(w) \in {None, BackendOf(r.target)} /\ (w.running \in {None, r.target} \/ r.arg)
  /\ r.kind = "restart" => w.running \in {None, r.target}
  /\ r.kind = "put" => ~Known(w, r.target)
  /\ r.kind = "delete" => r.target \in w.models
  /\ r.kind = "download" => Started(w, r.target) <= MaxJobs
  /\ r.kind = "cancel" => ~Terminal(w.jobs[r.target].state)
  /\ r.kind = "apply" => w.jobs[r.arg].state \in {"completed", "already"}

StartRuntime(w, p) == [w EXCEPT !.running = p]
StopRuntime(w, p) == IF w.running = p THEN [w EXCEPT !.running = None] ELSE w
ResetRuntimes(w) == [w EXCEPT !.running = None]
RestartRuntime(w, p) == [w EXCEPT !.running = p]
PutProfile(w, p) == [w EXCEPT !.profiles = Append(@, p)]
CleanupProfile(w, p) == [StopRuntime(w, p) EXCEPT !.profiles = Remove(@, p), !.auto = @ \ {p}]
DeleteLocalModel(w, m) == [w EXCEPT !.models = @ \ {m}]
SetProfileAutostart(w, p, enabled) == [w EXCEPT !.auto = IF enabled THEN @ \cup {p} ELSE @ \ {p}]
StartModelDownload(w, p) ==
  CASE TargetOf(p) \in w.models -> [w EXCEPT !.jobs = Append(@, Job(p, "already"))]
    [] Started(w, p) \in DOMAIN w.jobs -> w
    [] OTHER -> [w EXCEPT !.jobs = Append(@, Job(p, "running"))]
CancelModelDownload(w, id) == [w EXCEPT !.jobs[id].state = "cancelled"]
ApplyDownloadToProfile(w) == w
GetInfo(w) == [running |-> w.running, auto |-> w.auto]
ListProfiles(w) == w.profiles
GetModelDownload(w, id) == w.jobs[id].state
ListLocalModels(w, b) == IF b = None THEN {} ELSE ModelsOf(b) \cap w.models
InstallBackend(w, b) == [w EXCEPT !.installed = @ \cup {b}]

Handle(w, r) ==
  IF ~Accepts(w, r) THEN w ELSE
  CASE r.kind = "start" -> StartRuntime(w, r.target)
    [] r.kind = "stop" -> StopRuntime(w, r.target)
    [] r.kind = "reset" -> ResetRuntimes(w)
    [] r.kind = "restart" -> RestartRuntime(w, r.target)
    [] r.kind = "put" -> PutProfile(w, r.target)
    [] r.kind = "cleanup" -> CleanupProfile(w, r.target)
    [] r.kind = "delete" -> DeleteLocalModel(w, r.target)
    [] r.kind = "autostart" -> SetProfileAutostart(w, r.target, r.arg)
    [] r.kind = "download" -> StartModelDownload(w, r.target)
    [] r.kind = "cancel" -> CancelModelDownload(w, r.target)
    [] r.kind = "apply" -> ApplyDownloadToProfile(w)
    [] r.kind = "install" -> InstallBackend(w, r.target)
    [] OTHER -> w

\* A download ends by itself; one that was cancelled too late has its file all the same.  The
\* transfer's goroutine leaves after that.
JobEnds ==
  /\ \E id \in DOMAIN world.jobs :
       /\ world.jobs[id].live
       /\ LET file == TargetOf(world.jobs[id].p)
          IN  \/ world.jobs[id].state = "running" /\ world' = [world EXCEPT !.jobs[id].state = "failed"]
              \/ /\ world.jobs[id].state = "running"
                 /\ world' = [world EXCEPT !.jobs[id].state = "completed", !.models = @ \cup {file}]
              \/ world.jobs[id].state # "running" /\ world' = [world EXCEPT !.jobs[id].live = FALSE]
              \/ /\ world.jobs[id].state = "cancelled"
                 /\ world' = [world EXCEPT !.jobs[id].live = FALSE, !.models = @ \cup {file}]
  /\ UNCHANGED <<dash, poll, fetch, rpcs, cli, work, faults, mine>>

-----------------------------------------------------------------------------
(* Calls of other clients                                                  *)

AnyCall(w) ==
  {Req(k, p, FALSE) : k \in {"start", "stop", "cleanup", "restart"}, p \in ToSet(w.profiles)}
  \cup {Req("put", "new", FALSE), Req("reset", None, FALSE)}

\* A command line command is one call over the socket.
RpcCommand ==
  /\ Works
  /\ \E r \in AnyCall(world) : r.kind \in world.session /\ Accepts(world, r) /\ world' = Handle(world, r)
  /\ UNCHANGED <<dash, poll, fetch, rpcs, cli, faults, mine>>

\* The same calls as tools: behind the gateway's token, and only those of the tool table.
ToolCalls == {"start", "stop", "restart", "reset", "put", "cleanup", "delete", "autostart", "download", "cancel", "apply", "install"}
RequireToken(token, disabled) == token \/ disabled
McpTool ==
  /\ Works
  /\ \E r \in AnyCall(world), token \in BOOLEAN :
       /\ r.kind \in world.session \cap ToolCalls /\ RequireToken(token, FALSE)
       /\ Accepts(world, r) /\ world' = Handle(world, r)
  /\ UNCHANGED <<dash, poll, fetch, rpcs, cli, faults, mine>>

-----------------------------------------------------------------------------
(* The dashboard: refreshing                                               *)

AllKeys == {"tab", "shift+tab", "up", "down", "/", "esc", "enter", "d", "y", "R", "n", "g", "c", "i", "a", "s",
            "r", "[", "]", "page"}
Keys == world.session \cap AllKeys
Open == Keys # {}
Panes == <<"profiles", "catalog", "local", "downloads">>
Pane(d) == Panes[d.pane]

\* The backend chosen on the Models page, once a poll has brought the list.
ChosenBackend(d) == IF d.known THEN Backends[(d.bidx % Len(Backends)) + 1] ELSE None

Rows(d) == [i \in 1..4 |-> CASE Panes[i] = "profiles" -> Len(d.profiles)
                             [] Panes[i] = "local" -> Len(d.local)
                             [] Panes[i] = "downloads" -> Len(d.down)
                             [] OTHER -> 0]
Least(a, b) == IF a < b THEN a ELSE b

\* Drawing sets the tables' rows, which keeps each cursor within them; 0 selects nothing.
Drawn(d) == [d EXCEPT !.cursor = [i \in 1..4 |-> Least(d.cursor[i], Rows(d)[i])]]

NoPoll == [on |-> FALSE, backend |-> None, base |-> "info", running |-> None, auto |-> {},
           profiles |-> <<>>, local |-> "ask", models |-> {}, at |-> 1, n |-> 0, got |-> None,
           own |-> FALSE, down |-> <<>>, failed |-> FALSE]
NewPoll(d) == [NoPoll EXCEPT !.on = TRUE, !.backend = ChosenBackend(d), !.n = Len(d.down)]

\* refresh: one poll at a time, and one catalog request; a refresh wanted meanwhile is dropped.
Refreshed(d) ==
  IF d.refreshing THEN d
  ELSE [d EXCEPT !.refreshing = TRUE, !.fetching = @ \/ ChosenBackend(d) # None]
Refresh(d) ==
  /\ dash' = Drawn(Refreshed(d))
  /\ poll' = IF d.refreshing THEN poll ELSE NewPoll(d)
  /\ fetch' = IF ~d.refreshing /\ ~d.fetching THEN ChosenBackend(d) ELSE fetch

Tick == Open /\ Refresh(dash) /\ UNCHANGED <<world, rpcs, cli, work, faults, mine>>

\* The poll's goroutines.  base asks for the information first and for the profiles last.
PollInfo ==
  /\ poll.on /\ poll.base = "info"
  /\ poll' = [poll EXCEPT !.base = "profiles", !.running = GetInfo(world).running, !.auto = GetInfo(world).auto]
  /\ UNCHANGED <<world, dash, fetch, rpcs, cli, work, faults, mine>>
PollProfiles ==
  /\ poll.on /\ poll.base = "profiles"
  /\ poll' = [poll EXCEPT !.base = "ok", !.profiles = ListProfiles(world)]
  /\ UNCHANGED <<world, dash, fetch, rpcs, cli, work, faults, mine>>
PollLocal ==
  /\ poll.on /\ poll.local = "ask"
  /\ poll' = [poll EXCEPT !.local = "ok", !.models = ListLocalModels(world, poll.backend)]
  /\ UNCHANGED <<world, dash, fetch, rpcs, cli, work, faults, mine>>

\* The rows of the downloads, one after the other.  The slice is the dashboard's own until an
\* append moves that to another array: what is stored is at once what the dashboard shows.
PollDown(p, d) == IF p.own THEN p.down ELSE d.down
PollDownload ==
  /\ poll.on /\ ~poll.failed /\ poll.at <= poll.n /\ poll.got = None
  /\ poll' = [poll EXCEPT !.got = GetModelDownload(world, PollDown(poll, dash)[poll.at].id)]
  /\ UNCHANGED <<world, dash, fetch, rpcs, cli, work, faults, mine>>
PollStore ==
  /\ poll.on /\ poll.got # None
  /\ IF poll.own
     THEN /\ poll' = [poll EXCEPT !.at = @ + 1, !.got = None, !.down[poll.at].state = poll.got]
          /\ dash' = dash
     ELSE /\ poll' = [poll EXCEPT !.at = @ + 1, !.got = None]
          /\ dash' = [dash EXCEPT !.down[poll.at].state = poll.got]
  /\ UNCHANGED <<world, fetch, rpcs, cli, work, faults, mine>>

\* A call of the poll fails or the poll's two seconds are over.
PollFails ==
  /\ poll.on /\ Fault
  /\ \/ poll.base \in {"info", "profiles"} /\ poll' = [poll EXCEPT !.base = "failed"]
     \/ poll.local = "ask" /\ poll' = [poll EXCEPT !.local = "failed"]
     \/ poll.at <= poll.n /\ ~poll.failed /\ poll' = [poll EXCEPT !.failed = TRUE, !.got = None]
  /\ UNCHANGED <<world, dash, fetch, rpcs, cli, work, mine>>

PollDone == poll.on /\ poll.base \in {"ok", "failed"} /\ poll.local # "ask" /\ (poll.failed \/ poll.at > poll.n)

\* applyPoll: what failed keeps its last value; the poll's warnings replace all others, and
\* the poll's downloads the dashboard's.
Polled(d, p) ==
  [d EXCEPT !.known = @ \/ p.base = "ok",
            !.profiles = IF p.base = "ok" THEN p.profiles ELSE @,
            !.running = IF p.base = "ok" THEN p.running ELSE @,
            !.auto = IF p.base = "ok" THEN p.auto ELSE @,
            !.local = IF p.local = "ok" THEN SetToSeq(p.models) ELSE @,
            !.localBackend = IF p.local = "ok" THEN p.backend ELSE @,
            !.down = IF p.failed THEN @ ELSE SubSeq(PollDown(p, d), 1, p.n),
            !.warn = FALSE]
ApplyPollReturns(d, p) == IF p.base = "failed" THEN [d EXCEPT !.warn = TRUE] ELSE [Polled(d, p) EXCEPT !.refreshing = FALSE]
ApplyPoll(d, p) == [Polled(d, p) EXCEPT !.refreshing = FALSE]
PollAnswers ==
  /\ PollDone
  /\ dash' = Drawn(ApplyPoll(dash, poll)) /\ poll' = NoPoll
  /\ UNCHANGED <<world, fetch, rpcs, cli, work, faults, mine>>

\* applyCatalog: the answer is taken for the catalog whatever backend is chosen by now.
CatalogAnswers ==
  /\ fetch # None
  /\ \/ dash' = [dash EXCEPT !.fetching = FALSE, !.catalog = fetch] /\ faults' = faults
     \/ dash' = [dash EXCEPT !.fetching = FALSE] /\ Fault
  /\ fetch' = None
  /\ UNCHANGED <<world, poll, rpcs, cli, work, mine>>

-----------------------------------------------------------------------------
(* The dashboard: keys                                                     *)

Selected(d, list, i) == IF d.cursor[i] \in DOMAIN list THEN list[d.cursor[i]] ELSE None
Profile(d) == Selected(d, d.profiles, 1)
LocalModel(d) == Selected(d, d.local, 3)
HasRow(d) == d.cursor[4] \in DOMAIN d.down
Row(d) == d.down[d.cursor[4]]

Nothing(d) == [d |-> d, out |-> {}]
Send(d, r) == [d |-> d, out |-> {r}]

QuestionKind(r) == <<r.kind>>
\* What a question says, and the second of two equal questions sends the request.
Question(r) == <<r.kind, r.target>>
\* A key that only answers puts none.
Confirm(d, r, answers) ==
  IF d.pending = Question(r) THEN Send([d EXCEPT !.pending = <<>>, !.asked = <<>>], r)
  ELSE IF answers THEN Nothing(d)
  ELSE Nothing([d EXCEPT !.pending = Question(r), !.asked = <<r.kind, r.target>>])
Disarm(d) == [d EXCEPT !.pending = <<>>, !.asked = <<>>]

\* Another backend is active (every profile here has an address of its own): only a reset helps.  The question names both backends.
BackendConflict(d, p) == d.running # None /\ BackendOf(d.running) # BackendOf(p)
StartNeedsReplace(d, p) == d.running # None

Enter(d) ==
  CASE Pane(d) = "profiles" /\ Profile(d) \notin {None, d.running} ->
         IF BackendConflict(d, Profile(d)) THEN Confirm(d, Req("reset", BackendOf(d.running), BackendOf(Profile(d))), FALSE)
         ELSE IF StartNeedsReplace(d, Profile(d)) THEN Confirm(d, Req("start", Profile(d), TRUE), FALSE)
         ELSE Send(d, Req("start", Profile(d), FALSE))
    [] Pane(d) = "downloads" /\ HasRow(d) /\ Row(d).state \in {"completed", "already"} ->
         Send(d, Req("apply", Row(d).p, Row(d).id))
    [] OTHER -> Nothing(d)

Destroy(d, confirm) ==
  CASE Pane(d) = "profiles" /\ Profile(d) # None -> Confirm(d, Req("cleanup", Profile(d), None), confirm)
    [] Pane(d) = "local" /\ LocalModel(d) # None -> Confirm(d, Req("delete", LocalModel(d), ChosenBackend(d)), confirm)
    [] OTHER -> Nothing(d)

Restart(d) ==
  IF Pane(d) = "profiles" /\ Profile(d) # None /\ Profile(d) = d.running
  THEN Confirm(d, Req("restart", Profile(d), None), FALSE) ELSE Nothing(d)

\* A profile for the selected model: not while the list is another backend's.
CreateProfile(d) ==
  IF Pane(d) = "local" /\ LocalModel(d) # None /\ d.localBackend = ChosenBackend(d)
  THEN Send(d, Req("put", "new", LocalModel(d))) ELSE Nothing(d)

Navigate(d, k) ==
  Disarm(CASE k = "tab" -> [d EXCEPT !.pane = (@ % 4) + 1]
           [] k = "shift+tab" -> [d EXCEPT !.pane = ((@ + 2) % 4) + 1]
           [] k = "up" -> [d EXCEPT !.cursor[d.pane] = IF @ > 1 THEN @ - 1 ELSE Least(1, Rows(d)[d.pane])]
           [] k = "down" -> [d EXCEPT !.cursor[d.pane] = Least(@ + 1, Rows(d)[d.pane])]
           [] k = "/" -> [d EXCEPT !.search = Pane(d) = "catalog"]
           [] OTHER -> d)

\* While something is looked for in the catalog every key is part of it but those that end it.
Capturing(d) == d.page = "models" /\ Pane(d) = "catalog" /\ d.search
Search(d, k) == [d EXCEPT !.search = k \notin {"esc", "enter"}]

ModelsKey(d, k) ==
  CASE Capturing(d) -> Nothing(Search(d, k))
    [] k \in {"tab", "shift+tab", "up", "down", "/", "esc"} -> Nothing(Navigate(d, k))
    [] k = "enter" -> Enter(d)
    [] k \in {"d", "y"} -> Destroy(d, k = "y")
    [] k = "R" -> Restart(d)
    [] k = "n" -> CreateProfile(d)
    [] k = "g" /\ Profile(d) # None -> Send(d, Req("download", Profile(d), None))
    [] k = "c" /\ HasRow(d) /\ Row(d).state = "running" -> Send(d, Req("cancel", Row(d).id, Row(d).p))
    [] k = "i" /\ ChosenBackend(d) # None -> Send(d, Req("install", ChosenBackend(d), None))
    [] OTHER -> Nothing(d)

\* The Services page.  A service being stopped takes no more commands until that is over.
ServicesKey(d, k) ==
  CASE k = "a" /\ d.running # None -> Send(d, Req("autostart", d.running, d.running \notin d.auto))
    [] k = "enter" /\ d.running # None -> Send(d, Req("stop", d.running, None))
    [] k = "s" /\ ~d.stopping -> Send([d EXCEPT !.stopping = TRUE], Req("service", "web", None))
    [] OTHER -> Nothing(d)

Press(d, k) == IF d.page = "models" THEN ModelsKey(d, k) ELSE ServicesKey(d, k)

Sent(out) == {[r |-> r, n |-> work, st |-> "sent", ok |-> FALSE, row |-> {}] : r \in out}

Key ==
  /\ Open /\ Works
  /\ \E k \in Keys \ {"r", "[", "]", "page"} :
       LET x == Press(dash, k)
       IN  dash' = Drawn(x.d) /\ rpcs' = rpcs \cup Sent(x.out)
  /\ UNCHANGED <<world, poll, fetch, cli, faults, mine>>

PageKey ==
  /\ Open /\ Works /\ "page" \in Keys /\ ~Capturing(dash)
  /\ dash' = [dash EXCEPT !.page = IF @ = "models" THEN "services" ELSE "models"]
  /\ UNCHANGED <<world, poll, fetch, rpcs, cli, faults, mine>>

\* Another backend, and the refresh key: the question stays, the refresh may be dropped.
MoveBackend(d, k) ==
  IF ~d.known THEN d
  ELSE [d EXCEPT !.bidx = (@ + IF k = "]" THEN 1 ELSE Len(Backends) - 1) % Len(Backends)]
RefreshKey ==
  /\ Open /\ Works /\ ~Capturing(dash)
  /\ \E k \in Keys \cap {"r", "[", "]"} :
       Refresh(IF k # "r" /\ dash.page = "models" THEN MoveBackend(dash, k) ELSE dash)
  /\ UNCHANGED <<world, rpcs, cli, faults, mine>>

-----------------------------------------------------------------------------
(* The dashboard: requests                                                 *)

\* A service's process is started or stopped on this machine, a runtime by a call.
RunServiceAction(w, r) == IF r.kind = "service" THEN w ELSE Handle(w, r)
RunRPC(w, r) == IF r.kind \in {"service", "stop", "restart"} THEN RunServiceAction(w, r) ELSE Handle(w, r)

\* A call about a download is answered with its job.
JobRow(w, id) == [id |-> id, p |-> w.jobs[id].p, state |-> w.jobs[id].state]
Told(w, r) ==
  LET after == RunRPC(w, r)
  IN  CASE ~Accepts(w, r) -> {}
        [] r.kind = "cancel" -> {JobRow(after, r.target)}
        [] r.kind = "download" -> {JobRow(after, Started(w, r.target))}
        [] OTHER -> {}

\* The call is made and answered.
Serve(x) ==
  /\ x.st = "sent"
  /\ world' = RunRPC(world, x.r)
  /\ rpcs' = (rpcs \ {x}) \cup {[x EXCEPT !.st = "done", !.ok = Accepts(world, x.r), !.row = Told(world, x.r)]}
  /\ UNCHANGED <<dash, poll, fetch, cli, work, faults, mine>>

\* The call fails on its way there or back.
ServeFails(x) ==
  /\ x.st = "sent" /\ Fault
  /\ world' \in {world, RunRPC(world, x.r)}
  /\ rpcs' = (rpcs \ {x}) \cup {[x EXCEPT !.st = "done"]}
  /\ UNCHANGED <<dash, poll, fetch, cli, work, mine>>

Listed(d, id) == \E i \in DOMAIN d.down : d.down[i].id = id
UpsertDownload(d, row) ==
  IF Listed(d, row.id) THEN [d EXCEPT !.down = [i \in DOMAIN @ |-> IF @[i].id = row.id THEN row ELSE @[i]]]
  ELSE [d EXCEPT !.down = Append(@, row)]

\* actionMsg: the warning or the row, every service unlocked, and a refresh.
ActionDone(d, x) ==
  LET shown == IF x.row = {} THEN d ELSE UpsertDownload(d, CHOOSE row \in x.row : TRUE)
  IN  [shown EXCEPT !.warn = ~x.ok, !.stopping = FALSE]
ActionAnswers(x) ==
  /\ x.st = "done" /\ rpcs' = rpcs \ {x}
  /\ LET d == ActionDone(dash, x)
     IN  /\ dash' = Drawn(Refreshed(d))
         /\ poll' = IF ~dash.refreshing THEN NewPoll(d)
                    ELSE IF poll.own \/ Len(d.down) = Len(dash.down) THEN poll
                    ELSE [poll EXCEPT !.own = TRUE, !.down = dash.down]
         /\ fetch' = IF ~dash.refreshing /\ ~dash.fetching THEN ChosenBackend(d) ELSE fetch
         /\ mine' = mine \cup {row.id : row \in x.row}
  /\ UNCHANGED <<world, cli, work, faults>>

-----------------------------------------------------------------------------
(* infr model download, on a terminal                                      *)

NoCli == [pc |-> "off", id |-> 0, shown |-> "running", poll |-> None, stop |-> None, presses |-> 0, exit |-> None]

Quit(c, exit) == [c EXCEPT !.pc = "quit", !.exit = exit, !.poll = None, !.stop = None]

\* downloadStatusMsg: an error or a terminal state ends the command, else it asks again.
StatusMsg(c, s) ==
  IF s = "error" THEN Quit(c, "error")
  ELSE IF Terminal(s) THEN Quit([c EXCEPT !.shown = s], s)
  ELSE [c EXCEPT !.shown = s]

\* A job that is over when the answer comes, one that was there before it, is just reported.
DownloadCommand ==
  /\ cli.pc = "off" /\ "command" \in world.session /\ Works
  /\ \E p \in ToSet(world.profiles) :
       /\ Started(world, p) <= MaxJobs
       /\ world' = StartModelDownload(world, p)
       /\ cli' = StatusMsg([NoCli EXCEPT !.pc = "run", !.id = Started(world, p), !.poll = "ask"],
                           GetModelDownload(world', Started(world, p)))
  /\ UNCHANGED <<dash, poll, fetch, rpcs, faults, mine>>

CliAsks ==
  /\ cli.pc = "run"
  /\ \/ /\ cli.poll = "ask" /\ cli' = [cli EXCEPT !.poll = GetModelDownload(world, cli.id)]
        /\ UNCHANGED <<world, faults>>
     \/ /\ cli.stop = "ask" /\ world' = Handle(world, Req("cancel", cli.id, None))
        /\ cli' = [cli EXCEPT !.stop = IF Accepts(world, Req("cancel", cli.id, None)) THEN "cancelled" ELSE "error"]
        /\ faults' = faults
     \/ cli.poll = "ask" /\ Fault /\ cli' = [cli EXCEPT !.poll = "error"] /\ world' = world
     \/ cli.stop = "ask" /\ Fault /\ cli' = [cli EXCEPT !.stop = "error"] /\ world' = world
  /\ UNCHANGED <<dash, poll, fetch, rpcs, work, mine>>

CliHears ==
  /\ cli.pc = "run"
  /\ \/ cli.poll \notin {None, "ask"} /\ cli' = StatusMsg([cli EXCEPT !.poll = "ask"], cli.poll)
     \/ cli.stop \notin {None, "ask"} /\ cli' = StatusMsg([cli EXCEPT !.stop = None], cli.stop)
  /\ UNCHANGED <<world, dash, poll, fetch, rpcs, work, faults, mine>>

CancelQuits(c) == Quit(c, c.shown)
\* The first interrupt cancels the job, the second stops watching it.
Cancel(c) == IF c.presses > 0 THEN Quit(c, c.shown) ELSE [c EXCEPT !.stop = "ask"]
Interrupt ==
  /\ cli.pc = "run" /\ Works
  /\ cli' = [Cancel(cli) EXCEPT !.presses = @ + 1]
  /\ UNCHANGED <<world, dash, poll, fetch, rpcs, faults, mine>>

-----------------------------------------------------------------------------
Init ==
  /\ \E l \in Lists, c \in Sessions :
       world = [session |-> c, profiles |-> l, running |-> None, auto |-> {}, jobs |-> <<>>, installed |-> {},
                models |-> UNION {ModelsOf(b) : b \in ToSet(Backends)} \ Missing]
  /\ dash = [page |-> "models", pane |-> 1, cursor |-> [i \in 1..4 |-> 1], bidx |-> 0, pending |-> <<>>, asked |-> <<>>,
             known |-> FALSE, profiles |-> <<>>, running |-> None, auto |-> {}, local |-> <<>>, localBackend |-> None,
             down |-> <<>>, catalog |-> None, warn |-> FALSE, refreshing |-> TRUE, fetching |-> FALSE, stopping |-> FALSE, search |-> FALSE]
  /\ poll = [NoPoll EXCEPT !.on = Open] /\ fetch = None /\ rpcs = {} /\ cli = NoCli
  /\ work = 0 /\ faults = 0 /\ mine = {}

PollStep == PollInfo \/ PollProfiles \/ PollLocal \/ PollDownload \/ PollStore \/ PollAnswers

Next ==
  \/ JobEnds \/ RpcCommand \/ McpTool
  \/ Tick \/ PollStep \/ PollFails \/ CatalogAnswers
  \/ Key \/ PageKey \/ RefreshKey
  \/ \E x \in rpcs : Serve(x) \/ ServeFails(x) \/ ActionAnswers(x)
  \/ DownloadCommand \/ CliAsks \/ CliHears \/ Interrupt

Spec == Init /\ [][Next]_vars

\* The ticker goes on, and every call is answered or times out.
FairSpec ==
  /\ Spec
  /\ WF_vars(Tick) /\ WF_vars(PollStep) /\ WF_vars(CatalogAnswers)
  /\ WF_vars(\E x \in rpcs : Serve(x) \/ ActionAnswers(x))

-----------------------------------------------------------------------------
(* Properties                                                              *)

\* A request that stops, replaces or removes something is for what the question named when it
\* was first put, however the polls have changed the tables under the cursor meanwhile.
ConfirmedIsShown ==
  [][\A x \in rpcs' \ rpcs :
       (x.st = "sent" /\ (x.r.kind \in {"cleanup", "delete", "restart", "reset"} \/ (x.r.kind = "start" /\ x.r.arg)))
         => dash.asked = <<x.r.kind, x.r.target>>]_vars

\* Once nothing changes any more the dashboard comes to show the daemon as it is, and the
\* chosen backend's catalog, although refreshes are dropped, polls fail and answers overtake
\* each other.
Shows ==
  /\ dash.profiles = world.profiles /\ dash.running = world.running /\ dash.auto = world.auto
  /\ dash.catalog = ChosenBackend(dash) /\ dash.localBackend = ChosenBackend(dash)
  /\ \A i \in DOMAIN dash.down : dash.down[i].state = world.jobs[dash.down[i].id].state
ShownEventually == <>[](Open => Shows)

\* How the download command ends is how its job ended, unless a call of it failed or it is
\* interrupted a second time: then the job may go on by itself.
ExitReflectsJob ==
  cli.pc = "quit" =>
    \/ cli.exit = "error"
    \/ cli.exit = world.jobs[cli.id].state
    \/ cli.exit = "running" /\ cli.presses > 1

-----------------------------------------------------------------------------
(* Said by the code's comments or expected of it, and not so: see "Known   *)
(* disagreements" in README.md.  No run of the project checks these.       *)

\* A download whose start the dashboard was told of stays in its table.
DownloadStaysListed == \A id \in mine : Listed(dash, id)

\* A service that is being stopped stays locked.
LockedWhileStopping == (\E x \in rpcs : x.r.kind = "service") => dash.stopping
=============================================================================
