------------------------------ MODULE Indicator ------------------------------
(***************************************************************************)
(* Sumi (sumi-ui/indicator/main.c, pipe-client.c) and the host processes   *)
(* it watches and restarts (windows/host/main.cpp).  Two processes of Sumi *)
(* are clients of the host: the resident one shows the state of the IME    *)
(* and reads it from shared memory that the host writes under a sequence   *)
(* number; the settings window restarts the host when another engine is    *)
(* chosen.  Text services use and start the host as well.                  *)
(*                                                                         *)
(* A STATE line is one of a few; in the shared memory it has two halves,   *)
(* which are written and read one at a time.                               *)
(***************************************************************************)
EXTENDS Naturals

CONSTANTS
  Lines,         (* STATE lines                                            *)
  MaxWrites,     (* BOUND: transactions published in a behaviour           *)
  MaxLives,      (* BOUND: hosts that get as far as the shared memory      *)
  MaxIncidents,  (* BOUND: faults, Applies and the text services' starts   *)
  Cap,           (* the longest backoff, in ticks: 8 in the code           *)
  Budget         (* polls until the settings window gives up: 50 in code   *)

Unreachable == "unreachable"
Blank == "blank"                          \* the empty text

ASSUME IndicatorAssumption ==
  /\ Lines # {} /\ Blank \notin Lines /\ Unreachable \notin Lines
  /\ MaxWrites \in Nat /\ MaxLives \in Nat /\ MaxIncidents \in Nat
  /\ Cap \in Nat \ {0} /\ Budget \in Nat \ {0}

Proc == 1..2
Client == {"sumi", "settings"}
NoProc == 0
Stale == 3                                \* a handle whose host is gone
Registration == "registration"

VARIABLES
  procs,      \* process -> none, started, loading, clearing, up, stopping
  serves,     \* the engine a process has started
  registry,   \* HKCU\Software\NativeIME\Engine
  mirror,     \* the shared memory, while a process keeps it; "life" only
              \* records which host has cleared it, 0 while none is done
  pub,        \* the transaction that is being published
  pipe,       \* the PipeClients
  calls,      \* the request each client waits for, and the answer
  ind,        \* the resident process
  set,        \* the settings window
  lives, writes, incidents

host == <<procs, serves, registry>>
counters == <<lives, writes, incidents>>
vars == <<host, mirror, pub, pipe, calls, ind, set, counters>>

NoMirror == [there |-> FALSE, seq |-> 0, a |-> Blank, b |-> Blank, life |-> 0]
NoPub == [at |-> "none", proc |-> NoProc, line |-> Blank, to |-> "others"]
NoCall == [at |-> "none", req |-> "none", line |-> Blank, engine |-> 0]

Init ==
  /\ procs = [p \in Proc |-> "none"] /\ serves = [p \in Proc |-> 0]
  /\ registry = 0 /\ mirror = NoMirror /\ pub = NoPub
  /\ pipe = [c \in Client |-> [conn |-> NoProc, step |-> 0, left |-> 0]]
  /\ calls = [c \in Client |-> NoCall]
  /\ ind = [at |-> "idle", mapped |-> FALSE, have |-> FALSE,
            mode |-> Unreachable, last |-> Blank, seen |-> 0, before |-> 0,
            a |-> Blank, b |-> Blank, life |-> 0]
  /\ set = [at |-> "idle", chosen |-> 0, sent |-> FALSE, label |-> "none",
            by |-> 0, waited |-> 0]
  /\ lives = 0 /\ writes = 0 /\ incidents = 0

Incident == incidents < MaxIncidents /\ incidents' = incidents + 1

-----------------------------------------------------------------------------
(* The host's life.  The named mutex belongs to a process until it ends.   *)
Holders == {p \in Proc : procs[p] \notin {"none", "started"}}

NobodyListens == \A p \in Proc : procs[p] # "up"

(* CreateProcess; the first name that is free.                             *)
SpawnsHost ==
  \E p \in Proc :
    /\ procs[p] = "none" /\ \A q \in Proc : procs[q] = "none" => p <= q
    /\ procs' = [procs EXCEPT ![p] = "started"]

(* TextService::EnsureEngineHost: no pipe instance answers.                *)
TextServiceSpawns ==
  /\ Incident /\ NobodyListens
  /\ SpawnsHost
  /\ UNCHANGED <<serves, registry, mirror, pub, pipe, calls, ind, set, lives,
                 writes>>

(* ERROR_ALREADY_EXISTS: another host is there, or not gone yet.  Else     *)
(* StartChild takes the engine from the registry and waits until it is up. *)
TestSingleton(p) ==
  /\ procs[p] = "started"
  /\ IF Holders = {}
     THEN /\ procs' = [procs EXCEPT ![p] = "loading"]
          /\ serves' = [serves EXCEPT ![p] = registry]
     ELSE procs' = [procs EXCEPT ![p] = "none"] /\ UNCHANGED serves
  /\ UNCHANGED <<registry, mirror, pub, pipe, calls, ind, set, counters>>

(* The shared memory is mapped, then cleared in whatever order memset      *)
(* does it, although a reader may have kept the memory from an earlier     *)
(* host.                                                                   *)
InitializeStateMirror(p) ==
  /\ procs[p] = "loading" /\ lives < MaxLives
  /\ procs' = [procs EXCEPT ![p] = "clearing"]
  /\ lives' = lives + 1
  /\ mirror' = [mirror EXCEPT !.there = TRUE, !.life = 0]
  /\ UNCHANGED <<serves, registry, pub, pipe, calls, ind, set, writes,
                 incidents>>

Clear(p) ==
  /\ procs[p] = "clearing"
  /\ \/ mirror.seq # 0 /\ mirror' = [mirror EXCEPT !.seq = 0]
     \/ mirror.a # Blank /\ mirror' = [mirror EXCEPT !.a = Blank]
     \/ mirror.b # Blank /\ mirror' = [mirror EXCEPT !.b = Blank]
  /\ UNCHANGED <<host, pub, pipe, calls, ind, set, counters>>

Listen(p) ==
  /\ procs[p] = "clearing" /\ mirror = [NoMirror EXCEPT !.there = TRUE]
  /\ procs' = [procs EXCEPT ![p] = "up"]
  /\ mirror' = [mirror EXCEPT !.life = lives]
  /\ UNCHANGED <<serves, registry, pub, pipe, calls, ind, set, counters>>

(* PublishStateMirror, at the end of a transaction.                        *)
NeverOdd(m) == [m EXCEPT !.seq = @ + 2]                           \* mutant
Counted(m) == [m EXCEPT !.seq = @ + 1]

Serve(p) ==
  /\ procs[p] \in {"up", "stopping"} /\ pub = NoPub /\ writes < MaxWrites
  /\ \E line \in Lines :
       \/ pub' = [at |-> "a", proc |-> p, line |-> line, to |-> "others"]
       \/ \E c \in Client :
            /\ calls[c].at = "wait" /\ calls[c].req = "STATUS"
            /\ pipe[c].conn = p
            /\ pub' = [at |-> "a", proc |-> p, line |-> line, to |-> c]
  /\ writes' = writes + 1 /\ mirror' = Counted(mirror)
  /\ UNCHANGED <<host, pipe, calls, ind, set, lives, incidents>>

Copy ==
  \/ /\ pub.at = "a" /\ pub' = [pub EXCEPT !.at = "b"]
     /\ mirror' = [mirror EXCEPT !.a = pub.line]
     /\ UNCHANGED <<host, pipe, calls, ind, set, counters>>
  \/ /\ pub.at = "b" /\ pub' = [pub EXCEPT !.at = "end"]
     /\ mirror' = [mirror EXCEPT !.b = pub.line]
     /\ UNCHANGED <<host, pipe, calls, ind, set, counters>>

Published ==
  /\ pub.at = "end" /\ pub' = NoPub
  /\ mirror' = Counted(mirror)
  /\ calls' = [c \in Client |->
       IF pub.to = c /\ calls[c].at = "wait" /\ pipe[c].conn = pub.proc
       THEN [calls[c] EXCEPT !.at = "done", !.line = pub.line,
                             !.engine = serves[pub.proc]]
       ELSE calls[c]]
  /\ UNCHANGED <<host, pipe, ind, set, counters>>

(* SHUTDOWN is answered without the engine mutex; its connection is closed. *)
Shutdown(p) ==
  /\ procs[p] = "up"
  /\ \E c \in Client :
       /\ calls[c].at = "wait" /\ calls[c].req = "SHUTDOWN" /\ pipe[c].conn = p
       /\ calls' = [calls EXCEPT ![c].at = "done"]
       /\ pipe' = [pipe EXCEPT ![c].conn = Stale]
  /\ procs' = [procs EXCEPT ![p] = "stopping"]
  /\ UNCHANGED <<serves, registry, mirror, pub, ind, set, counters>>

(* The process ends: after a SHUTDOWN or with its child it has given up    *)
(* the engine mutex, killed it has not.  The memory stays if it is mapped. *)
Ends(p) ==
  /\ procs' = [procs EXCEPT ![p] = "none"]
  /\ mirror' = IF ind.mapped \/ procs[p] \in {"started", "loading"}
               THEN mirror ELSE NoMirror
  /\ pipe' = [c \in Client |-> IF pipe[c].conn = p
                               THEN [pipe[c] EXCEPT !.conn = Stale] ELSE pipe[c]]
  /\ serves' = [serves EXCEPT ![p] = 0]
  /\ UNCHANGED <<registry, calls, ind, set, lives, writes>>

Exit(p) ==
  /\ procs[p] = "stopping" /\ pub = NoPub
  /\ Ends(p) /\ UNCHANGED <<pub, incidents>>

Killed(p) ==
  /\ procs[p] # "none" /\ Incident
  /\ Ends(p) /\ pub' = IF pub.proc = p THEN NoPub ELSE pub

Host(p) ==
  \/ TestSingleton(p) \/ InitializeStateMirror(p) \/ Clear(p) \/ Listen(p) \/ Exit(p)
  \/ Shutdown(p) \/ (pub.proc = p /\ (Copy \/ Published))

-----------------------------------------------------------------------------
(* pipe_client_transact: connect if need be, write, wait at most 300 ms.   *)
(* Only the resident process heeds the backoff it leaves.                  *)
Uncapped(c) ==                                                    \* mutant
  LET step == IF pipe[c].step = 0 THEN 1 ELSE pipe[c].step * 2
  IN [conn |-> NoProc, step |-> step, left |-> step]
Failed(c) ==
  LET twice == IF pipe[c].step = 0 THEN 1 ELSE pipe[c].step * 2
      step == IF c = "settings" THEN 0 ELSE IF twice > Cap THEN Cap ELSE twice
  IN [conn |-> NoProc, step |-> step, left |-> step]

(* An open handle is used, else one to a host that listens is opened.      *)
Connects(c, req, p) ==
  /\ pipe[c].conn = p \/ (pipe[c].conn = NoProc /\ procs[p] = "up")
  /\ procs[p] # "none"
  /\ pipe' = [pipe EXCEPT ![c].conn = p]
  /\ calls' = [calls EXCEPT ![c] = [NoCall EXCEPT !.at = "wait", !.req = req]]

Unconnected(c) ==
  \/ pipe[c].conn = Stale /\ UNCHANGED incidents
  \/ pipe[c].conn = NoProc /\ NobodyListens /\ UNCHANGED incidents
  \/ pipe[c].conn = NoProc /\ ~NobodyListens /\ Incident   \* ERROR_PIPE_BUSY

(* The wait is over: an answer, a broken pipe, or none in time, after      *)
(* which a late one finds the handle closed.                               *)
Returns(c) ==
  /\ calls' = [calls EXCEPT ![c] = NoCall]
  /\ pipe' = [pipe EXCEPT ![c] = IF calls[c].at = "done"
                                 THEN [@ EXCEPT !.step = 0] ELSE Failed(c)]
  /\ pub' = IF pub.to = c THEN [pub EXCEPT !.to = "others"] ELSE pub

-----------------------------------------------------------------------------
(* The resident process.  app_apply_mode and app_apply_state_reply: a      *)
(* repeated reply is no new event, and one of a registration no mode.      *)
ApplyMode(i, mode) == [i EXCEPT !.mode = mode, !.have = TRUE]
ApplyReply(i, line) ==
  IF line = i.last THEN i
  ELSE [(IF line = Registration THEN i ELSE ApplyMode(i, line))
        EXCEPT !.last = line]

(* The rest of on_poll_tick: with the memory mapped, and a line just read  *)
(* or a mode on display, no request is sent.                               *)
NotRescheduled(i, updated) ==                                     \* mutant
  [i EXCEPT !.at = IF i.mapped /\ (updated \/ i.have) THEN "off" ELSE "poll"]
RestOfTick(i, updated) ==
  [i EXCEPT !.at = IF i.mapped /\ (updated \/ i.have) THEN "idle" ELSE "poll"]

(* app_read_state_mirror; "life" only records which host's memory it was.  *)
ReadSequence ==
  /\ ind.at = "idle" /\ (ind.mapped \/ mirror.there)
  /\ LET fresh == mirror.seq # 0 /\ mirror.seq % 2 = 0 /\ mirror.seq # ind.seen
     IN ind' = IF fresh
               THEN [ind EXCEPT !.mapped = TRUE, !.before = mirror.seq,
                                !.life = mirror.life,
                                !.at = "a"]
               ELSE RestOfTick([ind EXCEPT !.mapped = TRUE], FALSE)
  /\ UNCHANGED <<host, mirror, pub, pipe, calls, set, counters>>

NothingMapped ==
  /\ ind.at = "idle" /\ ~ind.mapped /\ ~mirror.there
  /\ ind' = RestOfTick(ind, FALSE)
  /\ UNCHANGED <<host, mirror, pub, pipe, calls, set, counters>>

ReadHalf ==
  /\ \/ ind.at = "a" /\ ind' = [ind EXCEPT !.at = "b", !.a = mirror.a]
     \/ ind.at = "b" /\ ind' = [ind EXCEPT !.at = "check", !.b = mirror.b]
  /\ UNCHANGED <<host, mirror, pub, pipe, calls, set, counters>>

Unchecked == ind.at = "check"                                     \* mutant
Accepts == ind.at = "check" /\ mirror.seq = ind.before
CheckSequence ==
  /\ ind.at = "check"
  /\ ind' = RestOfTick(
       [(IF Accepts THEN [ApplyReply(ind, ind.a) EXCEPT !.seen = mirror.seq]
         ELSE ind)
        EXCEPT !.before = 0, !.life = 0, !.a = Blank, !.b = Blank],
       Accepts)
  /\ UNCHANGED <<host, mirror, pub, pipe, calls, set, counters>>

InBackoff ==
  /\ ind.at = "poll" /\ pipe["sumi"].left > 0
  /\ pipe' = [pipe EXCEPT !["sumi"].left = @ - 1]
  /\ ind' = [ApplyMode(ind, Unreachable) EXCEPT !.at = "idle"]
  /\ UNCHANGED <<host, mirror, pub, calls, set, counters>>

PollConnects ==
  /\ ind.at = "poll" /\ pipe["sumi"].left = 0
  /\ \E p \in Proc : Connects("sumi", "STATUS", p)
  /\ ind' = [ind EXCEPT !.at = "wait"]
  /\ UNCHANGED <<host, mirror, pub, set, counters>>

PollFails ==
  /\ ind.at = "poll" /\ pipe["sumi"].left = 0
  /\ Unconnected("sumi") /\ pipe' = [pipe EXCEPT !["sumi"] = Failed("sumi")]
  /\ ind' = [ApplyMode(ind, Unreachable) EXCEPT !.at = "idle"]
  /\ UNCHANGED <<host, mirror, pub, calls, set, lives, writes>>

PollReturns ==
  /\ ind.at = "wait" /\ Returns("sumi")
  /\ ind' = [(IF calls["sumi"].at = "done"
              THEN ApplyReply(ind, calls["sumi"].line)
              ELSE ApplyMode(ind, Unreachable)) EXCEPT !.at = "idle"]
  /\ UNCHANGED <<host, mirror, set, counters>>

Sumi ==
  \/ ReadSequence \/ NothingMapped \/ ReadHalf \/ CheckSequence
  \/ InBackoff \/ PollConnects \/ PollFails \/ PollReturns

-----------------------------------------------------------------------------
(* The settings window: on_apply_clicked saves, then                       *)
(* skkui_restart_engine_and_wait stops the host and starts another, and    *)
(* skkui_restart_poll waits for an answer.                                 *)
SavesNothing(engine) == registry                                  \* mutant
Saves(engine) == engine

Apply ==
  /\ set.at = "idle" /\ Incident
  /\ set' = [set EXCEPT !.at = "apply", !.chosen = 1 - @, !.sent = FALSE,
                        !.label = "none", !.by = 0]
  /\ registry' = Saves(1 - set.chosen)
  /\ UNCHANGED <<procs, serves, mirror, pub, pipe, calls, ind, lives, writes>>

SendShutdown ==
  /\ set.at = "apply"
  /\ \/ /\ \E p \in Proc : Connects("settings", "SHUTDOWN", p)
        /\ set' = [set EXCEPT !.at = "shutdown"] /\ UNCHANGED incidents
     \/ /\ Unconnected("settings")
        /\ pipe' = [pipe EXCEPT !["settings"] = Failed("settings")]
        /\ set' = [set EXCEPT !.at = "spawn"] /\ UNCHANGED calls
  /\ UNCHANGED <<host, mirror, pub, ind, lives, writes>>

ShutdownReturns ==
  /\ set.at = "shutdown" /\ Returns("settings")
  /\ set' = [set EXCEPT !.at = "spawn", !.sent = calls["settings"].at = "done"]
  /\ UNCHANGED <<host, mirror, ind, counters>>

SpawnHost ==
  /\ set.at = "spawn"
  /\ SpawnsHost
  /\ set' = [set EXCEPT !.at = "timer", !.label = "starting"]
  /\ UNCHANGED <<serves, registry, mirror, pub, pipe, calls, ind, counters>>

NotYet ==
  IF set.waited + 1 >= Budget THEN [set EXCEPT !.at = "idle", !.label = "stuck",
                                                      !.waited = 0]
  ELSE [set EXCEPT !.at = "timer", !.waited = @ + 1]

RestartPoll ==
  /\ set.at = "timer"
  /\ \/ /\ \E p \in Proc : Connects("settings", "STATUS", p)
        /\ set' = [set EXCEPT !.at = "status"] /\ UNCHANGED incidents
     \/ /\ Unconnected("settings")
        /\ pipe' = [pipe EXCEPT !["settings"] = Failed("settings")]
        /\ set' = NotYet /\ UNCHANGED calls
  /\ UNCHANGED <<host, mirror, pub, ind, lives, writes>>

RestartReturns ==
  /\ set.at = "status" /\ Returns("settings")
  /\ set' = IF calls["settings"].at = "done"
            THEN [set EXCEPT !.at = "idle", !.label = "ready", !.waited = 0,
                             !.by = calls["settings"].engine]
            ELSE NotYet
  /\ UNCHANGED <<host, mirror, ind, counters>>

Settings ==
  Apply \/ SendShutdown \/ ShutdownReturns \/ SpawnHost \/ RestartPoll
  \/ RestartReturns

Next ==
  \/ TextServiceSpawns \/ Sumi \/ Settings
  \/ \E p \in Proc : Host(p) \/ Serve(p) \/ Killed(p)

(* The poll timer keeps firing, and a transaction that began ends.         *)
Fairness == WF_vars(Sumi) /\ \A p \in Proc : WF_vars(Host(p))

Spec == Init /\ [][Next]_vars /\ Fairness

-----------------------------------------------------------------------------
PipeAt == {NoProc, Stale} \union Proc
TypeOK ==
  /\ procs \in [Proc -> {"none", "started", "loading", "clearing", "up",
                         "stopping"}]
  /\ serves \in [Proc -> {0, 1}] /\ registry \in {0, 1}
  /\ \A p, q \in Holders : p = q
  /\ mirror \in [there : BOOLEAN, seq : 0..2 * MaxWrites, a : Lines \union {Blank},
                 b : Lines \union {Blank}, life : 0..MaxLives]
  /\ (pub = NoPub) = (pub.at = "none") /\ pub.proc \in {NoProc} \union Holders
  /\ pipe \in [Client -> [conn : PipeAt, step : 0..Cap, left : 0..Cap]]
  /\ ind.at \in {"idle", "a", "b", "check", "poll", "wait"}
  /\ ind.mode \in Lines \union {Blank, Unreachable} /\ ind.last \in Lines \union {Blank}
  /\ set.waited \in 0..Budget
  /\ lives <= MaxLives /\ writes <= MaxWrites /\ incidents <= MaxIncidents

(* What Sumi takes out of the shared memory is one line as the host wrote  *)
(* it, never halves of two, if the host that last mapped the memory had    *)
(* cleared it when the read began, and none has begun to since.            *)
AcceptedCopyIsOneLine ==
  Accepts /\ ind.life = mirror.life /\ ind.life # 0 =>
    ind.a = ind.b /\ ind.a = mirror.a /\ ind.a # Blank

(* With the first host, a line that stays the newest is what Sumi shows    *)
(* in the end, whatever was polled, missed or read torn before.            *)
Shows(line) == ind.last = line /\ (line = Registration \/ ind.mode = line)
NewestStateShown ==
  \A n \in 1..MaxWrites, line \in Lines :
    (mirror = [there |-> TRUE, seq |-> 2 * n, a |-> line, b |-> line,
               life |-> 1] /\ lives = 1)
      ~> (Shows(line) \/ mirror.seq # 2 * n \/ lives # 1)

(* The settings window says that the engine was switched only when the     *)
(* host that answers runs the chosen one, if the old host answered the     *)
(* SHUTDOWN.                                                               *)
ReadyMeansRestarted ==
  set.label = "ready" /\ set.sent => set.by = set.chosen
=============================================================================
