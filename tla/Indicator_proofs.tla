-------------------------- MODULE Indicator_proofs --------------------------
(***************************************************************************)
(* Proofs about Indicator: Sumi takes whole lines out of the shared        *)
(* memory, and reports a restart only when the new host answers, for every *)
(* set of STATE lines and however often hosts write, die and are started.  *)
(***************************************************************************)
EXTENDS IndicatorInv, TLAPS

LEMMA Constants ==
  /\ Lines # {} /\ Blank \notin Lines /\ Unreachable \notin Lines
  /\ MaxWrites \in Nat /\ MaxLives \in Nat /\ MaxIncidents \in Nat
  /\ Cap \in Nat /\ Cap > 0 /\ Budget \in Nat /\ Budget > 0
BY IndicatorAssumption DEF IndicatorAssumption

-----------------------------------------------------------------------------
(* The records keep their shape when a field changes.                      *)
LEMMA IndUpdates ==
  ASSUME NEW i \in IndRecord
  PROVE  /\ \A x \in IndAt : [i EXCEPT !.at = x] \in IndRecord
         /\ \A x \in BOOLEAN : /\ [i EXCEPT !.mapped = x] \in IndRecord
                               /\ [i EXCEPT !.have = x] \in IndRecord
         /\ \A x \in Text \union {Unreachable} : [i EXCEPT !.mode = x] \in IndRecord
         /\ \A x \in Text : /\ [i EXCEPT !.last = x] \in IndRecord
                            /\ [i EXCEPT !.a = x] \in IndRecord
                            /\ [i EXCEPT !.b = x] \in IndRecord
         /\ \A x \in Nat : /\ [i EXCEPT !.seen = x] \in IndRecord
                           /\ [i EXCEPT !.before = x] \in IndRecord
                           /\ [i EXCEPT !.life = x] \in IndRecord
BY DEF IndRecord

LEMMA SetUpdates ==
  ASSUME NEW w \in SetRecord
  PROVE  /\ \A x \in {"idle", "apply", "shutdown", "spawn", "timer", "status"} :
              [w EXCEPT !.at = x] \in SetRecord
         /\ \A x \in {0, 1} : /\ [w EXCEPT !.chosen = x] \in SetRecord
                              /\ [w EXCEPT !.by = x] \in SetRecord
         /\ \A x \in BOOLEAN : [w EXCEPT !.sent = x] \in SetRecord
         /\ \A x \in {"none", "starting", "ready", "stuck"} :
              [w EXCEPT !.label = x] \in SetRecord
         /\ \A x \in 0..Budget : [w EXCEPT !.waited = x] \in SetRecord
BY DEF SetRecord

(* What the helpers of the resident process do to its record.              *)
LEMMA RestOfTickKeeps ==
  ASSUME NEW i \in IndRecord, NEW updated
  PROVE  /\ RestOfTick(i, updated) \in IndRecord /\ RestOfTick(i, updated).at \in {"idle", "poll"}
         /\ RestOfTick(i, updated).life = i.life /\ RestOfTick(i, updated).mapped = i.mapped
         /\ RestOfTick(i, updated).before = i.before
<1>1. (IF i.mapped /\ (updated \/ i.have) THEN "idle" ELSE "poll") \in {"idle", "poll"}
  OBVIOUS
<1>2. RestOfTick(i, updated) \in IndRecord
  BY <1>1, IndUpdates DEF RestOfTick, IndAt
<1> QED BY <1>1, <1>2 DEF RestOfTick, IndRecord

LEMMA ApplyModeKeeps ==
  ASSUME NEW i \in IndRecord, NEW mode \in Text \union {Unreachable}
  PROVE  /\ ApplyMode(i, mode) \in IndRecord /\ ApplyMode(i, mode).at = i.at
         /\ ApplyMode(i, mode).life = i.life /\ ApplyMode(i, mode).mapped = i.mapped
<1>1. ApplyMode(i, mode) \in IndRecord
  BY IndUpdates, Zenon DEF ApplyMode
<1> QED BY <1>1 DEF ApplyMode, IndRecord

LEMMA ApplyReplyKeeps ==
  ASSUME NEW i \in IndRecord, NEW line \in Text
  PROVE  /\ ApplyReply(i, line) \in IndRecord /\ ApplyReply(i, line).at = i.at
         /\ ApplyReply(i, line).life = i.life /\ ApplyReply(i, line).mapped = i.mapped
<1>1. ASSUME NEW j \in IndRecord, j.at = i.at, j.life = i.life, j.mapped = i.mapped
      PROVE  /\ [j EXCEPT !.last = line] \in IndRecord /\ [j EXCEPT !.last = line].at = i.at
             /\ [j EXCEPT !.last = line].life = i.life
             /\ [j EXCEPT !.last = line].mapped = i.mapped
  BY <1>1, IndUpdates DEF IndRecord
<1>2. CASE line = i.last
  BY <1>2 DEF ApplyReply
<1>3. CASE line # i.last /\ line = Registration
  BY <1>1, <1>3 DEF ApplyReply
<1>4. CASE line # i.last /\ line # Registration
  <2>1. ApplyReply(i, line) = [ApplyMode(i, line) EXCEPT !.last = line]
    BY <1>4 DEF ApplyReply
  <2> QED BY <1>1, <2>1, ApplyModeKeeps
<1> QED BY <1>2, <1>3, <1>4

LEMMA InvInit == Init => IInv
<1> SUFFICES ASSUME Init PROVE IInv
  OBVIOUS
<1> USE Constants DEF Init
<1>1. TypeOK
  BY DEF TypeOK, Holders, NoMirror, NoPub, Client, PipeAt, NoProc, IndAt
<1>2. ind \in IndRecord /\ set \in SetRecord /\ pub \in PubRecord
  BY DEF NoPub, IndRecord, SetRecord, PubRecord, IndAt, Text, NoProc
<1>3. calls \in [Client -> CallRecord]
  BY DEF NoCall, CallRecord, Text
<1>4. Writer /\ Cleared /\ Reader /\ Lives
  BY DEF Writer, Cleared, Reader, Lives, NoMirror
<1>5. Calls /\ Restarted
  BY DEF Calls, Restarted, Switched, NoPub, NoCall, NoProc, Proc, Client
<1> QED BY <1>1, <1>2, <1>3, <1>4, <1>5 DEF IInv, Records

-----------------------------------------------------------------------------
(* However a process ends, it takes its unfinished transaction along.      *)
LEMMA EndsWithPub ==
  ASSUME IInv, NEW p \in Proc, Exit(p) \/ Killed(p)
  PROVE  /\ Ends(p) /\ procs[p] # "none"
         /\ pub' = IF pub.proc = p THEN NoPub ELSE pub
         /\ incidents' \in Nat /\ incidents' <= MaxIncidents
BY Constants DEF Exit, Killed, IInv, TypeOK, Records, Incident, NoPub, NoProc, Proc

(* The processes and the named mutex.                                      *)
ProcTypes ==
  /\ procs \in [Proc -> {"none", "started", "loading", "clearing", "up",
                         "stopping"}]
  /\ serves \in [Proc -> {0, 1}] /\ registry \in {0, 1}
  /\ \A p, q \in Holders : p = q

LEMMA ProcsNext ==
  ASSUME IInv, [Next]_vars  PROVE ProcTypes'
<1> USE DEF IInv, TypeOK, ProcTypes, Holders, host
<1>1. CASE TextServiceSpawns \/ SpawnHost
  BY <1>1 DEF TextServiceSpawns, SpawnHost, SpawnsHost
<1>2. ASSUME NEW p \in Proc, TestSingleton(p) PROVE ProcTypes'
  BY <1>2 DEF TestSingleton
<1>3. ASSUME NEW p \in Proc, InitializeStateMirror(p) \/ Listen(p) \/ Shutdown(p)
      PROVE  ProcTypes'
  BY <1>3 DEF InitializeStateMirror, Listen, Shutdown
<1>4. ASSUME NEW p \in Proc, Exit(p) \/ Killed(p) PROVE ProcTypes'
  BY <1>4, EndsWithPub DEF Ends
<1>5. CASE Apply
  <2>1. set.chosen \in {0, 1}
    BY DEF Records, SetRecord
  <2> QED BY <1>5, <2>1 DEF Apply, Saves
<1>6. ASSUME UNCHANGED host PROVE ProcTypes'
  BY <1>6
<1>7. ASSUME NEW p \in Proc, Clear(p) \/ Serve(p) \/ Copy \/ Published PROVE ProcTypes'
  <2> HIDE DEF IInv, TypeOK, ProcTypes
  <2>1. UNCHANGED host
    BY <1>7 DEF Clear, Serve, Copy, Published
  <2> QED BY <2>1, <1>6
<1>8. CASE Sumi \/ SendShutdown \/ ShutdownReturns \/ RestartPoll \/ RestartReturns
           \/ UNCHANGED vars
  <2> HIDE DEF IInv, TypeOK, ProcTypes
  <2>1. CASE Sumi
    <3>1. UNCHANGED host
      BY <2>1 DEF Sumi, ReadSequence, NothingMapped, ReadHalf, CheckSequence, InBackoff,
         PollConnects, PollFails, PollReturns
    <3> QED BY <3>1, <1>6
  <2>2. CASE SendShutdown \/ ShutdownReturns \/ RestartPoll \/ RestartReturns
             \/ UNCHANGED vars
    <3>1. UNCHANGED host
      BY <2>2 DEF SendShutdown, ShutdownReturns, RestartPoll, RestartReturns, vars
    <3> QED BY <3>1, <1>6
  <2> QED BY <1>8, <2>1, <2>2
<1> QED BY <1>1, <1>2, <1>3, <1>4, <1>5, <1>7, <1>8 DEF Next, Host, Settings

(* The counters.                                                           *)
LEMMA CountersNext ==
  ASSUME IInv, [Next]_vars
  PROVE  /\ lives' \in Nat /\ writes' \in Nat /\ incidents' \in Nat
         /\ lives' <= MaxLives /\ writes' <= MaxWrites /\ incidents' <= MaxIncidents
<1> USE Constants DEF IInv, TypeOK, Records, counters, Incident
<1>1. CASE TextServiceSpawns \/ Apply
  BY <1>1 DEF TextServiceSpawns, Apply
<1>2. ASSUME NEW p \in Proc, Exit(p) \/ Killed(p)
      PROVE  /\ incidents' \in Nat /\ incidents' <= MaxIncidents
             /\ UNCHANGED <<lives, writes>>
  BY <1>2, EndsWithPub DEF Ends
<1>3. ASSUME NEW p \in Proc, InitializeStateMirror(p)
      PROVE  /\ lives' = lives + 1 /\ lives < MaxLives /\ UNCHANGED <<writes, incidents>>
  BY <1>3 DEF InitializeStateMirror
<1>4. ASSUME NEW p \in Proc, Serve(p)
      PROVE  /\ writes' = writes + 1 /\ writes < MaxWrites /\ UNCHANGED <<lives, incidents>>
  BY <1>4 DEF Serve
<1>5. CASE PollFails
  BY <1>5 DEF PollFails, Unconnected
<1>6. CASE SendShutdown \/ RestartPoll
  BY <1>6 DEF SendShutdown, RestartPoll, Unconnected
<1>7. ASSUME NEW p \in Proc, TestSingleton(p) \/ Clear(p) \/ Listen(p) \/ Shutdown(p)
                              \/ Copy \/ Published
      PROVE  UNCHANGED counters
  BY <1>7 DEF TestSingleton, Clear, Listen, Shutdown, Copy, Published
<1>8. CASE ReadSequence \/ NothingMapped \/ ReadHalf \/ CheckSequence \/ InBackoff
           \/ PollConnects \/ PollReturns \/ ShutdownReturns \/ SpawnHost
           \/ RestartReturns \/ UNCHANGED vars
  <2>1. UNCHANGED counters
    BY <1>8 DEF ReadSequence, NothingMapped, ReadHalf, CheckSequence, InBackoff,
       PollConnects, PollReturns, ShutdownReturns, SpawnHost, RestartReturns, vars
  <2> QED BY <2>1
<1> QED
  BY <1>1, <1>2, <1>3, <1>4, <1>5, <1>6, <1>7, <1>8 DEF Next, Host, Settings, Sumi

(* The handles and their backoff.                                          *)
PipeRecord == [conn : PipeAt, step : 0..Cap, left : 0..Cap]

LEMMA FailedInCap ==
  ASSUME NEW c \in Client, pipe \in [Client -> PipeRecord]
  PROVE  Failed(c) \in PipeRecord
BY Constants DEF Failed, PipeRecord, PipeAt, NoProc

LEMMA PipesNext ==
  ASSUME IInv, [Next]_vars  PROVE pipe' \in [Client -> PipeRecord]
<1> USE Constants DEF IInv, TypeOK, PipeRecord
<1>1. ASSUME NEW p \in Proc, Shutdown(p) PROVE pipe' \in [Client -> PipeRecord]
  BY <1>1 DEF Shutdown, PipeAt
<1>2. ASSUME NEW p \in Proc, Exit(p) \/ Killed(p) PROVE pipe' \in [Client -> PipeRecord]
  <2>1. \A c \in Client : [pipe[c] EXCEPT !.conn = Stale] \in PipeRecord
    BY DEF PipeAt
  <2>2. pipe' = [c \in Client |-> IF pipe[c].conn = p
                                  THEN [pipe[c] EXCEPT !.conn = Stale] ELSE pipe[c]]
    BY <1>2, EndsWithPub DEF Ends
  <2> HIDE DEF PipeRecord
  <2>3. pipe \in [Client -> PipeRecord]
    BY DEF PipeRecord
  <2> QED BY <2>1, <2>2, <2>3
<1>3. CASE InBackoff
  BY <1>3 DEF InBackoff, Client
<1>4. ASSUME NEW c \in Client, NEW req, NEW p \in Proc, Connects(c, req, p)
      PROVE  pipe' \in [Client -> PipeRecord]
  BY <1>4 DEF Connects, PipeAt
<1>5. ASSUME NEW c \in Client, Returns(c) PROVE pipe' \in [Client -> PipeRecord]
  <2>1. [pipe[c] EXCEPT !.step = 0] \in PipeRecord
    OBVIOUS
  <2> QED BY <1>5, <2>1, FailedInCap DEF Returns
<1>6. ASSUME NEW c \in Client, pipe' = [pipe EXCEPT ![c] = Failed(c)]
      PROVE  pipe' \in [Client -> PipeRecord]
  BY <1>6, FailedInCap
<1>7. "sumi" \in Client /\ "settings" \in Client
  BY DEF Client
<1>8. CASE PollConnects \/ SendShutdown \/ RestartPoll
  BY <1>4, <1>6, <1>7, <1>8 DEF PollConnects, SendShutdown, RestartPoll
<1>9. CASE PollReturns \/ ShutdownReturns \/ RestartReturns
  BY <1>5, <1>7, <1>9 DEF PollReturns, ShutdownReturns, RestartReturns
<1>10. CASE PollFails
  BY <1>6, <1>7, <1>10 DEF PollFails
<1>11. ASSUME NEW p \in Proc,
              \/ TestSingleton(p) \/ InitializeStateMirror(p) \/ Clear(p) \/ Listen(p)
              \/ Serve(p) \/ Copy \/ Published
       PROVE  pipe' = pipe
  BY <1>11 DEF TestSingleton, InitializeStateMirror, Clear, Listen, Serve, Copy, Published
<1>12. CASE TextServiceSpawns \/ ReadSequence \/ NothingMapped \/ ReadHalf \/ CheckSequence
            \/ Apply \/ SpawnHost \/ UNCHANGED vars
  <2>1. pipe' = pipe
    BY <1>12 DEF TextServiceSpawns, ReadSequence, NothingMapped, ReadHalf, CheckSequence,
       Apply, SpawnHost, vars
  <2> QED BY <2>1
<1> QED
  BY <1>1, <1>2, <1>3, <1>8, <1>9, <1>10, <1>11, <1>12 DEF Next, Host, Settings, Sumi

(* What is published, and the calls that wait for it.                      *)
LEMMA PubNext ==
  ASSUME IInv, [Next]_vars
  PROVE  pub' \in PubRecord /\ (pub' = NoPub) = (pub'.at = "none")
<1> USE Constants DEF IInv, TypeOK, Records
<1>1. NoPub \in PubRecord
  BY DEF NoPub, PubRecord, Text
<1>2. ASSUME NEW p \in Proc, Exit(p) \/ Killed(p)
      PROVE  pub' \in PubRecord /\ (pub' = NoPub) = (pub'.at = "none")
  BY <1>1, <1>2, EndsWithPub DEF NoPub
<1>3. ASSUME NEW p \in Proc, Serve(p)
      PROVE  pub' \in PubRecord /\ pub'.at = "a"
  BY <1>3 DEF Serve, PubRecord, Text
<1>4. CASE Copy
  <2>1. pub' \in PubRecord /\ pub'.at \in {"b", "end"}
    BY <1>4 DEF Copy, PubRecord
  <2> QED BY <2>1 DEF NoPub
<1>5. CASE Published
  BY <1>1, <1>5 DEF Published, NoPub
<1>6. ASSUME NEW c, Returns(c) PROVE pub' \in PubRecord /\ (pub' = NoPub) = (pub'.at = "none")
  <2>1. CASE pub.to # c
    BY <1>6, <2>1 DEF Returns
  <2>2. CASE pub.to = c /\ pub # NoPub
    <3>1. pub' = [pub EXCEPT !.to = "others"]
      BY <1>6, <2>2 DEF Returns
    <3>2. pub' \in PubRecord /\ pub'.at = pub.at /\ pub.at # "none"
      BY <2>2, <3>1 DEF PubRecord
    <3> QED BY <3>2 DEF NoPub
  <2>3. CASE pub.to = c /\ pub = NoPub
    <3>1. pub' = NoPub
      BY <1>6, <2>3 DEF Returns, NoPub
    <3> QED BY <1>1, <3>1 DEF NoPub
  <2> QED BY <2>1, <2>2, <2>3
<1>7. ASSUME NEW p \in Proc,
             \/ TestSingleton(p) \/ InitializeStateMirror(p) \/ Clear(p) \/ Listen(p)
             \/ Shutdown(p)
      PROVE  pub' = pub
  BY <1>7 DEF TestSingleton, InitializeStateMirror, Clear, Listen, Shutdown
<1>8. CASE TextServiceSpawns \/ ReadSequence \/ NothingMapped \/ ReadHalf \/ CheckSequence
           \/ InBackoff \/ PollConnects \/ PollFails
           \/ Apply \/ SendShutdown \/ SpawnHost \/ RestartPoll \/ UNCHANGED vars
  <2>1. pub' = pub
    BY <1>8 DEF TextServiceSpawns, ReadSequence, NothingMapped, ReadHalf, CheckSequence,
       InBackoff, PollConnects, PollFails, Apply, SendShutdown, SpawnHost, RestartPoll, vars
  <2> QED BY <2>1
<1>9. CASE PollReturns \/ ShutdownReturns \/ RestartReturns
  BY <1>6, <1>9 DEF PollReturns, ShutdownReturns, RestartReturns
<1>10. ASSUME NEW p \in Proc, Serve(p) PROVE (pub' = NoPub) = (pub'.at = "none")
  BY <1>3, <1>10 DEF NoPub
<1> QED
  BY <1>2, <1>3, <1>4, <1>5, <1>7, <1>8, <1>9, <1>10 DEF Next, Host, Settings, Sumi

(* The requests of the two processes of Sumi, and what comes back.         *)
LEMMA CallsTyped ==
  ASSUME IInv, [Next]_vars  PROVE calls' \in [Client -> CallRecord]
<1> USE Constants DEF IInv, TypeOK, Records
<1>1. NoCall \in CallRecord
  BY DEF NoCall, CallRecord, Text
<1>2. CASE Published
  <2>1. ASSUME NEW c \in Client, pub.proc \in Proc
        PROVE  [calls[c] EXCEPT !.at = "done", !.line = pub.line,
                                !.engine = serves[pub.proc]] \in CallRecord
    <3>1. \A r \in CallRecord : [r EXCEPT !.at = "done"] \in CallRecord
      BY DEF CallRecord
    <3>2. \A r \in CallRecord, x \in Text : [r EXCEPT !.line = x] \in CallRecord
      BY DEF CallRecord
    <3>3. \A r \in CallRecord, x \in {0, 1} : [r EXCEPT !.engine = x] \in CallRecord
      BY DEF CallRecord
    <3>4. calls[c] \in CallRecord /\ pub.line \in Text /\ serves[pub.proc] \in {0, 1}
      BY <2>1 DEF PubRecord
    <3> QED BY <3>1, <3>2, <3>3, <3>4, Zenon
  <2>2. pub.proc \in Proc
    BY <1>2 DEF Published, NoPub, Writer
  <2>3. calls' = [c \in Client |->
                   IF pub.to = c /\ calls[c].at = "wait" /\ pipe[c].conn = pub.proc
                   THEN [calls[c] EXCEPT !.at = "done", !.line = pub.line,
                                         !.engine = serves[pub.proc]]
                   ELSE calls[c]]
    BY <1>2 DEF Published
  <2>4. ASSUME NEW c \in Client PROVE calls'[c] \in CallRecord
    BY <2>1, <2>2, <2>3, <2>4
  <2> QED BY <2>3, <2>4
<1>3. ASSUME NEW p \in Proc, Shutdown(p) PROVE calls' \in [Client -> CallRecord]
  <2>1. PICK c \in Client : calls' = [calls EXCEPT ![c].at = "done"]
    BY <1>3 DEF Shutdown
  <2>2. [calls[c] EXCEPT !.at = "done"] \in CallRecord
    BY DEF CallRecord
  <2> QED BY <2>1, <2>2
<1>4. ASSUME NEW c \in Client, NEW req \in {"STATUS", "SHUTDOWN"}, NEW p \in Proc,
             Connects(c, req, p)
      PROVE  calls' \in [Client -> CallRecord]
  <2>1. [NoCall EXCEPT !.at = "wait", !.req = req] \in CallRecord
    BY DEF NoCall, CallRecord, Text
  <2> QED BY <1>4, <2>1 DEF Connects
<1>5. ASSUME NEW c \in Client, Returns(c) PROVE calls' \in [Client -> CallRecord]
  BY <1>1, <1>5 DEF Returns
<1>6. "sumi" \in Client /\ "settings" \in Client
  BY DEF Client
<1>7. CASE PollConnects \/ SendShutdown \/ RestartPoll
  BY <1>4, <1>6, <1>7 DEF PollConnects, SendShutdown, RestartPoll
<1>8. CASE PollReturns \/ ShutdownReturns \/ RestartReturns
  BY <1>5, <1>6, <1>8 DEF PollReturns, ShutdownReturns, RestartReturns
<1>9. ASSUME NEW p \in Proc,
             \/ TestSingleton(p) \/ InitializeStateMirror(p) \/ Clear(p) \/ Listen(p)
             \/ Serve(p) \/ Copy \/ Exit(p) \/ Killed(p)
      PROVE  calls' = calls
  BY <1>9 DEF TestSingleton, InitializeStateMirror, Clear, Listen, Serve, Copy, Exit,
     Killed, Ends
<1>10. CASE TextServiceSpawns \/ ReadSequence \/ NothingMapped \/ ReadHalf \/ CheckSequence
            \/ InBackoff \/ PollFails \/ Apply \/ SpawnHost \/ UNCHANGED vars
  <2>1. calls' = calls
    BY <1>10 DEF TextServiceSpawns, ReadSequence, NothingMapped, ReadHalf, CheckSequence,
       InBackoff, PollFails, Apply, SpawnHost, vars
  <2> QED BY <2>1
<1> QED
  BY <1>2, <1>3, <1>7, <1>8, <1>9, <1>10 DEF Next, Host, Settings, Sumi

-----------------------------------------------------------------------------
(* The resident process: what each of its steps leaves in its record.      *)
LEMMA IndUnmoved ==
  ASSUME [Next]_vars, ~Sumi  PROVE ind' = ind
BY DEF Next, Settings, Host, TextServiceSpawns, Apply, SendShutdown,
   ShutdownReturns, SpawnHost, RestartPoll, RestartReturns, TestSingleton,
   InitializeStateMirror, Clear, Listen, Shutdown, Exit, Killed, Ends, Copy,
   Published, Serve, vars

LEMMA ReadStarts ==
  ASSUME IInv, ReadSequence
  PROVE  /\ ind' \in IndRecord /\ ind'.mapped /\ mirror.there
         /\ \/ /\ ind'.at = "a" /\ ind'.before = mirror.seq /\ ind'.life = mirror.life
               /\ mirror.seq # 0 /\ mirror.seq % 2 = 0
            \/ ind'.at \in {"idle", "poll"} /\ ind'.life = 0
<1> USE DEF IInv, TypeOK, Records
<1>1. mirror.seq \in Nat /\ mirror.life \in Nat
  BY Constants
<1>2. CASE mirror.seq # 0 /\ mirror.seq % 2 = 0 /\ mirror.seq # ind.seen
  <2>1. ind' = [ind EXCEPT !.mapped = TRUE, !.before = mirror.seq,
                           !.life = mirror.life, !.at = "a"]
    BY <1>2 DEF ReadSequence
  <2>2. \A x \in Nat, y \in Nat : [ind EXCEPT !.mapped = TRUE, !.before = x, !.life = y, !.at = "a"]
          \in IndRecord
    BY IndUpdates, Zenon DEF IndAt
  <2>3. ind' \in IndRecord
    BY <1>1, <2>1, <2>2, Zenon
  <2>4. ind'.at = "a" /\ ind'.before = mirror.seq /\ ind'.life = mirror.life /\ ind'.mapped
    BY <2>1 DEF IndRecord
  <2> QED BY <1>2, <2>3, <2>4 DEF ReadSequence, Lives
<1>3. CASE ~(mirror.seq # 0 /\ mirror.seq % 2 = 0 /\ mirror.seq # ind.seen)
  <2> DEFINE i == [ind EXCEPT !.mapped = TRUE]
  <2>1. i \in IndRecord /\ i.mapped /\ i.life = ind.life
    BY IndUpdates DEF IndRecord
  <2>2. ind' = RestOfTick(i, FALSE)
    BY <1>3 DEF ReadSequence
  <2>3. ind.life = 0 /\ mirror.there
    BY DEF ReadSequence, Lives
  <2> HIDE DEF i
  <2> QED BY <2>1, <2>2, <2>3, RestOfTickKeeps
<1> QED BY <1>2, <1>3

LEMMA ReadGoesOn ==
  ASSUME IInv, ReadHalf
  PROVE  /\ ind' \in IndRecord /\ ind'.mapped = ind.mapped
         /\ ind'.before = ind.before /\ ind'.life = ind.life
         /\ \/ ind.at = "a" /\ ind'.at = "b" /\ ind'.a = mirror.a
            \/ ind.at = "b" /\ ind'.at = "check" /\ ind'.b = mirror.b /\ ind'.a = ind.a
<1> USE DEF IInv, TypeOK, Records
<1>1. mirror.a \in Text /\ mirror.b \in Text
  BY DEF Text
<1>2. CASE ind.at = "a"
  <2>1. ind' = [ind EXCEPT !.at = "b", !.a = mirror.a]
    BY <1>2 DEF ReadHalf
  <2>2. \A x \in Text : [ind EXCEPT !.at = "b", !.a = x] \in IndRecord
    BY IndUpdates, Zenon DEF IndAt
  <2>3. ind' \in IndRecord
    BY <1>1, <2>1, <2>2, Zenon
  <2> QED BY <1>2, <2>1, <2>3 DEF IndRecord
<1>3. CASE ind.at = "b"
  <2>1. ind' = [ind EXCEPT !.at = "check", !.b = mirror.b]
    BY <1>3 DEF ReadHalf
  <2>2. \A x \in Text : [ind EXCEPT !.at = "check", !.b = x] \in IndRecord
    BY IndUpdates, Zenon DEF IndAt
  <2>3. ind' \in IndRecord
    BY <1>1, <2>1, <2>2, Zenon
  <2> QED BY <1>3, <2>1, <2>3 DEF IndRecord
<1> QED BY <1>2, <1>3 DEF ReadHalf

LEMMA ReadIsOver ==
  ASSUME IInv, CheckSequence
  PROVE  /\ ind' \in IndRecord /\ ind'.mapped = ind.mapped
         /\ ind'.at \in {"idle", "poll"} /\ ind'.life = 0
<1> USE DEF IInv, TypeOK, Records
<1> DEFINE i == IF Accepts THEN [ApplyReply(ind, ind.a) EXCEPT !.seen = mirror.seq] ELSE ind
           j == [i EXCEPT !.before = 0, !.life = 0, !.a = Blank, !.b = Blank]
<1>1. i \in IndRecord /\ i.mapped = ind.mapped
  <2>1. ind.a \in Text /\ mirror.seq \in Nat
    BY Constants DEF IndRecord
  <2>2. ASSUME NEW k \in IndRecord
        PROVE  /\ [k EXCEPT !.seen = mirror.seq] \in IndRecord
               /\ [k EXCEPT !.seen = mirror.seq].mapped = k.mapped
    BY <2>1, IndUpdates DEF IndRecord
  <2> QED BY <2>1, <2>2, ApplyReplyKeeps
<1>2. j \in IndRecord /\ j.mapped = ind.mapped /\ j.life = 0
  <2> HIDE DEF i
  <2>1. j \in IndRecord
    BY <1>1, IndUpdates, Zenon DEF Text
  <2> QED BY <1>1, <2>1 DEF IndRecord
<1>3. ind' = RestOfTick(j, Accepts)
  BY DEF CheckSequence
<1> HIDE DEF j
<1> QED BY <1>2, <1>3, RestOfTickKeeps

LEMMA PollsStep ==
  ASSUME IInv, NothingMapped \/ InBackoff \/ PollConnects \/ PollFails \/ PollReturns
  PROVE  /\ ind' \in IndRecord /\ ind'.mapped = ind.mapped /\ ind'.life = ind.life
         /\ ind.at \in {"idle", "poll", "wait"} /\ ind'.at \in {"idle", "poll", "wait"}
         /\ ind'.at = "wait" <=> PollConnects
<1> USE DEF IInv, TypeOK, Records
<1>1. ASSUME NEW i \in IndRecord, i.mapped = ind.mapped, i.life = ind.life
      PROVE  /\ [i EXCEPT !.at = "idle"] \in IndRecord
             /\ [i EXCEPT !.at = "idle"].mapped = ind.mapped
             /\ [i EXCEPT !.at = "idle"].life = ind.life
             /\ [i EXCEPT !.at = "idle"].at = "idle"
  <2>1. [i EXCEPT !.at = "idle"] \in IndRecord
    BY IndUpdates DEF IndAt
  <2> QED BY <1>1, <2>1 DEF IndRecord
<1> PollConnects => ind'.at = "wait"
  BY DEF PollConnects, IndRecord
<1>2. CASE NothingMapped
  <2>1. ind' = RestOfTick(ind, FALSE) /\ ind.at = "idle"
    BY <1>2 DEF NothingMapped
  <2>2. ~PollConnects
    BY <2>1 DEF PollConnects
  <2> QED BY <2>1, <2>2, RestOfTickKeeps
<1>3. CASE InBackoff \/ PollFails
  <2>1. /\ ind.at = "poll" /\ ind' = [ApplyMode(ind, Unreachable) EXCEPT !.at = "idle"]
    BY <1>3 DEF InBackoff, PollFails
  <2>2. ApplyMode(ind, Unreachable) \in IndRecord
        /\ ApplyMode(ind, Unreachable).mapped = ind.mapped
        /\ ApplyMode(ind, Unreachable).life = ind.life
    BY ApplyModeKeeps
  <2>3. ind' \in IndRecord /\ ind'.at = "idle" /\ ind'.mapped = ind.mapped /\ ind'.life = ind.life
    BY <1>1, <2>1, <2>2
  <2> QED BY <2>1, <2>3
<1>4. CASE PollConnects
  <2>1. ind.at = "poll" /\ ind' = [ind EXCEPT !.at = "wait"]
    BY <1>4 DEF PollConnects
  <2>2. ind' \in IndRecord
    BY <2>1, IndUpdates DEF IndAt
  <2> QED BY <1>4, <2>1, <2>2 DEF IndRecord
<1>5. CASE PollReturns
  <2> DEFINE i == IF calls["sumi"].at = "done" THEN ApplyReply(ind, calls["sumi"].line)
                  ELSE ApplyMode(ind, Unreachable)
  <2>1. ind.at = "wait" /\ ind' = [i EXCEPT !.at = "idle"]
    BY <1>5 DEF PollReturns
  <2>2. calls["sumi"].line \in Text
    BY DEF Client, CallRecord
  <2>3. i \in IndRecord /\ i.mapped = ind.mapped /\ i.life = ind.life
    BY <2>2, ApplyReplyKeeps, ApplyModeKeeps
  <2> HIDE DEF i
  <2>4. ind' \in IndRecord /\ ind'.at = "idle" /\ ind'.mapped = ind.mapped /\ ind'.life = ind.life
    BY <1>1, <2>1, <2>3
  <2> QED BY <2>1, <2>4
<1> QED BY <1>2, <1>3, <1>4, <1>5

LEMMA IndNext ==
  ASSUME IInv, [Next]_vars
  PROVE  ind' \in IndRecord /\ (ind.mapped => ind'.mapped)
<1>1. CASE ~Sumi
  BY <1>1, IndUnmoved DEF IInv, Records
<1>2. CASE Sumi
  BY <1>2, ReadStarts, ReadGoesOn, ReadIsOver, PollsStep DEF Sumi
<1> QED BY <1>1, <1>2

-----------------------------------------------------------------------------
(* The settings window.                                                    *)
LEMMA SetUnmoved ==
  ASSUME [Next]_vars, ~Settings  PROVE UNCHANGED <<set, registry>>
BY DEF Next, Sumi, Host, TextServiceSpawns, ReadSequence, NothingMapped, ReadHalf,
   CheckSequence, InBackoff, PollConnects, PollFails, PollReturns, TestSingleton,
   InitializeStateMirror, Clear, Listen, Shutdown, Exit, Killed, Ends, Copy,
   Published, Serve, vars, host

LEMMA NotYetKeeps ==
  ASSUME IInv
  PROVE  /\ NotYet \in SetRecord /\ NotYet.at \in {"idle", "timer"}
         /\ NotYet.sent = set.sent /\ NotYet.chosen = set.chosen
         /\ NotYet.label \in {"stuck", set.label} /\ NotYet.by = set.by
<1> USE Constants DEF IInv, Records
<1>1. CASE set.waited + 1 >= Budget
  <2>1. NotYet = [set EXCEPT !.at = "idle", !.label = "stuck", !.waited = 0]
    BY <1>1 DEF NotYet
  <2>2. 0 \in 0..Budget
    OBVIOUS
  <2>3. NotYet \in SetRecord
    BY <2>1, <2>2, SetUpdates, Zenon
  <2> QED BY <2>1, <2>3 DEF SetRecord
<1>2. CASE ~(set.waited + 1 >= Budget)
  <2>1. NotYet = [set EXCEPT !.at = "timer", !.waited = set.waited + 1]
    BY <1>2 DEF NotYet
  <2>2. set.waited + 1 \in 0..Budget
    BY <1>2 DEF SetRecord
  <2>3. NotYet \in SetRecord
    BY <2>1, <2>2, SetUpdates, Zenon
  <2> QED BY <2>1, <2>3 DEF SetRecord
<1> QED BY <1>1, <1>2

LEMMA SetNext ==
  ASSUME IInv, [Next]_vars  PROVE set' \in SetRecord
<1> USE Constants DEF IInv, Records
<1>1. CASE Apply
  <2>1. \A x \in {0, 1} : [set EXCEPT !.at = "apply", !.chosen = x, !.sent = FALSE,
                                      !.label = "none", !.by = 0] \in SetRecord
    BY SetUpdates, Zenon
  <2>2. 1 - set.chosen \in {0, 1}
    BY DEF SetRecord
  <2>3. set' = [set EXCEPT !.at = "apply", !.chosen = 1 - set.chosen, !.sent = FALSE,
                           !.label = "none", !.by = 0]
    BY <1>1 DEF Apply
  <2> QED BY <2>1, <2>2, <2>3, Zenon
<1>2. CASE SendShutdown
  BY <1>2, SetUpdates DEF SendShutdown
<1>3. CASE ShutdownReturns
  <2>1. \A x \in BOOLEAN : [set EXCEPT !.at = "spawn", !.sent = x] \in SetRecord
    BY SetUpdates, Zenon
  <2>2. set' = [set EXCEPT !.at = "spawn", !.sent = (calls["settings"].at = "done")]
    BY <1>3 DEF ShutdownReturns
  <2>3. (calls["settings"].at = "done") \in BOOLEAN
    OBVIOUS
  <2> QED BY <2>1, <2>2, <2>3, Zenon
<1>4. CASE SpawnHost
  <2>1. [set EXCEPT !.at = "timer", !.label = "starting"] \in SetRecord
    BY SetUpdates, Zenon
  <2> QED BY <1>4, <2>1 DEF SpawnHost
<1>5. CASE RestartPoll
  BY <1>5, NotYetKeeps, SetUpdates DEF RestartPoll
<1>6. CASE RestartReturns
  <2> 0 \in 0..Budget
    OBVIOUS
  <2>1. \A x \in {0, 1} : [set EXCEPT !.at = "idle", !.label = "ready", !.waited = 0,
                                      !.by = x] \in SetRecord
    BY SetUpdates, Zenon
  <2>2. calls["settings"].engine \in {0, 1}
    BY DEF Client, CallRecord
  <2>3. \/ set' = NotYet
        \/ set' = [set EXCEPT !.at = "idle", !.label = "ready", !.waited = 0,
                              !.by = calls["settings"].engine]
    BY <1>6 DEF RestartReturns
  <2> QED BY <2>1, <2>2, <2>3, NotYetKeeps, Zenon
<1>7. CASE ~Settings
  BY <1>7, SetUnmoved
<1> QED BY <1>1, <1>2, <1>3, <1>4, <1>5, <1>6, <1>7 DEF Settings

-----------------------------------------------------------------------------
(* A step that leaves the memory and the transaction alone, and makes no   *)
(* process a writer.                                                       *)
SamePub ==
  /\ pub'.at = pub.at /\ pub'.proc = pub.proc /\ pub'.line = pub.line
  /\ pub' = NoPub <=> pub = NoPub
  /\ pub'.to \in {pub.to, "others"}

Quiet ==
  /\ UNCHANGED <<mirror, lives, writes>> /\ SamePub
  /\ \A p \in Proc :
       \/ procs'[p] = procs[p]
       \/ procs[p] = "none" /\ procs'[p] = "started"
       \/ procs[p] = "started" /\ procs'[p] = "none"
       \/ procs[p] = "started" /\ procs'[p] = "loading" /\ Holders = {}
       \/ procs[p] = "up" /\ procs'[p] = "stopping"

LEMMA ReturnsQuietly ==
  ASSUME IInv, NEW c, Returns(c)  PROVE SamePub
<1> USE DEF IInv, TypeOK, Records, SamePub
<1>1. CASE pub.to # c
  BY <1>1 DEF Returns
<1>2. CASE pub.to = c /\ pub # NoPub
  <2>1. pub' = [pub EXCEPT !.to = "others"]
    BY <1>2 DEF Returns
  <2>2. pub'.at = pub.at /\ pub'.proc = pub.proc /\ pub'.line = pub.line /\ pub'.to = "others"
    BY <2>1 DEF PubRecord
  <2>3. pub.at # "none"
    BY <1>2
  <2> QED BY <1>2, <2>2, <2>3 DEF NoPub
<1>3. CASE pub.to = c /\ pub = NoPub
  <2>1. pub' = NoPub
    BY <1>3 DEF Returns, NoPub
  <2> QED BY <1>3, <2>1
<1> QED BY <1>1, <1>2, <1>3

LEMMA SpawnsQuietly ==
  ASSUME IInv, SpawnsHost
  PROVE  \A p \in Proc : \/ procs'[p] = procs[p]
                         \/ procs[p] = "none" /\ procs'[p] = "started"
BY DEF SpawnsHost, IInv, TypeOK

LEMMA Steps ==
  ASSUME IInv, [Next]_vars
  PROVE  \/ Quiet
         \/ /\ ind' = ind
            /\ \E p \in Proc : \/ InitializeStateMirror(p) \/ Clear(p) \/ Listen(p)
                               \/ Serve(p) \/ Exit(p) \/ Killed(p)
         \/ ind' = ind /\ (Copy \/ Published)
<1>1. CASE UNCHANGED vars \/ InBackoff \/ PollConnects \/ PollFails \/ ReadSequence
           \/ NothingMapped \/ ReadHalf \/ CheckSequence \/ Apply \/ SendShutdown
           \/ RestartPoll
  <2>1. UNCHANGED <<procs, mirror, pub, lives, writes>>
    BY <1>1 DEF vars, host, counters, InBackoff, PollConnects, PollFails, ReadSequence,
       NothingMapped, ReadHalf, CheckSequence, Apply, SendShutdown, RestartPoll
  <2> QED BY <2>1 DEF Quiet, SamePub
<1>2. CASE PollReturns \/ ShutdownReturns \/ RestartReturns
  <2>1. SamePub /\ UNCHANGED <<procs, mirror, lives, writes>>
    BY <1>2, ReturnsQuietly DEF PollReturns, ShutdownReturns, RestartReturns, host, counters
  <2> QED BY <2>1 DEF Quiet
<1>3. CASE TextServiceSpawns \/ SpawnHost
  <2>1. SpawnsHost /\ UNCHANGED <<mirror, pub, lives, writes>>
    BY <1>3 DEF TextServiceSpawns, SpawnHost, counters
  <2> QED BY <2>1, SpawnsQuietly DEF Quiet, SamePub
<1>4. ASSUME NEW p \in Proc, TestSingleton(p) \/ Shutdown(p) PROVE Quiet
  <2>1. UNCHANGED <<mirror, pub, lives, writes>>
    BY <1>4 DEF TestSingleton, Shutdown, counters
  <2>2. CASE TestSingleton(p)
    BY <2>1, <2>2 DEF TestSingleton, Quiet, SamePub, IInv, TypeOK
  <2>3. CASE Shutdown(p)
    BY <2>1, <2>3 DEF Shutdown, Quiet, SamePub, IInv, TypeOK
  <2> QED BY <1>4, <2>2, <2>3
<1>5. ASSUME NEW p \in Proc,
             \/ InitializeStateMirror(p) \/ Clear(p) \/ Listen(p) \/ Serve(p) \/ Exit(p)
             \/ Killed(p) \/ Copy \/ Published
      PROVE  ind' = ind
  BY <1>5 DEF InitializeStateMirror, Clear, Listen, Serve, Exit, Killed, Ends, Copy, Published
<1> QED BY <1>1, <1>2, <1>3, <1>4, <1>5 DEF Next, Host, Settings, Sumi

(* There is one holder of the named mutex, and only it can be writing.     *)
LEMMA OnlyWriter ==
  ASSUME IInv, NEW p \in Proc, procs[p] \notin {"none", "started"}
  PROVE  /\ \A q \in Proc : q # p => procs[q] \in {"none", "started"}
         /\ pub # NoPub => pub.proc = p
         /\ procs[p] \notin {"up", "stopping"} => pub = NoPub
BY DEF IInv, TypeOK, Holders, Writer

MirrorRecord == [there : BOOLEAN, seq : Nat, a : Text, b : Text, life : Nat]

LEMMA MirrorTyped == ASSUME IInv PROVE mirror \in MirrorRecord
BY Constants DEF IInv, TypeOK, MirrorRecord, Text

LEMMA MirrorNext ==
  ASSUME IInv, [Next]_vars  PROVE mirror' \in MirrorRecord
<1> USE MirrorTyped, Constants
<1>1. CASE Quiet
  BY <1>1 DEF Quiet
<1>2. ASSUME NEW p \in Proc, InitializeStateMirror(p) PROVE mirror' \in MirrorRecord
  BY <1>2 DEF InitializeStateMirror, MirrorRecord
<1>3. ASSUME NEW p \in Proc, Clear(p) PROVE mirror' \in MirrorRecord
  BY <1>3 DEF Clear, MirrorRecord, Text
<1>4. ASSUME NEW p \in Proc, Listen(p) PROVE mirror' \in MirrorRecord
  BY <1>4 DEF Listen, MirrorRecord, IInv, Records
<1>5. ASSUME NEW p \in Proc, Serve(p) PROVE mirror' \in MirrorRecord
  BY <1>5 DEF Serve, Counted, MirrorRecord
<1>6. ASSUME NEW p \in Proc, Exit(p) \/ Killed(p) PROVE mirror' \in MirrorRecord
  <2>1. NoMirror \in MirrorRecord
    BY DEF NoMirror, MirrorRecord, Text
  <2> QED BY <1>6, <2>1, EndsWithPub DEF Ends
<1>7. CASE Copy
  <2>1. pub.line \in Text
    BY DEF IInv, Records, PubRecord
  <2> QED BY <1>7, <2>1 DEF Copy, MirrorRecord
<1>8. CASE Published
  <2>1. mirror' = [mirror EXCEPT !.seq = mirror.seq + 1]
    BY <1>8 DEF Published, Counted
  <2> QED BY <2>1 DEF MirrorRecord
<1> QED BY <1>1, <1>2, <1>3, <1>4, <1>5, <1>6, <1>7, <1>8, Steps

-----------------------------------------------------------------------------
(* Who writes the shared memory.                                           *)
LEMMA IndLife ==
  ASSUME IInv, [Next]_vars
  PROVE  ind'.life \in {ind.life, mirror.life, 0}
<1>1. CASE ~Sumi
  BY <1>1, IndUnmoved
<1>2. CASE Sumi
  BY <1>2, ReadStarts, ReadGoesOn, ReadIsOver, PollsStep DEF Sumi
<1> QED BY <1>1, <1>2

LEMMA WriterNext ==
  ASSUME IInv, [Next]_vars  PROVE Writer'
<1> USE Constants, MirrorTyped DEF IInv, Records, MirrorRecord
<1>0. ind.life \in Nat /\ procs \in [Proc -> {"none", "started", "loading", "clearing",
                                             "up", "stopping"}]
  BY DEF IndRecord, TypeOK
<1>1. CASE Quiet
  <2>1. ASSUME pub # NoPub
        PROVE  pub'.proc \in Proc /\ procs'[pub'.proc] \in {"up", "stopping"}
               /\ pub'.line \in Lines
    BY <1>1, <2>1 DEF Quiet, SamePub, Writer
  <2>2. ASSUME NEW p \in Proc, procs'[p] \in {"up", "stopping"}
        PROVE  procs[p] \in {"up", "stopping"}
    BY <1>1, <2>2 DEF Quiet
  <2>3. ASSUME NEW p \in Proc, procs'[p] = "clearing"
        PROVE  procs[p] = "clearing" /\ ind'.life < lives'
    BY <1>0, <1>1, <2>3, IndLife DEF Quiet, Writer
  <2> QED BY <1>1, <2>1, <2>2, <2>3 DEF Quiet, SamePub, Writer
<1>2. ASSUME NEW p \in Proc, InitializeStateMirror(p), ind' = ind  PROVE Writer'
  <2>1. pub = NoPub /\ \A q \in Proc : q # p => procs[q] \in {"none", "started"}
    BY <1>2, OnlyWriter DEF InitializeStateMirror
  <2>2. /\ procs' = [procs EXCEPT ![p] = "clearing"] /\ lives' = lives + 1
        /\ mirror' = [mirror EXCEPT !.there = TRUE, !.life = 0]
        /\ pub' = pub /\ writes' = writes
    BY <1>2 DEF InitializeStateMirror
  <2>3. mirror'.there /\ mirror'.life = 0 /\ mirror'.seq = mirror.seq
    BY <2>2
  <2>4. ind.life <= lives
    BY DEF Lives
  <2>5. \A q \in Proc : procs'[q] \notin {"up", "stopping"}
    BY <1>0, <2>1, <2>2
  <2>6. mirror.seq <= 2 * writes
    BY <2>1 DEF Writer
  <2> QED BY <1>0, <1>2, <2>1, <2>2, <2>3, <2>4, <2>5, <2>6 DEF Writer
<1>3. ASSUME NEW p \in Proc, Clear(p), ind' = ind  PROVE Writer'
  <2>1. pub = NoPub /\ \A q \in Proc : q # p => procs[q] \in {"none", "started"}
    BY <1>3, OnlyWriter DEF Clear
  <2>2. /\ UNCHANGED <<procs, pub, writes, lives>> /\ procs[p] = "clearing"
        /\ mirror'.there = mirror.there /\ mirror'.life = mirror.life
        /\ mirror'.seq <= mirror.seq
    BY <1>3 DEF Clear, host, counters
  <2>3. mirror'.seq \in Nat
    BY <1>3 DEF Clear
  <2> QED BY <1>3, <2>1, <2>2, <2>3 DEF Writer
<1>4. ASSUME NEW p \in Proc, Listen(p), ind' = ind  PROVE Writer'
  <2>1. pub = NoPub /\ \A q \in Proc : q # p => procs[q] \in {"none", "started"}
    BY <1>4, OnlyWriter DEF Listen
  <2>2. /\ procs[p] = "clearing" /\ procs' = [procs EXCEPT ![p] = "up"]
        /\ mirror = [NoMirror EXCEPT !.there = TRUE]
        /\ mirror' = [mirror EXCEPT !.life = lives]
        /\ pub' = pub /\ writes' = writes /\ lives' = lives
    BY <1>4 DEF Listen, counters
  <2>3. mirror'.there /\ mirror'.seq = 0 /\ mirror'.life = lives
    BY <2>2 DEF NoMirror
  <2>4. lives # 0
    BY <1>0, <2>2 DEF Writer
  <2>5. \A q \in Proc : procs'[q] # "clearing"
    BY <1>0, <2>1, <2>2
  <2> QED BY <2>1, <2>2, <2>3, <2>4, <2>5 DEF Writer
<1>5. ASSUME NEW p \in Proc, Serve(p), ind' = ind  PROVE Writer'
  <2>1. \A q \in Proc : q # p => procs[q] \in {"none", "started"}
    BY <1>5, OnlyWriter DEF Serve
  <2>2. /\ pub = NoPub /\ pub'.at = "a" /\ pub'.proc = p /\ pub'.line \in Lines
        /\ procs[p] \in {"up", "stopping"}
        /\ writes' = writes + 1 /\ UNCHANGED <<procs, lives>>
        /\ mirror' = [mirror EXCEPT !.seq = mirror.seq + 1]
    BY <1>5 DEF Serve, Counted, host
  <2>3. pub' # NoPub
    BY <2>2 DEF NoPub
  <2>4. mirror.seq <= 2 * writes /\ mirror.seq % 2 = 0
    BY <2>2 DEF Writer
  <2>5. (mirror.seq + 1) % 2 = 1
    BY <2>4
  <2>6. mirror'.seq = mirror.seq + 1 /\ mirror'.there = mirror.there
        /\ mirror'.life = mirror.life
    BY <2>2
  <2> QED BY <2>1, <2>2, <2>3, <2>4, <2>5, <2>6 DEF Writer
<1>6. ASSUME NEW p \in Proc, Exit(p) \/ Killed(p), ind' = ind  PROVE Writer'
  <2>1. /\ procs' = [procs EXCEPT ![p] = "none"] /\ procs[p] # "none"
        /\ mirror' = IF ind.mapped \/ procs[p] \in {"started", "loading"}
                     THEN mirror ELSE NoMirror
        /\ pub' = (IF pub.proc = p THEN NoPub ELSE pub) /\ UNCHANGED <<lives, writes>>
    BY <1>6, EndsWithPub DEF Ends
  <2>2. mirror' = mirror \/ (mirror'.seq = 0 /\ mirror' = NoMirror)
    BY <2>1 DEF NoMirror
  <2>3. ASSUME NEW q \in Proc, procs'[q] \in {"clearing", "up", "stopping"}
        PROVE  procs'[q] = procs[q] /\ mirror' = mirror /\ pub' = pub
    <3>1. q # p /\ procs'[q] = procs[q]
      BY <1>0, <2>1, <2>3
    <3>2. procs[p] = "started"
      BY <2>1, <2>3, <3>1, OnlyWriter
    <3>3. pub.proc # p
      BY <3>2 DEF Writer, NoPub, NoProc, Proc
    <3> QED BY <2>1, <3>1, <3>2, <3>3
  <2>4. pub' # NoPub => pub' = pub /\ pub.proc # p
    BY <2>1
  <2>5. pub' # NoPub => mirror' = mirror /\ procs'[pub.proc] = procs[pub.proc]
    BY <1>0, <2>1, <2>3, <2>4 DEF Writer
  <2>6. mirror'.seq + (IF pub' = NoPub THEN 0 ELSE 1) <= 2 * writes'
    BY <2>1, <2>2, <2>4 DEF Writer
  <2> QED BY <1>6, <2>1, <2>3, <2>4, <2>5, <2>6 DEF Writer
<1>7. CASE Copy /\ ind' = ind
  <2>1. /\ pub.at # "none" /\ pub'.at # "none" /\ pub'.proc = pub.proc
        /\ pub'.line = pub.line /\ UNCHANGED <<procs, lives, writes>>
        /\ mirror'.seq = mirror.seq /\ mirror'.there = mirror.there
        /\ mirror'.life = mirror.life
    BY <1>7 DEF Copy, host, counters, PubRecord
  <2>2. pub # NoPub /\ pub' # NoPub
    BY <2>1 DEF NoPub
  <2> QED BY <1>7, <2>1, <2>2 DEF Writer
<1>8. CASE Published /\ ind' = ind
  <2>1. /\ pub.at = "end" /\ pub' = NoPub /\ UNCHANGED <<procs, lives, writes>>
        /\ mirror' = [mirror EXCEPT !.seq = mirror.seq + 1]
    BY <1>8 DEF Published, Counted, host, counters
  <2>2. pub # NoPub
    BY <2>1 DEF NoPub
  <2>3. pub.proc \in Proc /\ procs[pub.proc] \in {"up", "stopping"}
    BY <2>2 DEF Writer
  <2>4. mirror.seq % 2 = 1 /\ mirror.seq + 1 <= 2 * writes
    BY <2>2, <2>3 DEF Writer
  <2>5. (mirror.seq + 1) % 2 = 0
    BY <2>4
  <2>6. mirror'.seq = mirror.seq + 1 /\ mirror'.there = mirror.there
        /\ mirror'.life = mirror.life
    BY <2>1
  <2>7. \A q \in Proc : procs[q] # "clearing"
    BY <2>3, OnlyWriter
  <2> QED BY <1>8, <2>1, <2>2, <2>4, <2>5, <2>6, <2>7 DEF Writer
<1> QED BY <1>1, <1>2, <1>3, <1>4, <1>5, <1>6, <1>7, <1>8, Steps

(* What a host that ends leaves behind: memory Sumi has mapped, or none.   *)
LEMMA EndLeaves ==
  ASSUME IInv, NEW p \in Proc, Exit(p) \/ Killed(p)
  PROVE  /\ UNCHANGED <<lives, writes>>
         /\ mirror' = mirror \/ (mirror' = NoMirror /\ ~ind.mapped)
         /\ pub' \in {pub, NoPub}
         /\ pub' # NoPub => mirror' = mirror
<1>1. /\ procs[p] # "none"
      /\ mirror' = IF ind.mapped \/ procs[p] \in {"started", "loading"}
                   THEN mirror ELSE NoMirror
      /\ pub' = (IF pub.proc = p THEN NoPub ELSE pub) /\ UNCHANGED <<lives, writes>>
  BY EndsWithPub DEF Ends
<1>2. ASSUME pub' # NoPub PROVE mirror' = mirror
  <2>1. pub # NoPub /\ pub.proc # p
    BY <1>1, <1>2
  <2>2. procs[p] \in {"none", "started"}
    BY <2>1, OnlyWriter
  <2> QED BY <1>1, <2>2
<1> QED BY <1>1, <1>2

(* The halves of the line in the shared memory.                            *)
LEMMA ClearedNext ==
  ASSUME IInv, [Next]_vars  PROVE Cleared'
<1> USE Constants, MirrorTyped DEF IInv, MirrorRecord
<1>1. CASE Quiet
  BY <1>1 DEF Quiet, SamePub, Cleared
<1>2. ASSUME NEW p \in Proc, InitializeStateMirror(p) PROVE Cleared'
  BY <1>2 DEF InitializeStateMirror, Cleared
<1>3. ASSUME NEW p \in Proc, Clear(p) PROVE Cleared'
  <2>1. mirror'.life = 0
    BY <1>3 DEF Clear, Writer
  <2> QED BY <2>1 DEF Cleared
<1>4. ASSUME NEW p \in Proc, Listen(p) PROVE Cleared'
  <2>1. pub = NoPub
    BY <1>4, OnlyWriter DEF Listen
  <2>2. mirror'.seq = 0 /\ pub' = pub
    BY <1>4 DEF Listen, NoMirror
  <2> QED BY <2>1, <2>2 DEF Cleared, NoPub
<1>5. ASSUME NEW p \in Proc, Serve(p) PROVE Cleared'
  <2>1. /\ pub = NoPub /\ pub'.at = "a" /\ procs[p] \in {"up", "stopping"}
        /\ mirror' = [mirror EXCEPT !.seq = mirror.seq + 1]
    BY <1>5 DEF Serve, Counted
  <2>2. mirror.seq % 2 = 0
    BY <2>1 DEF Writer
  <2>3. mirror'.seq % 2 = 1
    BY <2>1, <2>2
  <2> QED BY <2>1, <2>3 DEF Cleared
<1>6. ASSUME NEW p \in Proc, Exit(p) \/ Killed(p) PROVE Cleared'
  <2>1. CASE mirror' = NoMirror
    BY <2>1 DEF Cleared, NoMirror
  <2>2. CASE mirror' = mirror
    BY <1>6, <2>2, EndLeaves DEF Cleared, NoPub
  <2> QED BY <1>6, <2>1, <2>2, EndLeaves
<1>7. CASE Copy \/ Published
  <2>0. pub.at \in {"a", "b", "end"}
    BY <1>7, Zenon DEF Copy, Published
  <2>1. pub # NoPub
    BY <2>0 DEF NoPub
  <2>2. mirror.seq % 2 = 1 /\ pub.line \in Lines
    BY <2>1 DEF Writer
  <2>3. CASE Copy
    <3>1. mirror'.seq % 2 = 1 /\ mirror'.life = mirror.life
      BY <2>2, <2>3 DEF Copy
    <3>2. pub'.at = "b" => mirror'.a = pub'.line
      BY <2>3 DEF Copy, Records, PubRecord
    <3>3. pub'.at = "end" /\ mirror.life # 0 => mirror'.a = pub'.line /\ mirror'.b = pub'.line
      BY <2>3 DEF Copy, Records, PubRecord, Cleared
    <3> QED BY <3>1, <3>2, <3>3 DEF Cleared
  <2>4. CASE Published
    <3>1. pub.at = "end" /\ pub' = NoPub /\ mirror' = [mirror EXCEPT !.seq = mirror.seq + 1]
      BY <2>4 DEF Published, Counted
    <3>2. mirror.life # 0 => mirror.a = pub.line /\ mirror.b = pub.line
      BY <3>1 DEF Cleared
    <3>3. mirror'.a = mirror.a /\ mirror'.b = mirror.b /\ mirror'.life = mirror.life
      BY <3>1
    <3> QED BY <2>2, <3>1, <3>2, <3>3 DEF Cleared, NoPub
  <2> QED BY <1>7, <2>3, <2>4
<1> QED BY <1>1, <1>2, <1>3, <1>4, <1>5, <1>6, <1>7, Steps

(* What the resident process has read.                                     *)
LEMMA ReaderNext ==
  ASSUME IInv, [Next]_vars  PROVE Reader'
<1> USE Constants, MirrorTyped DEF IInv, Records, MirrorRecord
<1>0. ind \in IndRecord
  OBVIOUS
<1>1. CASE Quiet /\ ~Sumi
  BY <1>1, IndUnmoved DEF Quiet, Reader
<1>2. CASE Quiet /\ Sumi
  <2> mirror' = mirror
    BY <1>2 DEF Quiet
  <2>1. CASE ReadSequence
    BY <2>1, ReadStarts DEF Reader
  <2>2. CASE ReadHalf
    BY <1>0, <2>2, ReadGoesOn DEF Reader, IndRecord
  <2>3. CASE CheckSequence
    BY <2>3, ReadIsOver DEF Reader
  <2>4. CASE NothingMapped \/ InBackoff \/ PollConnects \/ PollFails \/ PollReturns
    BY <2>4, PollsStep DEF Reader
  <2> QED BY <1>2, <2>1, <2>2, <2>3, <2>4 DEF Sumi
<1>3. ASSUME NEW p \in Proc, InitializeStateMirror(p) \/ Clear(p), ind' = ind PROVE Reader'
  <2>1. mirror'.life = 0
    BY <1>3 DEF InitializeStateMirror, Clear, Writer
  <2> QED BY <1>3, <2>1 DEF Reader
<1>4. ASSUME NEW p \in Proc, Listen(p), ind' = ind PROVE Reader'
  <2>1. mirror'.life = lives /\ ind.life < lives
    BY <1>4 DEF Listen, Writer
  <2> QED BY <1>0, <1>4, <2>1 DEF Reader, IndRecord
<1>5. ASSUME ind' = ind, mirror' = [mirror EXCEPT !.seq = mirror.seq + 1] PROVE Reader'
  <2>1. mirror'.life = mirror.life /\ mirror'.seq = mirror.seq + 1
    BY <1>5
  <2> QED BY <1>0, <1>5, <2>1 DEF Reader, IndRecord
<1>6. ASSUME NEW p \in Proc, Serve(p) \/ Published PROVE mirror' = [mirror EXCEPT !.seq = mirror.seq + 1]
  BY <1>6 DEF Serve, Published, Counted
<1>7. ASSUME NEW p \in Proc, Exit(p) \/ Killed(p), ind' = ind PROVE Reader'
  <2>1. CASE mirror' = mirror
    BY <1>7, <2>1 DEF Reader
  <2>2. CASE ~ind.mapped
    BY <1>7, <2>2 DEF Reader
  <2> QED BY <1>7, <2>1, <2>2, EndLeaves
<1>8. CASE Copy /\ ind' = ind
  <2>1. pub # NoPub
    BY <1>8 DEF Copy, NoPub
  <2>2. mirror.seq % 2 = 1
    BY <2>1 DEF Writer
  <2>3. mirror'.seq = mirror.seq /\ mirror'.life = mirror.life
    BY <1>8 DEF Copy
  <2>4. ind.before = mirror.seq => ind.at \notin {"a", "b", "check"}
    BY <2>2 DEF Reader
  <2> QED BY <1>8, <2>3, <2>4 DEF Reader
<1> QED BY <1>1, <1>2, <1>3, <1>4, <1>5, <1>6, <1>7, <1>8, Steps DEF Proc

(* Which host's memory is mapped.                                          *)
LEMMA LivesNext ==
  ASSUME IInv, [Next]_vars  PROVE Lives'
<1> USE Constants, MirrorTyped DEF IInv, Records, MirrorRecord
<1>0. ind.life \in Nat /\ ind.life <= lives /\ mirror.life <= lives
  BY DEF IndRecord, Lives
<1>1. lives' <= MaxLives /\ writes' <= MaxWrites /\ lives' \in Nat
  BY CountersNext
<1>2. mirror'.life <= lives' /\ lives <= lives'
  <2>1. CASE Quiet
    BY <1>0, <2>1 DEF Quiet
  <2>2. ASSUME NEW p \in Proc, InitializeStateMirror(p) PROVE mirror'.life <= lives' /\ lives <= lives'
    BY <2>2 DEF InitializeStateMirror
  <2>3. ASSUME NEW p \in Proc, Clear(p) PROVE mirror'.life <= lives' /\ lives <= lives'
    <3>1. lives' = lives /\ mirror'.life = mirror.life
      BY <2>3 DEF Clear, counters
    <3> QED BY <1>0, <3>1
  <2>4. ASSUME NEW p \in Proc, Listen(p) PROVE mirror'.life <= lives' /\ lives <= lives'
    <3>1. lives' = lives /\ mirror'.life = lives
      BY <2>4 DEF Listen, counters
    <3> QED BY <1>0, <3>1
  <2>5. ASSUME NEW p \in Proc, Serve(p) \/ Copy \/ Published
        PROVE  mirror'.life <= lives' /\ lives <= lives'
    <3>1. lives' = lives /\ mirror'.life = mirror.life
      BY <2>5 DEF Serve, Copy, Published, Counted, counters
    <3> QED BY <1>0, <3>1
  <2>6. ASSUME NEW p \in Proc, Exit(p) \/ Killed(p)
        PROVE  mirror'.life <= lives' /\ lives <= lives'
    BY <1>0, <2>6, EndLeaves DEF NoMirror
  <2> QED BY <2>1, <2>2, <2>3, <2>4, <2>5, <2>6, Steps DEF Proc
<1>3. ind'.life <= lives'
  BY <1>0, <1>1, <1>2, IndLife
<1>4. ind'.at \notin {"a", "b", "check"} => ind'.life = 0
  <2>1. CASE ~Sumi
    BY <2>1, IndUnmoved DEF Lives
  <2>2. CASE Sumi
    BY <2>2, ReadStarts, ReadGoesOn, ReadIsOver, PollsStep DEF Sumi, Lives
  <2> QED BY <2>1, <2>2
<1>5. ind'.mapped => mirror'.there
  <2>1. ASSUME NEW p \in Proc, InitializeStateMirror(p) \/ Clear(p) \/ Listen(p) \/ Serve(p),
               mirror.there
        PROVE  mirror'.there
    BY <2>1 DEF InitializeStateMirror, Clear, Listen, Serve, Counted
  <2>2. ASSUME Copy \/ Published, mirror.there PROVE mirror'.there
    BY <2>2 DEF Copy, Published, Counted
  <2>3. ASSUME NEW p \in Proc, Exit(p) \/ Killed(p), ind.mapped PROVE mirror' = mirror
    BY <2>3, EndLeaves
  <2>4. CASE ~Quiet
    BY <2>1, <2>2, <2>3, <2>4, Steps DEF Lives
  <2>5. CASE Quiet /\ ~Sumi
    BY <2>5, IndUnmoved DEF Quiet, Lives
  <2>6. CASE Quiet /\ Sumi
    BY <2>6, ReadStarts, ReadGoesOn, ReadIsOver, PollsStep DEF Sumi, Quiet, Lives
  <2> QED BY <2>4, <2>5, <2>6
<1> QED BY <1>1, <1>2, <1>3, <1>4, <1>5 DEF Lives

-----------------------------------------------------------------------------
(* The calls of Sumi's processes: what each kind of step does to them.     *)
LEMMA SumiCalls ==
  ASSUME IInv, Sumi
  PROVE  /\ UNCHANGED <<procs, serves, registry, set>>
         /\ calls'["settings"] = calls["settings"] /\ pipe'["settings"] = pipe["settings"]
         /\ pipe'["sumi"].conn \in Proc =>
              procs[pipe'["sumi"].conn] \in {"up", "stopping"}
         /\ calls'["sumi"].at # "none" => calls'["sumi"].req = "STATUS"
         /\ calls'["sumi"].at # "done" \/ calls'["sumi"] = calls["sumi"]
         /\ ind'.at = "wait" <=> calls'["sumi"].at # "none"
         /\ \/ pub' = pub /\ calls'["sumi"] = calls["sumi"]
            \/ pub'.to \in {pub.to, "others"} \ {"sumi"}
<1> USE DEF IInv, TypeOK, Records
<1>0. "sumi" \in Client /\ calls \in [Client -> CallRecord]
      /\ pipe \in [Client -> PipeRecord]
  BY DEF Client, PipeRecord
<1>1. CASE ReadSequence \/ ReadHalf \/ CheckSequence \/ NothingMapped \/ InBackoff \/ PollFails
  <2>1. UNCHANGED <<procs, serves, registry, set, calls, pub>>
    BY <1>1 DEF ReadSequence, ReadHalf, CheckSequence, NothingMapped, InBackoff, PollFails,
       host
  <2>2. pipe'["settings"] = pipe["settings"]
        /\ (pipe'["sumi"].conn = pipe["sumi"].conn \/ pipe'["sumi"].conn = NoProc)
    <3>1. CASE InBackoff
      BY <1>0, <3>1 DEF InBackoff, PipeRecord
    <3>2. CASE PollFails
      BY <1>0, <3>2 DEF PollFails, Failed
    <3>3. CASE ReadSequence \/ ReadHalf \/ CheckSequence \/ NothingMapped
      BY <3>3 DEF ReadSequence, ReadHalf, CheckSequence, NothingMapped
    <3> QED BY <1>1, <3>1, <3>2, <3>3
  <2>3. ind.at # "wait" /\ ind'.at # "wait"
    <3>1. CASE InBackoff \/ PollFails
      <4>1. ApplyMode(ind, Unreachable) \in IndRecord
        BY ApplyModeKeeps
      <4>2. ind.at = "poll" /\ ind' = [ApplyMode(ind, Unreachable) EXCEPT !.at = "idle"]
        BY <3>1 DEF InBackoff, PollFails
      <4> QED BY <4>1, <4>2 DEF IndRecord
    <3>3. CASE NothingMapped
      BY <3>3, RestOfTickKeeps DEF NothingMapped
    <3>2. CASE ReadSequence \/ ReadHalf \/ CheckSequence
      BY <3>2, ReadStarts, ReadGoesOn, ReadIsOver DEF ReadSequence, ReadHalf, CheckSequence
    <3> QED BY <1>1, <3>1, <3>2, <3>3
  <2> QED BY <1>0, <2>1, <2>2, <2>3 DEF Calls, NoProc, Proc
<1>2. CASE PollConnects
  <2>1. PICK p \in Proc : Connects("sumi", "STATUS", p)
    BY <1>2 DEF PollConnects
  <2>2. procs[p] \in {"up", "stopping"}
    BY <1>0, <2>1 DEF Connects, Calls
  <2>3. pipe'["sumi"].conn = p /\ pipe'["settings"] = pipe["settings"]
    BY <1>0, <2>1 DEF Connects, PipeRecord
  <2>4. calls' = [calls EXCEPT !["sumi"] = [NoCall EXCEPT !.at = "wait", !.req = "STATUS"]]
    BY <2>1 DEF Connects
  <2>5. calls'["sumi"].at = "wait" /\ calls'["sumi"].req = "STATUS"
        /\ calls'["settings"] = calls["settings"]
    BY <1>0, <2>4 DEF NoCall
  <2>6. UNCHANGED <<procs, serves, registry, set, pub>> /\ ind.at = "poll"
    BY <1>2 DEF PollConnects, host
  <2>7. ind'.at = "wait"
    BY <1>2, PollsStep
  <2>8. pub.to # "sumi"
    BY <1>0, <2>6 DEF Calls
  <2> QED BY <2>2, <2>3, <2>5, <2>6, <2>7, <2>8
<1>3. CASE PollReturns
  <2>1. UNCHANGED <<procs, serves, registry, set>> /\ Returns("sumi")
    BY <1>3 DEF PollReturns, host
  <2>2. calls'["sumi"] = NoCall /\ calls'["settings"] = calls["settings"]
    BY <1>0, <2>1 DEF Returns
  <2>3. pipe'["settings"] = pipe["settings"]
        /\ (pipe'["sumi"].conn = pipe["sumi"].conn \/ pipe'["sumi"].conn = NoProc)
    BY <1>0, <2>1 DEF Returns, Failed, PipeRecord
  <2>4. pub'.to \in {pub.to, "others"} \ {"sumi"}
    BY <2>1 DEF Returns, PubRecord
  <2>5. ind'.at # "wait"
    BY <1>3, PollsStep DEF PollReturns, PollConnects
  <2> QED BY <1>0, <2>1, <2>2, <2>3, <2>4, <2>5 DEF Calls, NoProc, Proc, NoCall
<1> QED BY <1>1, <1>2, <1>3 DEF Sumi

(* A request that begins, one that cannot, one that is over.               *)
LEMMA SettingsConnects ==
  ASSUME IInv, NEW req, NEW p \in Proc, Connects("settings", req, p)
  PROVE  /\ pipe'["sumi"] = pipe["sumi"] /\ calls'["sumi"] = calls["sumi"]
         /\ calls'["settings"] = [NoCall EXCEPT !.at = "wait", !.req = req]
         /\ pipe'["settings"].conn = p /\ procs[p] \in {"up", "stopping"}
         /\ procs[p] = "up" \/ pipe["settings"].conn = p
<1>1. "settings" \in Client /\ calls \in [Client -> CallRecord]
      /\ pipe \in [Client -> PipeRecord]
  BY DEF Client, PipeRecord, IInv, TypeOK, Records
<1> QED BY <1>1 DEF Connects, PipeRecord, IInv, Calls

LEMMA SettingsFails ==
  ASSUME IInv, pipe' = [pipe EXCEPT !["settings"] = Failed("settings")]
  PROVE  pipe'["sumi"] = pipe["sumi"] /\ pipe'["settings"].conn = NoProc
BY DEF Client, IInv, TypeOK, Failed

LEMMA SettingsReturns ==
  ASSUME IInv, Returns("settings")
  PROVE  /\ pipe'["sumi"] = pipe["sumi"] /\ calls'["sumi"] = calls["sumi"]
         /\ calls'["settings"] = NoCall
         /\ pipe'["settings"].conn = NoProc
            \/ (pipe'["settings"].conn = pipe["settings"].conn
                /\ calls["settings"].at = "done")
         /\ pub'.to \in {pub.to, "others"} \ {"settings"}
<1>1. "settings" \in Client /\ calls \in [Client -> CallRecord]
      /\ pipe \in [Client -> PipeRecord] /\ pub \in PubRecord
  BY DEF Client, PipeRecord, IInv, TypeOK, Records
<1> QED BY <1>1 DEF Returns, PipeRecord, PubRecord, Failed

LEMMA SettingsCalls ==
  ASSUME IInv, Settings
  PROVE  /\ UNCHANGED <<serves, ind>>
         /\ calls'["sumi"] = calls["sumi"] /\ pipe'["sumi"] = pipe["sumi"]
         /\ pipe'["settings"].conn \in Proc =>
              procs[pipe'["settings"].conn] \in {"up", "stopping"}
         /\ calls'["settings"].at # "done" \/ calls'["settings"] = calls["settings"]
         /\ set'.at \in {"shutdown", "status"} <=> calls'["settings"].at # "none"
         /\ set'.at = "shutdown" => calls'["settings"].req = "SHUTDOWN"
         /\ set'.at = "status" => calls'["settings"].req = "STATUS"
         /\ \/ pub' = pub /\ (calls'["settings"] = calls["settings"] \/ pub.to # "settings")
            \/ pub'.to \in {pub.to, "others"} \ {"settings"}
<1> USE DEF IInv, Records
<1>0. set \in SetRecord /\ pipe \in [Client -> PipeRecord] /\ "settings" \in Client
  BY DEF TypeOK, PipeRecord, Client
<1>1. CASE Apply
  <2>1. UNCHANGED <<serves, ind, pipe, calls, pub>> /\ set.at = "idle" /\ set'.at = "apply"
    BY <1>0, <1>1 DEF Apply, SetRecord
  <2> QED BY <1>0, <2>1 DEF Calls
<1>2. CASE SpawnHost
  <2>1. UNCHANGED <<serves, ind, pipe, calls, pub>> /\ set.at = "spawn" /\ set'.at = "timer"
    BY <1>0, <1>2 DEF SpawnHost, SetRecord
  <2> QED BY <1>0, <2>1 DEF Calls
<1>3. ASSUME NEW req, NEW p \in Proc, Connects("settings", req, p),
             set.at \notin {"shutdown", "status"}
      PROVE  /\ calls'["sumi"] = calls["sumi"] /\ pipe'["sumi"] = pipe["sumi"]
             /\ pipe'["settings"].conn \in Proc =>
                  procs[pipe'["settings"].conn] \in {"up", "stopping"}
             /\ calls'["settings"].at = "wait" /\ calls'["settings"].req = req
             /\ pub.to # "settings"
  <2>1. pub.to # "settings"
    BY <1>0, <1>3 DEF Calls
  <2>2. calls'["settings"] = [NoCall EXCEPT !.at = "wait", !.req = req]
    BY <1>3, SettingsConnects
  <2>3. calls'["settings"].at = "wait" /\ calls'["settings"].req = req
    BY <2>2 DEF NoCall
  <2> QED BY <1>3, <2>1, <2>3, SettingsConnects
<1>4. CASE SendShutdown
  <2>1. UNCHANGED <<serves, ind, pub>> /\ set.at = "apply"
    BY <1>4 DEF SendShutdown, host
  <2>2. CASE /\ \E p \in Proc : Connects("settings", "SHUTDOWN", p)
             /\ set' = [set EXCEPT !.at = "shutdown"]
    <3>1. set'.at = "shutdown"
      BY <1>0, <2>2 DEF SetRecord
    <3> QED BY <1>3, <2>1, <2>2, <3>1
  <2>3. CASE /\ pipe' = [pipe EXCEPT !["settings"] = Failed("settings")]
             /\ set' = [set EXCEPT !.at = "spawn"] /\ UNCHANGED calls
    <3>1. set'.at = "spawn"
      BY <1>0, <2>3 DEF SetRecord
    <3> QED BY <2>1, <2>3, <3>1, SettingsFails DEF Calls, NoProc, Proc
  <2> QED BY <1>4, <2>2, <2>3 DEF SendShutdown
<1>5. CASE RestartPoll
  <2>1. UNCHANGED <<serves, ind, pub>> /\ set.at = "timer"
    BY <1>5 DEF RestartPoll, host
  <2>2. CASE /\ \E p \in Proc : Connects("settings", "STATUS", p)
             /\ set' = [set EXCEPT !.at = "status"]
    <3>1. set'.at = "status"
      BY <1>0, <2>2 DEF SetRecord
    <3> QED BY <1>3, <2>1, <2>2, <3>1
  <2>3. CASE /\ pipe' = [pipe EXCEPT !["settings"] = Failed("settings")]
             /\ set' = NotYet /\ UNCHANGED calls
    <3>1. set'.at \in {"idle", "timer"}
      BY <2>3, NotYetKeeps
    <3> QED BY <2>1, <2>3, <3>1, SettingsFails DEF Calls, NoProc, Proc
  <2> QED BY <1>5, <2>2, <2>3 DEF RestartPoll
<1>6. CASE ShutdownReturns \/ RestartReturns
  <2>1. UNCHANGED <<serves, ind>> /\ Returns("settings")
    BY <1>6 DEF ShutdownReturns, RestartReturns, host
  <2>2. set'.at \in {"spawn", "idle", "timer"}
    <3>1. CASE ShutdownReturns
      BY <1>0, <3>1 DEF ShutdownReturns, SetRecord
    <3>2. CASE RestartReturns
      BY <1>0, <3>2, NotYetKeeps DEF RestartReturns, SetRecord
    <3> QED BY <1>6, <3>1, <3>2
  <2> QED BY <1>0, <2>1, <2>2, SettingsReturns DEF Calls, NoProc, Proc, NoCall
<1> QED BY <1>1, <1>2, <1>4, <1>5, <1>6 DEF Settings

(* What a host does to the calls.                                          *)
LEMMA ShutdownCalls ==
  ASSUME IInv, NEW p \in Proc, Shutdown(p)
  PROVE  /\ calls["settings"].req = "SHUTDOWN" /\ calls["settings"].at = "wait"
         /\ calls' = [calls EXCEPT !["settings"].at = "done"]
         /\ pipe' = [pipe EXCEPT !["settings"].conn = Stale]
         /\ procs' = [procs EXCEPT ![p] = "stopping"] /\ procs[p] = "up"
         /\ UNCHANGED <<serves, registry, ind, set, pub>>
<1>1. PICK c \in Client :
        /\ calls[c].at = "wait" /\ calls[c].req = "SHUTDOWN"
        /\ calls' = [calls EXCEPT ![c].at = "done"]
        /\ pipe' = [pipe EXCEPT ![c].conn = Stale]
  BY DEF Shutdown
<1>2. c # "sumi"
  BY <1>1 DEF IInv, Calls
<1>3. /\ procs' = [procs EXCEPT ![p] = "stopping"] /\ procs[p] = "up"
      /\ UNCHANGED <<serves, registry, ind, set, pub>>
  BY DEF Shutdown
<1> QED BY <1>1, <1>2, <1>3 DEF Client

LEMMA PublishedCalls ==
  ASSUME IInv, Published
  PROVE  /\ UNCHANGED <<procs, serves, registry, pipe, ind, set>>
         /\ pub' = NoPub /\ pub.line \in Lines /\ pub.proc \in Proc
         /\ \A c \in Client :
              \/ calls'[c] = calls[c]
              \/ /\ pub.to = c /\ pipe[c].conn = pub.proc
                 /\ calls[c].at = "wait" /\ calls'[c].at = "done"
                 /\ calls[c].req = "STATUS" /\ calls'[c].req = "STATUS"
                 /\ calls'[c].line = pub.line /\ calls'[c].engine = serves[pub.proc]
<1>1. UNCHANGED <<procs, serves, registry, pipe, ind, set>> /\ pub.at = "end" /\ pub' = NoPub
  BY DEF Published, host
<1>2. pub.line \in Lines /\ pub.proc \in Proc
  BY <1>1 DEF IInv, Writer, NoPub
<1>3. calls' = [c \in Client |->
                 IF pub.to = c /\ calls[c].at = "wait" /\ pipe[c].conn = pub.proc
                 THEN [calls[c] EXCEPT !.at = "done", !.line = pub.line,
                                       !.engine = serves[pub.proc]]
                 ELSE calls[c]]
  BY DEF Published
<1>4. ASSUME NEW c \in Client, pub.to = c, calls[c].at = "wait", pipe[c].conn = pub.proc
      PROVE  /\ calls[c].req = "STATUS" /\ calls'[c].req = "STATUS"
             /\ calls'[c].at = "done" /\ calls'[c].line = pub.line
             /\ calls'[c].engine = serves[pub.proc]
  <2>1. calls[c].req = "STATUS" /\ calls[c] \in CallRecord
    BY <1>4 DEF IInv, Calls, Records
  <2>2. calls'[c] = [calls[c] EXCEPT !.at = "done", !.line = pub.line,
                                     !.engine = serves[pub.proc]]
    BY <1>3, <1>4
  <2> QED BY <2>1, <2>2 DEF CallRecord
<1>5. ASSUME NEW c \in Client,
             ~(pub.to = c /\ calls[c].at = "wait" /\ pipe[c].conn = pub.proc)
      PROVE  calls'[c] = calls[c]
  BY <1>3, <1>5
<1> QED BY <1>1, <1>2, <1>4, <1>5

LEMMA EndCalls ==
  ASSUME IInv, NEW p \in Proc, Exit(p) \/ Killed(p)
  PROVE  /\ UNCHANGED <<calls, registry, ind, set>>
         /\ pub' \in {pub, NoPub}
         /\ procs' = [procs EXCEPT ![p] = "none"] /\ serves' = [serves EXCEPT ![p] = 0]
         /\ \A c \in Client : pipe'[c].conn = Stale
                              \/ (pipe'[c].conn = pipe[c].conn /\ pipe[c].conn # p)
<1>1. /\ UNCHANGED <<calls, registry, ind, set>>
      /\ procs' = [procs EXCEPT ![p] = "none"] /\ serves' = [serves EXCEPT ![p] = 0]
  BY EndsWithPub DEF Ends
<1>2. pub' \in {pub, NoPub}
  BY EndsWithPub
<1>3. \A c \in Client : pipe'[c].conn = Stale
                        \/ (pipe'[c].conn = pipe[c].conn /\ pipe[c].conn # p)
  <2>1. pipe' = [c \in Client |-> IF pipe[c].conn = p
                                  THEN [pipe[c] EXCEPT !.conn = Stale] ELSE pipe[c]]
    BY EndsWithPub DEF Ends
  <2> QED BY <2>1 DEF IInv, TypeOK
<1> QED BY <1>1, <1>2, <1>3

(* The other steps of the hosts and their starters change no call.         *)
OtherStep ==
  \/ TextServiceSpawns \/ Copy
  \/ \E p \in Proc : TestSingleton(p) \/ InitializeStateMirror(p) \/ Clear(p) \/ Listen(p)
                     \/ Serve(p)

LEMMA OtherCalls ==
  ASSUME IInv, OtherStep
  PROVE  /\ UNCHANGED <<registry, pipe, calls, ind, set>>
         /\ \A p \in Proc :
              \/ procs'[p] = procs[p] /\ serves'[p] = serves[p]
              \/ procs[p] = "none" /\ procs'[p] = "started" /\ serves'[p] = serves[p]
              \/ procs[p] = "started" /\ procs'[p] = "none" /\ serves'[p] = serves[p]
              \/ procs[p] = "started" /\ procs'[p] = "loading" /\ serves'[p] = registry
              \/ procs[p] = "loading" /\ procs'[p] = "clearing" /\ serves'[p] = serves[p]
              \/ procs[p] = "clearing" /\ procs'[p] = "up" /\ serves'[p] = serves[p]
         /\ pub'.to = pub.to
            \/ (pub'.to \in Client => calls[pub'.to].at = "wait" /\ calls[pub'.to].req = "STATUS")
<1> USE DEF IInv, TypeOK
<1>1. CASE TextServiceSpawns
  BY <1>1, SpawnsQuietly DEF TextServiceSpawns
<1>2. CASE Copy
  <2>1. UNCHANGED <<procs, serves, registry, pipe, calls, ind, set>>
    BY <1>2 DEF Copy, host
  <2>2. pub'.to = pub.to
    BY <1>2 DEF Copy, Records, PubRecord
  <2> QED BY <2>1, <2>2
<1>3. ASSUME NEW p \in Proc, TestSingleton(p)
      PROVE  /\ UNCHANGED <<registry, pipe, calls, ind, set, pub>>
             /\ procs[p] = "started"
             /\ \/ procs' = [procs EXCEPT ![p] = "loading"] /\ serves' = [serves EXCEPT ![p] = registry]
                \/ procs' = [procs EXCEPT ![p] = "none"] /\ serves' = serves
  BY <1>3 DEF TestSingleton
<1>4. ASSUME NEW p \in Proc, InitializeStateMirror(p) \/ Listen(p)
      PROVE  /\ UNCHANGED <<registry, pipe, calls, ind, set, pub, serves>>
             /\ \/ procs[p] = "loading" /\ procs' = [procs EXCEPT ![p] = "clearing"]
                \/ procs[p] = "clearing" /\ procs' = [procs EXCEPT ![p] = "up"]
  BY <1>4 DEF InitializeStateMirror, Listen
<1>5. ASSUME NEW p \in Proc, Clear(p)
      PROVE  UNCHANGED <<procs, serves, registry, pipe, calls, ind, set, pub>>
  BY <1>5 DEF Clear, host
<1>6. ASSUME NEW p \in Proc, Serve(p)
      PROVE  /\ UNCHANGED <<procs, serves, registry, pipe, calls, ind, set>>
             /\ pub'.to \in Client => calls[pub'.to].at = "wait" /\ calls[pub'.to].req = "STATUS"
  <2>1. UNCHANGED <<procs, serves, registry, pipe, calls, ind, set>>
    BY <1>6 DEF Serve, host
  <2>2. \E line \in Lines :
          \/ pub' = [at |-> "a", proc |-> p, line |-> line, to |-> "others"]
          \/ \E c \in Client :
               /\ calls[c].at = "wait" /\ calls[c].req = "STATUS"
               /\ pub' = [at |-> "a", proc |-> p, line |-> line, to |-> c]
    BY <1>6 DEF Serve
  <2> QED BY <2>1, <2>2 DEF Client
<1> QED BY <1>1, <1>2, <1>3, <1>4, <1>5, <1>6 DEF OtherStep

(* Every step is of one of these kinds.                                    *)
LEMMA Kinds ==
  ASSUME [Next]_vars
  PROVE  \/ Sumi \/ Settings \/ Published \/ OtherStep \/ UNCHANGED vars
         \/ \E p \in Proc : Shutdown(p) \/ Exit(p) \/ Killed(p)
BY DEF Next, Host, OtherStep

LEMMA CallsNext ==
  ASSUME IInv, [Next]_vars  PROVE Calls'
<1> USE DEF IInv, Records
<1>0. /\ pipe \in [Client -> PipeRecord] /\ calls \in [Client -> CallRecord]
      /\ procs \in [Proc -> {"none", "started", "loading", "clearing", "up", "stopping"}]
      /\ pub.to \in {"others"} \union Client
  BY DEF TypeOK, PipeRecord, PubRecord
<1>1. CASE Sumi
  BY <1>0, <1>1, SumiCalls DEF Calls, Client
<1>2. CASE Settings
  <2>1. ASSUME NEW p \in Proc, procs[p] \in {"up", "stopping"}
        PROVE  procs'[p] \in {"up", "stopping"}
    <3>1. CASE SpawnHost
      BY <2>1, <3>1, SpawnsQuietly DEF SpawnHost
    <3>2. CASE Apply \/ SendShutdown \/ ShutdownReturns \/ RestartPoll \/ RestartReturns
      <4>1. procs' = procs
        BY <3>2 DEF Apply, SendShutdown, ShutdownReturns, RestartPoll, RestartReturns, host
      <4> QED BY <2>1, <4>1
    <3> QED BY <1>2, <3>1, <3>2 DEF Settings
  <2> QED BY <1>0, <1>2, <2>1, SettingsCalls DEF Calls, Client
<1>3. CASE Published
  BY <1>0, <1>3, PublishedCalls DEF Calls, Client, NoPub
<1>4. CASE OtherStep
  <2>1. ASSUME NEW p \in Proc, procs[p] \in {"up", "stopping"}
        PROVE  procs'[p] \in {"up", "stopping"}
    BY <1>4, <2>1, OtherCalls
  <2> QED BY <1>0, <1>4, <2>1, OtherCalls DEF Calls
<1>5. ASSUME NEW p \in Proc, Shutdown(p) PROVE Calls'
  <2>1. /\ calls'["sumi"] = calls["sumi"] /\ calls'["settings"].at = "done"
        /\ calls'["settings"].req = "SHUTDOWN"
        /\ pipe'["sumi"] = pipe["sumi"] /\ pipe'["settings"].conn = Stale
    BY <1>0, <1>5, ShutdownCalls DEF Client, CallRecord, PipeRecord
  <2>2. ASSUME NEW q \in Proc, procs[q] \in {"up", "stopping"}
        PROVE  procs'[q] \in {"up", "stopping"}
    BY <1>0, <1>5, <2>2, ShutdownCalls
  <2>3. /\ calls["settings"].req = "SHUTDOWN" /\ calls["settings"].at = "wait"
        /\ UNCHANGED <<ind, set, pub>>
    BY <1>5, ShutdownCalls
  <2>4. pub.to # "settings"
    BY <2>3 DEF Calls, Client
  <2> QED BY <1>0, <2>1, <2>2, <2>3, <2>4 DEF Calls, Client, Stale, Proc
<1>6. ASSUME NEW p \in Proc, Exit(p) \/ Killed(p) PROVE Calls'
  <2>1. ASSUME NEW c \in Client, pipe'[c].conn \in Proc
        PROVE  procs'[pipe'[c].conn] \in {"up", "stopping"}
    BY <1>0, <1>6, <2>1, EndCalls DEF Calls, Stale, Proc
  <2> QED BY <1>0, <1>6, <2>1, EndCalls DEF Calls, NoPub, Client
<1>7. CASE UNCHANGED vars
  BY <1>7 DEF vars, host, Calls
<1> QED BY <1>1, <1>2, <1>3, <1>4, <1>5, <1>6, <1>7, Kinds

-----------------------------------------------------------------------------
(* The engine of the host that the settings window reaches.                *)
LEMMA SpawnServes ==
  ASSUME IInv, SpawnHost
  PROVE  /\ UNCHANGED <<serves, registry, pipe, calls>> /\ set.at = "spawn"
         /\ \A p \in Proc : procs'[p] = procs[p] \/ procs'[p] = "started"
         /\ set'.at = "timer" /\ set'.label = "starting" /\ set'.sent = set.sent
         /\ set'.chosen = set.chosen /\ set'.by = set.by
<1>1. set \in SetRecord
  BY DEF IInv, Records
<1> QED BY <1>1, SpawnsQuietly DEF SpawnHost, SetRecord

LEMMA SettingsRestarted ==
  ASSUME IInv, Settings  PROVE Restarted'
<1> USE DEF IInv, Records
<1>0. set \in SetRecord
  OBVIOUS
<1>1. CASE Apply
  <2>1. set' = [set EXCEPT !.at = "apply", !.chosen = 1 - set.chosen, !.sent = FALSE,
                           !.label = "none", !.by = 0]
    BY <1>1 DEF Apply
  <2>2. set'.at = "apply" /\ set'.chosen = 1 - set.chosen /\ ~set'.sent /\ set'.label = "none"
    BY <1>0, <2>1 DEF SetRecord
  <2>3. registry' = 1 - set.chosen
    BY <1>1 DEF Apply, Saves
  <2> QED BY <2>2, <2>3 DEF Restarted, Switched
<1>2. CASE SendShutdown
  <2>1. UNCHANGED <<procs, serves, registry>> /\ set.at = "apply" /\ ~set.sent
    BY <1>2 DEF SendShutdown, host, Restarted
  <2>2. /\ set'.sent = set.sent /\ set'.chosen = set.chosen /\ set'.label = set.label
        /\ \/ set'.at = "spawn"
           \/ /\ set'.at = "shutdown"
              /\ \E p \in Proc : Connects("settings", "SHUTDOWN", p)
    BY <1>0, <1>2 DEF SendShutdown, SetRecord
  <2>3. set'.at = "shutdown" => calls'["settings"] = [NoCall EXCEPT !.at = "wait", !.req = "SHUTDOWN"]
    BY <2>2, SettingsConnects
  <2>4. set'.at = "shutdown" => calls'["settings"].at = "wait"
    BY <2>3 DEF NoCall
  <2> QED BY <2>1, <2>2, <2>4 DEF Restarted, Switched
<1>3. CASE ShutdownReturns
  <2>1. /\ UNCHANGED <<procs, serves, registry>> /\ set.at = "shutdown"
        /\ set' = [set EXCEPT !.at = "spawn", !.sent = (calls["settings"].at = "done")]
        /\ Returns("settings")
    BY <1>3 DEF ShutdownReturns, host
  <2>2. set'.at = "spawn" /\ set'.chosen = set.chosen /\ set'.label = set.label
        /\ set'.by = set.by
    BY <1>0, <2>1 DEF SetRecord
  <2>3. set'.sent <=> calls["settings"].at = "done"
    BY <1>0, <2>1, Zenon DEF SetRecord
  <2>4. ~set.sent /\ set.label # "ready"
    BY <2>1 DEF Restarted
  <2>5. Switched' => Switched
    BY <2>1, <2>2, <2>3 DEF Switched
  <2>6. \A p \in Proc : pipe'["settings"].conn = p => pipe["settings"].conn = p
    BY <2>1, SettingsReturns DEF NoProc, Proc
  <2>7. Switched' => \A p \in Proc :
          procs'[p] \in {"loading", "clearing", "up"} \/ pipe'["settings"].conn = p =>
            serves'[p] = registry'
    BY <2>1, <2>5, <2>6 DEF Restarted
  <2> QED BY <2>1, <2>2, <2>4, <2>7 DEF Restarted
<1>4. CASE SpawnHost
  BY <1>4, SpawnServes DEF Restarted, Switched
<1>5. CASE RestartPoll
  <2>1. UNCHANGED <<procs, serves, registry>> /\ set.at = "timer"
    BY <1>5 DEF RestartPoll, host
  <2>2. CASE /\ \E p \in Proc : Connects("settings", "STATUS", p)
             /\ set' = [set EXCEPT !.at = "status"]
    <3>1. PICK p \in Proc : Connects("settings", "STATUS", p)
      BY <2>2
    <3>2. /\ calls'["settings"] = [NoCall EXCEPT !.at = "wait", !.req = "STATUS"]
          /\ pipe'["settings"].conn = p
          /\ procs[p] = "up" \/ pipe["settings"].conn = p
      BY <3>1, SettingsConnects
    <3>3. calls'["settings"].at = "wait"
      BY <3>2 DEF NoCall
    <3>4. /\ set'.at = "status" /\ set'.sent = set.sent /\ set'.chosen = set.chosen
          /\ set'.label = set.label /\ set'.by = set.by
      BY <1>0, <2>2 DEF SetRecord
    <3> QED BY <2>1, <3>2, <3>3, <3>4 DEF Restarted, Switched
  <2>3. CASE /\ pipe' = [pipe EXCEPT !["settings"] = Failed("settings")]
             /\ set' = NotYet /\ UNCHANGED calls
    <3>1. pipe'["settings"].conn = NoProc
      BY <2>3, SettingsFails
    <3> QED BY <2>1, <2>3, <3>1, NotYetKeeps DEF Restarted, Switched, NoProc, Proc
  <2> QED BY <1>5, <2>2, <2>3 DEF RestartPoll
<1>6. CASE RestartReturns
  <2>1. UNCHANGED <<procs, serves, registry>> /\ set.at = "status" /\ Returns("settings")
    BY <1>6 DEF RestartReturns, host
  <2>2. pipe'["settings"].conn \in {NoProc, pipe["settings"].conn} /\ calls'["settings"] = NoCall
    BY <2>1, SettingsReturns
  <2>3. CASE set' = NotYet
    BY <2>1, <2>2, <2>3, NotYetKeeps DEF Restarted, Switched, NoProc, Proc, NoCall
  <2>4. CASE /\ calls["settings"].at = "done"
             /\ set' = [set EXCEPT !.at = "idle", !.label = "ready", !.waited = 0,
                                   !.by = calls["settings"].engine]
    <3>1. /\ set'.at = "idle" /\ set'.sent = set.sent /\ set'.chosen = set.chosen
          /\ set'.by = calls["settings"].engine
      BY <1>0, <2>4 DEF SetRecord
    <3> QED BY <2>1, <2>2, <2>4, <3>1 DEF Restarted, Switched, NoProc, Proc, NoCall
  <2> QED BY <1>6, <2>3, <2>4 DEF RestartReturns
<1> QED BY <1>1, <1>2, <1>3, <1>4, <1>5, <1>6 DEF Settings

LEMMA RestartedNext ==
  ASSUME IInv, [Next]_vars  PROVE Restarted'
<1> USE DEF IInv, Records
<1>0. /\ pipe \in [Client -> PipeRecord] /\ calls \in [Client -> CallRecord]
      /\ serves \in [Proc -> {0, 1}]
      /\ procs \in [Proc -> {"none", "started", "loading", "clearing", "up", "stopping"}]
  BY DEF TypeOK, PipeRecord
<1>1. CASE Sumi
  BY <1>1, SumiCalls DEF Restarted, Switched
<1>2. CASE Settings
  BY <1>2, SettingsRestarted
<1>3. CASE Published
  <2>1. set.at = "shutdown" => calls'["settings"] = calls["settings"]
    BY <1>3, PublishedCalls DEF Client, Calls
  <2>2. calls'["settings"] = calls["settings"]
        \/ (pipe["settings"].conn = pub.proc /\ pub.proc \in Proc
            /\ calls'["settings"].engine = serves[pub.proc])
    BY <1>3, PublishedCalls DEF Client
  <2>3. UNCHANGED <<procs, serves, registry, pipe, set>>
    BY <1>3, PublishedCalls
  <2> QED BY <2>1, <2>2, <2>3 DEF Restarted, Switched
<1>4. CASE OtherStep
  <2>1. UNCHANGED <<registry, pipe, calls, set>>
    BY <1>4, OtherCalls
  <2>2. ASSUME Switched, NEW p \in Proc,
               procs'[p] \in {"loading", "clearing", "up"} \/ pipe["settings"].conn = p
        PROVE  serves'[p] = registry
    <3>1. pipe["settings"].conn = p => procs[p] \in {"up", "stopping"}
      BY DEF Calls, Client
    <3> QED BY <1>4, <2>2, <3>1, OtherCalls DEF Restarted
  <2> QED BY <2>1, <2>2 DEF Restarted, Switched
<1>5. ASSUME NEW p \in Proc, Shutdown(p) PROVE Restarted'
  <2>1. /\ UNCHANGED <<serves, registry, set>>
        /\ \A q \in Proc : procs'[q] \notin {"loading", "clearing", "up"}
    BY <1>0, <1>5, ShutdownCalls, OnlyWriter
  <2>2. pipe'["settings"].conn = Stale
    BY <1>0, <1>5, ShutdownCalls DEF Client, PipeRecord
  <2>3. set.at # "status"
    BY <1>5, ShutdownCalls DEF Calls
  <2> QED BY <2>1, <2>2, <2>3 DEF Restarted, Stale, Proc
<1>6. ASSUME NEW p \in Proc, Exit(p) \/ Killed(p) PROVE Restarted'
  <2>1. UNCHANGED <<calls, registry, set>>
    BY <1>6, EndCalls
  <2>2. ASSUME NEW q \in Proc,
               procs'[q] \in {"loading", "clearing", "up"} \/ pipe'["settings"].conn = q
        PROVE  /\ procs[q] \in {"loading", "clearing", "up"} \/ pipe["settings"].conn = q
               /\ serves'[q] = serves[q]
    BY <1>0, <1>6, <2>2, EndCalls DEF Stale, Proc, Client
  <2> QED BY <2>1, <2>2 DEF Restarted, Switched
<1>7. CASE UNCHANGED vars
  BY <1>7 DEF vars, host, Restarted, Switched
<1> QED BY <1>1, <1>2, <1>3, <1>4, <1>5, <1>6, <1>7, Kinds

-----------------------------------------------------------------------------
LEMMA TypeOKNext ==
  ASSUME IInv, [Next]_vars  PROVE TypeOK'
<1> USE Constants
<1>1. ProcTypes' /\ pipe' \in [Client -> PipeRecord]
  BY ProcsNext, PipesNext
<1>2. mirror' \in [there : BOOLEAN, seq : 0..2 * MaxWrites, a : Lines \union {Blank},
                   b : Lines \union {Blank}, life : 0..MaxLives]
  <2>1. mirror' \in MirrorRecord
    BY MirrorNext
  <2>2. mirror'.seq <= 2 * writes' /\ writes' \in Nat /\ writes' <= MaxWrites
    BY <2>1, WriterNext, CountersNext DEF Writer, MirrorRecord
  <2>3. mirror'.life <= MaxLives
    BY <2>1, LivesNext, CountersNext DEF Lives, MirrorRecord
  <2>4. mirror'.seq \in 0..2 * MaxWrites /\ mirror'.life \in 0..MaxLives
    BY <2>1, <2>2, <2>3 DEF MirrorRecord
  <2> QED BY <2>1, <2>4 DEF MirrorRecord, Text
<1>3. (pub' = NoPub) = (pub'.at = "none")
  BY PubNext, Zenon
<1>4. pub'.proc \in {NoProc} \union Holders'
  <2>1. CASE pub' = NoPub
    BY <2>1 DEF NoPub
  <2>2. CASE pub' # NoPub
    BY <2>2, WriterNext DEF Writer, Holders
  <2> QED BY <2>1, <2>2
<1>5. ind' \in IndRecord /\ set' \in SetRecord
  BY IndNext, SetNext
<1>6. /\ ind'.at \in IndAt /\ ind'.mode \in Lines \union {Blank, Unreachable}
      /\ ind'.last \in Lines \union {Blank} /\ set'.waited \in 0..Budget
  BY <1>5 DEF IndRecord, SetRecord, Text
<1> QED BY <1>1, <1>2, <1>3, <1>4, <1>6, CountersNext DEF TypeOK, ProcTypes, PipeRecord, IndAt

LEMMA InvNext == IInv /\ [Next]_vars => IInv'
<1> SUFFICES ASSUME IInv, [Next]_vars PROVE IInv'
  OBVIOUS
<1>1. Records'
  BY IndNext, SetNext, PubNext, CallsTyped, CountersNext DEF Records
<1> QED
  BY <1>1, TypeOKNext, WriterNext, ClearedNext, ReaderNext, LivesNext, CallsNext,
     RestartedNext DEF IInv

(* One host writes the memory and it has cleared it before; what was read  *)
(* of it is current as long as its sequence number is; no host the         *)
(* settings window can reach after the SHUTDOWN runs the old engine        *)
(* (PublishStateMirror and app_read_state_mirror, skkui_restart_engine_and_ *)
(* wait, the host's named mutex).                                          *)
THEOREM MirrorInvariant == Spec => []IInv
<1>1. Init => IInv
  BY InvInit
<1>2. IInv /\ [Next]_vars => IInv'
  BY InvNext
<1> QED BY <1>1, <1>2, PTL DEF Spec

(* Processes, memory, handles and windows keep their types, one process    *)
(* holds the named mutex, and no counter passes its bound.                 *)
THEOREM TypeCorrect == Spec => []TypeOK
<1>1. IInv => TypeOK
  BY DEF IInv
<1> QED BY <1>1, MirrorInvariant, PTL

(* What Sumi takes out of memory that its host had cleared is one line as  *)
(* the host wrote it (app_read_state_mirror's two reads of the number).    *)
THEOREM WholeLines == Spec => []AcceptedCopyIsOneLine
<1>1. IInv => AcceptedCopyIsOneLine
  <2> SUFFICES ASSUME IInv, Accepts, ind.life = mirror.life, ind.life # 0
               PROVE  ind.a = ind.b /\ ind.a = mirror.a /\ ind.a # Blank
    BY DEF AcceptedCopyIsOneLine
  <2>1. /\ ind.a = mirror.a /\ ind.b = mirror.b
        /\ mirror.seq # 0 /\ mirror.seq % 2 = 0
    BY DEF IInv, Reader, Accepts
  <2>2. mirror.a = mirror.b /\ mirror.a # Blank
    BY <2>1 DEF IInv, Cleared
  <2> QED BY <2>1, <2>2
<1> QED BY <1>1, MirrorInvariant, PTL

(* The settings window reports the switch only when the host that answered *)
(* runs the chosen engine (skkui_restart_poll after an answered SHUTDOWN). *)
THEOREM ReadyIsTheChosen == Spec => []ReadyMeansRestarted
<1>1. IInv => ReadyMeansRestarted
  BY DEF IInv, Restarted, ReadyMeansRestarted
<1> QED BY <1>1, MirrorInvariant, PTL

-----------------------------------------------------------------------------
(* The register of StateMirror: what each kind of step does to it.         *)
registerVars == <<Register, mirror.life # 0, ReadState, Replied, ind.last>>

SameRegister == Register' = Register /\ (mirror'.life # 0 <=> mirror.life # 0)
SameReader == ReadState' = ReadState /\ ind'.last = ind.last
SameReply == Replied' = Replied

LEMMA Stutters ==
  ASSUME SameRegister, SameReader, SameReply  PROVE UNCHANGED registerVars
BY DEF SameRegister, SameReader, SameReply, registerVars

(* A number that is odd, or memory that is not cleared, is an empty        *)
(* register; under an even number it is the line in the memory.            *)
LEMMA RegisterIs ==
  ASSUME IInv
  PROVE  /\ pub # NoPub => Register = pub.line /\ Register \in Lines /\ mirror.life # 0
         /\ mirror.life = 0 => Register = Blank
         /\ pub = NoPub /\ mirror.seq % 2 = 1 => Register = Blank
         /\ pub = NoPub /\ mirror.seq = 0 => Register = Blank
         /\ pub = NoPub /\ mirror.life # 0 /\ mirror.seq # 0 /\ mirror.seq % 2 = 0 =>
              Register = mirror.a /\ Register # Blank
BY MirrorTyped DEF Register, IInv, Writer, Cleared, MirrorRecord

LEMMA QuietRegister ==
  ASSUME IInv, Quiet  PROVE SameRegister
<1>1. Register' = Register
  BY DEF Quiet, SamePub, Register
<1> QED BY <1>1 DEF Quiet, SameRegister

(* What Sumi shows last.                                                   *)
LEMMA LastLine ==
  ASSUME NEW i \in IndRecord, NEW line \in Text
  PROVE  /\ \A updated : RestOfTick(i, updated).last = i.last
         /\ ApplyMode(i, line).last = i.last
         /\ ApplyMode(i, Unreachable).last = i.last
         /\ ApplyReply(i, line).last = line
<1>1. \A updated : RestOfTick(i, updated).last = i.last
  BY DEF RestOfTick, IndRecord
<1>2. \A mode : ApplyMode(i, mode).last = i.last
  BY DEF ApplyMode, IndRecord
<1>3. ApplyReply(i, line).last = line
  <2>1. ASSUME NEW j \in IndRecord PROVE [j EXCEPT !.last = line].last = line
    BY DEF IndRecord
  <2> QED BY <2>1, ApplyModeKeeps DEF ApplyReply
<1> QED BY <1>1, <1>2, <1>3

LEMMA ReadEnds ==
  ASSUME IInv, CheckSequence
  PROVE  /\ ind.at = "check" /\ ind'.at \in {"idle", "poll"}
         /\ ind'.last = IF Accepts THEN ind.a ELSE ind.last
<1> USE DEF IInv, Records
<1> DEFINE i == IF Accepts THEN [ApplyReply(ind, ind.a) EXCEPT !.seen = mirror.seq] ELSE ind
           j == [i EXCEPT !.before = 0, !.life = 0, !.a = Blank, !.b = Blank]
<1>1. ind.a \in Text /\ mirror.seq \in Nat
  BY MirrorTyped DEF IndRecord, MirrorRecord
<1>2. i \in IndRecord /\ i.last = IF Accepts THEN ind.a ELSE ind.last
  <2>1. ASSUME NEW k \in IndRecord
        PROVE  /\ [k EXCEPT !.seen = mirror.seq] \in IndRecord
               /\ [k EXCEPT !.seen = mirror.seq].last = k.last
    BY <1>1, IndUpdates DEF IndRecord
  <2> QED BY <1>1, <2>1, ApplyReplyKeeps, LastLine
<1>3. j \in IndRecord /\ j.last = i.last
  <2> HIDE DEF i
  <2>1. j \in IndRecord
    BY <1>2, IndUpdates, Zenon DEF Text
  <2> QED BY <1>2, <2>1 DEF IndRecord
<1>4. ind' = RestOfTick(j, Accepts) /\ ind.at = "check"
  BY DEF CheckSequence
<1>5. Blank \in Text
  BY DEF Text
<1> HIDE DEF i, j
<1> QED BY <1>2, <1>3, <1>4, <1>5, RestOfTickKeeps, LastLine

(* Sumi's steps.                                                           *)
LEMMA ReadRefines ==
  ASSUME IInv, SameRegister, SameReply, ReadSequence \/ ReadHalf \/ CheckSequence,
         mirror' = mirror
  PROVE  Mirror!BeginRead \/ Mirror!Take \/ Mirror!TakeSpoiled \/ Mirror!GiveUp
         \/ UNCHANGED registerVars
<1> USE DEF IInv, Records
<1>0. ind \in IndRecord /\ mirror \in MirrorRecord /\ Blank \in Text
  BY MirrorTyped DEF Text
<1>1. CASE ReadSequence
  <2>1. ind.at = "idle"
    BY <1>1 DEF ReadSequence
  <2>2. ind'.last = ind.last
    <3>1. CASE ind'.at = "a"
      <4>1. ind' = [ind EXCEPT !.mapped = TRUE, !.before = mirror.seq,
                               !.life = mirror.life, !.at = "a"]
            \/ ind' = RestOfTick([ind EXCEPT !.mapped = TRUE], FALSE)
        BY <1>1 DEF ReadSequence
      <4>2. [ind EXCEPT !.mapped = TRUE] \in IndRecord
            /\ [ind EXCEPT !.mapped = TRUE].last = ind.last
        BY <1>0, IndUpdates DEF IndRecord
      <4>3. RestOfTick([ind EXCEPT !.mapped = TRUE], FALSE).last = ind.last
        BY <1>0, <4>2, LastLine
      <4>4. [ind EXCEPT !.mapped = TRUE, !.before = mirror.seq,
                        !.life = mirror.life, !.at = "a"].last = ind.last
        BY <1>0 DEF IndRecord
      <4> QED BY <4>1, <4>3, <4>4
    <3>2. CASE ind'.at # "a"
      <4>1. ind' = RestOfTick([ind EXCEPT !.mapped = TRUE], FALSE)
        BY <1>0, <1>1, <3>2 DEF ReadSequence, IndRecord
      <4>2. [ind EXCEPT !.mapped = TRUE] \in IndRecord
            /\ [ind EXCEPT !.mapped = TRUE].last = ind.last
        BY <1>0, IndUpdates DEF IndRecord
      <4> QED BY <1>0, <4>1, <4>2, LastLine
    <3> QED BY <3>1, <3>2
  <2>3. CASE ind'.at = "a" /\ ind'.life = mirror.life
    <3>1. ReadState = "no" /\ ReadState' = IF mirror.life # 0 THEN "sound" ELSE "spoiled"
      BY <2>1, <2>3 DEF ReadState
    <3>2. Mirror!BeginRead
      BY <2>2, <3>1 DEF Mirror!BeginRead, SameRegister, SameReply
    <3> QED BY <3>2
  <2>4. CASE ind'.at \in {"idle", "poll"}
    <3>1. SameReader
      BY <2>1, <2>2, <2>4 DEF ReadState, SameReader
    <3> QED BY <3>1, Stutters
  <2> QED BY <1>1, <2>3, <2>4, ReadStarts
<1>2. CASE ReadHalf
  <2>1. ind'.last = ind.last
    BY <1>0, <1>2 DEF ReadHalf, IndRecord
  <2>2. SameReader
    BY <1>2, <2>1, ReadGoesOn DEF ReadState, SameReader
  <2> QED BY <2>2, Stutters
<1>3. CASE CheckSequence
  <2>1. ReadState' = "no" /\ ReadState \in {"sound", "spoiled"}
    BY <1>3, ReadEnds DEF ReadState
  <2>2. CASE ~Accepts
    <3>1. Mirror!GiveUp
      BY <1>3, <2>1, <2>2, ReadEnds DEF Mirror!GiveUp, SameRegister, SameReply
    <3> QED BY <3>1
  <2>3. CASE Accepts /\ ReadState = "sound"
    <3>1. /\ ind.life = mirror.life /\ ind.life # 0
          /\ ind.at = "check" /\ ind.before = mirror.seq
      BY <2>3 DEF ReadState, Accepts
    <3>2. ind.a = mirror.a /\ mirror.seq # 0 /\ mirror.seq % 2 = 0
      BY <3>1 DEF Reader
    <3>3. pub = NoPub
      BY <3>2 DEF Writer
    <3>4. Register = ind.a /\ Register # Blank
      BY <3>1, <3>2, <3>3, RegisterIs
    <3>5. Mirror!Take
      BY <1>3, <2>1, <2>3, <3>4, ReadEnds DEF Mirror!Take, SameRegister, SameReply
    <3> QED BY <3>5
  <2>4. CASE Accepts /\ ReadState = "spoiled"
    <3>1. ind'.last = ind.a /\ ind.a \in Lines \union {Blank}
      BY <1>0, <1>3, <2>4, ReadEnds DEF IndRecord, Text
    <3>2. Mirror!TakeSpoiled
      BY <2>1, <2>4, <3>1 DEF Mirror!TakeSpoiled, SameRegister, SameReply
    <3> QED BY <3>2
  <2> QED BY <2>1, <2>2, <2>3, <2>4
<1> QED BY <1>1, <1>2, <1>3

LEMMA PollRefines ==
  ASSUME IInv, SameRegister,
         NothingMapped \/ InBackoff \/ PollConnects \/ PollFails \/ PollReturns
  PROVE  Mirror!Hear \/ UNCHANGED registerVars
<1> USE DEF IInv, Records
<1>0. ind \in IndRecord /\ Blank \in Text /\ "sumi" \in Client /\ calls \in [Client -> CallRecord]
  BY DEF Text, Client
<1>1. ReadState' = ReadState
  BY PollsStep DEF ReadState
<1>2. ASSUME NEW i \in IndRecord PROVE [i EXCEPT !.at = "idle"].last = i.last
  BY DEF IndRecord
<1>3. CASE NothingMapped \/ InBackoff \/ PollFails
  <2>1. calls' = calls
    BY <1>3 DEF NothingMapped, InBackoff, PollFails
  <2>2. CASE NothingMapped
    BY <1>0, <1>1, <2>1, <2>2, LastLine, Stutters
    DEF NothingMapped, SameReader, SameReply, Replied
  <2>3. CASE InBackoff \/ PollFails
    <3>1. ind' = [ApplyMode(ind, Unreachable) EXCEPT !.at = "idle"]
      BY <2>3 DEF InBackoff, PollFails
    <3>2. ind'.last = ind.last
      BY <1>0, <1>2, <3>1, LastLine, ApplyModeKeeps
    <3> QED BY <1>1, <2>1, <3>2, Stutters DEF SameReader, SameReply, Replied
  <2> QED BY <1>3, <2>2, <2>3
<1>4. CASE PollConnects
  <2>1. calls'["sumi"].at # "done" /\ calls["sumi"].at # "done"
    <3>1. calls' = [calls EXCEPT !["sumi"] = [NoCall EXCEPT !.at = "wait", !.req = "STATUS"]]
      BY <1>4 DEF PollConnects, Connects
    <3>2. calls["sumi"].at = "none"
      BY <1>0, <1>4 DEF PollConnects, Calls, CallRecord
    <3> QED BY <1>0, <3>1, <3>2 DEF NoCall
  <2>2. ind'.last = ind.last
    BY <1>0, <1>4 DEF PollConnects, IndRecord
  <2> QED BY <1>1, <2>1, <2>2, Stutters DEF SameReader, SameReply, Replied
<1>5. CASE PollReturns
  <2>1. calls'["sumi"].at = "none"
    BY <1>0, <1>5 DEF PollReturns, Returns, NoCall
  <2>2. CASE calls["sumi"].at = "done"
    <3>1. calls["sumi"].line \in Lines /\ calls["sumi"].line \in Text
      <4>1. calls["sumi"].req = "STATUS"
        BY <1>0, <2>2, <1>5 DEF Calls, CallRecord, PollReturns, Returns
      <4> QED BY <1>0, <2>2, <4>1 DEF Calls, Text
    <3>2. ind'.last = calls["sumi"].line
      BY <1>0, <1>2, <1>5, <2>2, <3>1, LastLine, ApplyReplyKeeps DEF PollReturns
    <3>3. Mirror!Hear
      BY <1>1, <2>1, <2>2, <3>1, <3>2, Constants
      DEF Mirror!Hear, SameRegister, Replied
    <3> QED BY <3>3
  <2>3. CASE calls["sumi"].at # "done"
    <3>1. ind'.last = ind.last
      BY <1>0, <1>2, <1>5, <2>3, LastLine, ApplyModeKeeps DEF PollReturns
    <3> QED BY <1>1, <2>1, <2>3, <3>1, Stutters DEF SameReader, SameReply, Replied
  <2> QED BY <2>2, <2>3
<1> QED BY <1>3, <1>4, <1>5

(* The hosts' steps.                                                       *)
LEMMA SameReplyUnless ==
  ASSUME IInv, [Next]_vars, ~Sumi, ~Published  PROVE SameReply
<1>1. CASE Settings
  BY <1>1, SettingsCalls DEF SameReply, Replied
<1>2. CASE OtherStep
  BY <1>2, OtherCalls DEF SameReply, Replied
<1>3. ASSUME NEW p \in Proc, Shutdown(p) PROVE SameReply
  <2>1. calls'["sumi"] = calls["sumi"]
    BY <1>3, ShutdownCalls DEF Client, IInv, Records
  <2> QED BY <2>1 DEF SameReply, Replied
<1>4. ASSUME NEW p \in Proc, Exit(p) \/ Killed(p) PROVE SameReply
  BY <1>4, EndCalls DEF SameReply, Replied
<1>5. CASE UNCHANGED vars
  BY <1>5 DEF vars, SameReply, Replied
<1> QED BY <1>1, <1>2, <1>3, <1>4, <1>5, Kinds

(* A step of a host that leaves "life" alone leaves Sumi's read alone.     *)
LEMMA SameReaderIf ==
  ASSUME ind' = ind, mirror'.life = mirror.life  PROVE SameReader
BY DEF SameReader, ReadState

(* Memory that is lost or taken over by another host.                      *)
LEMMA LostRefines ==
  ASSUME IInv, ind' = ind, SameReply, mirror.life # 0, mirror'.life = 0, Register' = Blank
  PROVE  Mirror!Lost
<1>1. ReadState' = IF ReadState = "sound" THEN "spoiled" ELSE ReadState
  BY DEF ReadState
<1> QED BY <1>1 DEF Mirror!Lost, SameReply

LEMMA ClearRefines ==
  ASSUME IInv, NEW p \in Proc, InitializeStateMirror(p) \/ Clear(p) \/ Listen(p),
         IInv', SameReply
  PROVE  Mirror!Lost \/ Mirror!Cleared \/ UNCHANGED registerVars
<1>0. pub = NoPub /\ pub' = pub /\ ind' = ind
  <2>1. procs[p] \in {"loading", "clearing"} /\ pub' = pub /\ ind' = ind
    BY DEF InitializeStateMirror, Clear, Listen
  <2> QED BY <2>1, OnlyWriter
<1>1. CASE InitializeStateMirror(p)
  <2>1. mirror'.life = 0
    BY <1>1, MirrorTyped DEF InitializeStateMirror, MirrorRecord
  <2>2. Register' = Blank
    BY <1>0, <2>1 DEF Register
  <2>3. CASE mirror.life # 0
    BY <1>0, <2>1, <2>2, <2>3, LostRefines
  <2>4. CASE mirror.life = 0
    BY <1>0, <2>1, <2>2, <2>4, RegisterIs, SameReaderIf, Stutters DEF SameRegister
  <2> QED BY <2>3, <2>4
<1>2. CASE Clear(p)
  <2>1. mirror'.life = 0 /\ mirror.life = 0
    <3>1. mirror.life = 0
      BY <1>2 DEF Clear, IInv, Writer
    <3>2. mirror'.life = mirror.life
      BY <1>2, MirrorTyped DEF Clear, MirrorRecord
    <3> QED BY <3>1, <3>2
  <2>2. Register' = Blank
    BY <1>0, <2>1 DEF Register
  <2> QED BY <1>0, <2>1, <2>2, RegisterIs, SameReaderIf, Stutters DEF SameRegister
<1>3. CASE Listen(p)
  <2>1. mirror.life = 0 /\ ind.life < lives
    BY <1>3 DEF Listen, IInv, Writer
  <2>2. mirror'.life = lives /\ mirror'.seq = 0
    BY <1>3 DEF Listen, NoMirror
  <2>3. lives # 0 /\ ind.life # lives
    BY <2>1 DEF IInv, Records, IndRecord
  <2>4. ReadState' = ReadState
    BY <1>0, <2>1, <2>2, <2>3 DEF ReadState
  <2>5. Register' = Register
    BY <1>0, <2>1, <2>2, RegisterIs DEF Register
  <2>6. Mirror!Cleared
    BY <1>0, <2>1, <2>2, <2>3, <2>4, <2>5 DEF Mirror!Cleared, SameReply
  <2> QED BY <2>6
<1> QED BY <1>1, <1>2, <1>3

LEMMA ServeRefines ==
  ASSUME IInv, NEW p \in Proc, Serve(p), IInv', SameReply
  PROVE  \E line \in Lines : Mirror!Publish(line)
<1>1. /\ pub'.at = "a" /\ pub'.line \in Lines /\ ind' = ind
      /\ mirror' = [mirror EXCEPT !.seq = mirror.seq + 1] /\ procs[p] \in {"up", "stopping"}
  BY DEF Serve, Counted
<1>2. pub' # NoPub /\ Register' = pub'.line
  BY <1>1 DEF NoPub, Register
<1>3. mirror'.life = mirror.life /\ mirror.life # 0
  BY <1>1, MirrorTyped DEF MirrorRecord, IInv, Writer
<1>4. Mirror!Publish(pub'.line)
  BY <1>1, <1>2, <1>3, SameReaderIf DEF Mirror!Publish, SameReader, SameReply
<1> QED BY <1>1, <1>4

LEMMA CopyRefines ==
  ASSUME IInv, [Next]_vars, Copy, SameReply  PROVE UNCHANGED registerVars
<1>1. pub.at \in {"a", "b"} /\ pub \in PubRecord /\ ind' = ind
  BY DEF Copy, IInv, Records
<1>2. pub # NoPub
  BY <1>1 DEF NoPub
<1>3. pub'.at \in {"b", "end"} /\ pub'.line = pub.line
  BY <1>1 DEF Copy, PubRecord
<1>4. Register' = Register
  BY <1>2, <1>3 DEF Register, NoPub
<1>5. mirror'.life = mirror.life
  BY MirrorTyped DEF Copy, MirrorRecord
<1> QED BY <1>1, <1>4, <1>5, SameReaderIf, Stutters DEF SameRegister

LEMMA PublishedRefines ==
  ASSUME IInv, Published  PROVE Mirror!Reply \/ UNCHANGED registerVars
<1>0. /\ pub.at = "end" /\ pub' = NoPub /\ ind' = ind
      /\ mirror' = [mirror EXCEPT !.seq = mirror.seq + 1]
  BY DEF Published, Counted
<1>1. /\ pub.at = "end" /\ pub # NoPub /\ pub' = NoPub /\ ind' = ind
      /\ mirror' = [mirror EXCEPT !.seq = mirror.seq + 1]
  BY <1>0 DEF NoPub
<1>2. mirror.seq % 2 = 1 /\ mirror.life # 0 /\ mirror.seq \in Nat /\ mirror.a = pub.line
  BY <1>1, MirrorTyped DEF IInv, Writer, Cleared, MirrorRecord
<1>3. /\ mirror'.life = mirror.life /\ mirror'.a = mirror.a
      /\ mirror'.seq # 0 /\ mirror'.seq % 2 = 0
  BY <1>1, <1>2, MirrorTyped DEF MirrorRecord
<1>4. Register' = pub.line /\ Register = pub.line /\ Register # Blank
  BY <1>1, <1>2, <1>3, RegisterIs, Constants DEF Register
<1>5. SameReader
  BY <1>1, <1>3, SameReaderIf
<1>6. CASE calls'["sumi"] = calls["sumi"]
  BY <1>2, <1>3, <1>4, <1>5, <1>6, Stutters DEF SameRegister, SameReply, Replied
<1>7. CASE calls'["sumi"].at = "done" /\ calls'["sumi"].line = pub.line
  <2>1. Replied' = Register
    BY <1>4, <1>7 DEF Replied
  <2>2. Mirror!Reply
    BY <1>2, <1>3, <1>4, <1>5, <2>1 DEF Mirror!Reply, SameReader
  <2> QED BY <2>2
<1> QED BY <1>6, <1>7, PublishedCalls DEF Client

LEMMA EndRefines ==
  ASSUME IInv, NEW p \in Proc, Exit(p) \/ Killed(p), SameReply, ind' = ind
  PROVE  Mirror!Lost \/ Mirror!CutOff \/ UNCHANGED registerVars
<1>1. /\ mirror' = mirror \/ mirror' = NoMirror
      /\ pub' \in {pub, NoPub} /\ (pub' # NoPub => mirror' = mirror)
  BY EndLeaves
<1>2. CASE mirror' = NoMirror
  <2>1. pub' = NoPub \/ mirror' = mirror
    BY <1>1
  <2>2. mirror'.life = 0
    BY <1>2 DEF NoMirror
  <2>3. CASE mirror' = mirror
    <3>1. pub = NoPub /\ pub' = NoPub
      BY <1>1, <2>2, <2>3, RegisterIs
    <3> QED BY <2>3, <3>1, SameReaderIf, Stutters DEF Register, SameRegister
  <2>4. CASE pub' = NoPub
    <3>1. Register' = Blank
      BY <2>2, <2>4 DEF Register
    <3>2. CASE mirror.life # 0
      BY <2>2, <3>1, <3>2, LostRefines
    <3>3. CASE mirror.life = 0
      BY <2>2, <3>1, <3>3, RegisterIs, SameReaderIf, Stutters DEF SameRegister
    <3> QED BY <3>2, <3>3
  <2> QED BY <2>1, <2>3, <2>4
<1>3. CASE mirror' = mirror /\ pub' = pub
  BY <1>3, SameReaderIf, Stutters DEF SameRegister, Register
<1>4. CASE mirror' = mirror /\ pub # NoPub /\ pub' = NoPub
  <2>1. mirror.seq % 2 = 1
    BY <1>4 DEF IInv, Writer
  <2>2. Register' = Blank
    BY <1>4, <2>1 DEF Register
  <2>3. Mirror!CutOff
    BY <1>4, <2>2, SameReaderIf DEF Mirror!CutOff, SameReader, SameReply
  <2> QED BY <2>3
<1> QED BY <1>1, <1>2, <1>3, <1>4

LEMMA MirrorInit == Init => Mirror!Init
BY DEF Init, Mirror!Init, Register, ReadState, Replied, NoPub, NoMirror, NoCall, Client

LEMMA MirrorStep ==
  IInv /\ [Next]_vars => [Mirror!Next]_registerVars
<1> SUFFICES ASSUME IInv, [Next]_vars PROVE Mirror!Next \/ UNCHANGED registerVars
  OBVIOUS
<1>0. IInv'
  BY InvNext
<1>1. CASE Quiet /\ Sumi
  <2>1. SameRegister /\ mirror' = mirror
    BY <1>1, QuietRegister DEF Quiet
  <2>2. CASE ReadSequence \/ ReadHalf \/ CheckSequence
    <3>1. SameReply
      BY <2>2 DEF ReadSequence, ReadHalf, CheckSequence, SameReply, Replied
    <3> QED BY <2>1, <2>2, <3>1, ReadRefines DEF Mirror!Next
  <2>3. CASE NothingMapped \/ InBackoff \/ PollConnects \/ PollFails \/ PollReturns
    BY <2>1, <2>3, PollRefines DEF Mirror!Next
  <2> QED BY <1>1, <2>2, <2>3 DEF Sumi
<1>2. CASE Quiet /\ ~Sumi
  <2>1. ~Published
    <3>1. Published => mirror'.seq = mirror.seq + 1
      <4>1. Published => mirror' = [mirror EXCEPT !.seq = mirror.seq + 1]
        BY DEF Published, Counted
      <4> QED BY <4>1, MirrorTyped DEF MirrorRecord
    <3>2. mirror.seq + 1 # mirror.seq
      BY MirrorTyped DEF MirrorRecord
    <3> QED BY <1>2, <3>1, <3>2 DEF Quiet
  <2>2. SameReply
    BY <1>2, <2>1, SameReplyUnless
  <2>3. SameReader
    BY <1>2, IndUnmoved, SameReaderIf DEF Quiet
  <2> QED BY <1>2, <2>2, <2>3, QuietRegister, Stutters
<1>3. ASSUME NEW p \in Proc, \/ InitializeStateMirror(p) \/ Clear(p) \/ Listen(p) \/ Serve(p)
                             \/ Exit(p) \/ Killed(p), ind' = ind
      PROVE  Mirror!Next \/ UNCHANGED registerVars
  <2>1. SameReply
    <3>1. calls' = calls
      BY <1>3, EndCalls DEF InitializeStateMirror, Clear, Listen, Serve
    <3> QED BY <3>1 DEF SameReply, Replied
  <2> QED BY <1>0, <1>3, <2>1, ClearRefines, ServeRefines, EndRefines DEF Mirror!Next
<1>4. CASE Copy
  <2>1. SameReply
    BY <1>4 DEF Copy, SameReply, Replied
  <2> QED BY <1>4, <2>1, CopyRefines
<1>5. CASE Published
  BY <1>5, PublishedRefines DEF Mirror!Next
<1> QED BY <1>1, <1>2, <1>3, <1>4, <1>5, Steps

(* The sequence lock and the STATUS reply implement a register that is     *)
(* written and read whole: each step of a host or of Sumi is one step of   *)
(* StateMirror or none (PublishStateMirror, app_read_state_mirror).        *)
THEOREM SequenceLockImplementsRegister == Spec => MirrorIsARegister
<1>1. IInv /\ [Next]_vars => IInv'
  BY InvNext
<1>2. IInv /\ [Next]_vars => [Mirror!Next]_registerVars
  BY MirrorStep
<1> QED BY <1>1, <1>2, InvInit, MirrorInit, PTL
    DEF Spec, MirrorIsARegister, Mirror!Spec, registerVars
=============================================================================
