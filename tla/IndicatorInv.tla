---------------------------- MODULE IndicatorInv ----------------------------
(***************************************************************************)
(* The inductive invariant of Indicator: who may write the shared memory   *)
(* and the registry, and what Sumi's two processes may still believe of    *)
(* them.  The run indicator checks it on an instance, Indicator_proofs     *)
(* proves it for every number of lines, lives, writes and incidents.       *)
(***************************************************************************)
EXTENDS Indicator

IndAt == {"idle", "a", "b", "check", "poll", "wait"}
Text == Lines \union {Blank}
IndRecord ==
  [at : IndAt, mapped : BOOLEAN, have : BOOLEAN, mode : Text \union {Unreachable},
   last : Text, seen : Nat, before : Nat, a : Text, b : Text, life : Nat]
SetRecord ==
  [at : {"idle", "apply", "shutdown", "spawn", "timer", "status"},
   chosen : {0, 1}, sent : BOOLEAN, label : {"none", "starting", "ready", "stuck"},
   by : {0, 1}, waited : 0..Budget]
CallRecord ==
  [at : {"none", "wait", "done"}, req : {"none", "STATUS", "SHUTDOWN"}, line : Text,
   engine : {0, 1}]
PubRecord ==
  [at : {"none", "a", "b", "end"}, proc : {NoProc} \union Proc, line : Text,
   to : {"others"} \union Client]

Records ==
  /\ ind \in IndRecord /\ set \in SetRecord /\ pub \in PubRecord
  /\ calls \in [Client -> CallRecord]
  /\ lives \in Nat /\ writes \in Nat /\ incidents \in Nat

(* A host that writes is the one that holds the named mutex, and it has    *)
(* cleared the memory; the sequence number is odd while it writes and      *)
(* counts no more than what was written.                                   *)
Writer ==
  /\ pub # NoPub =>
       /\ pub.proc \in Proc /\ procs[pub.proc] \in {"up", "stopping"}
       /\ pub.line \in Lines
  /\ mirror.seq + (IF pub = NoPub THEN 0 ELSE 1) <= 2 * writes
  /\ \A p \in Proc : procs[p] \in {"up", "stopping"} =>
       /\ mirror.there /\ mirror.life = lives /\ lives # 0
       /\ mirror.seq % 2 = (IF pub = NoPub THEN 0 ELSE 1)
  /\ \A p \in Proc : procs[p] = "clearing" =>
       mirror.there /\ mirror.life = 0 /\ ind.life < lives

(* Memory that was cleared holds, under an even number, the line that was  *)
(* published last; while it is written, the halves copied so far.          *)
Cleared ==
  mirror.life # 0 =>
    /\ mirror.seq % 2 = 0 /\ mirror.seq # 0 => mirror.a = mirror.b /\ mirror.a # Blank
    /\ pub.at \in {"b", "end"} => mirror.a = pub.line
    /\ pub.at = "end" => mirror.b = pub.line

(* What Sumi has read so far is still what it would read, or the sequence  *)
(* number or the memory's host have changed.                               *)
Reader ==
  /\ ind.at \in {"a", "b", "check"} =>
       ind.mapped /\ ind.before # 0 /\ ind.before % 2 = 0
  /\ ind.at \in {"a", "b", "check"} /\ ind.life = mirror.life /\ ind.life # 0 =>
       /\ ind.before <= mirror.seq
       /\ ind.at # "a" /\ ind.before = mirror.seq => ind.a = mirror.a
       /\ ind.at = "check" /\ ind.before = mirror.seq => ind.b = mirror.b

(* The memory goes with its host unless Sumi has mapped it, and one host   *)
(* clears it in a life.                                                    *)
Lives ==
  /\ mirror.life <= lives /\ lives <= MaxLives /\ writes <= MaxWrites
  /\ ind.life <= lives
  /\ ind.at \notin {"a", "b", "check"} => ind.life = 0
  /\ ind.mapped => mirror.there

(* A handle is open to a host that serves; a call in progress is the one   *)
(* its owner waits for.                                                    *)
Calls ==
  /\ \A c \in Client : pipe[c].conn \in Proc => procs[pipe[c].conn] \in {"up", "stopping"}
  /\ ind.at = "wait" <=> calls["sumi"].at # "none"
  /\ set.at \in {"shutdown", "status"} <=> calls["settings"].at # "none"
  /\ calls["sumi"].at # "none" => calls["sumi"].req = "STATUS"
  /\ set.at = "shutdown" => calls["settings"].req = "SHUTDOWN"
  /\ set.at = "status" => calls["settings"].req = "STATUS"
  /\ pub.to \in Client => calls[pub.to].at = "wait" /\ calls[pub.to].req = "STATUS"
  /\ \A c \in Client : calls[c].at = "done" /\ calls[c].req = "STATUS" =>
       calls[c].line \in Lines

(* The old host has answered the SHUTDOWN: whatever host the settings      *)
(* window can reach from now on took its engine from the new registry.     *)
Switched == set.sent \/ (set.at = "shutdown" /\ calls["settings"].at = "done")
Restarted ==
  /\ registry = set.chosen
  /\ set.at \in {"apply", "shutdown"} => ~set.sent /\ set.label # "ready"
  /\ Switched => \A p \in Proc :
       procs[p] \in {"loading", "clearing", "up"} \/ pipe["settings"].conn = p =>
         serves[p] = registry
  /\ set.sent /\ set.at = "status" /\ calls["settings"].at = "done" =>
       calls["settings"].engine = registry
  /\ set.sent /\ set.label = "ready" => set.by = registry

IInv ==
  /\ TypeOK /\ Records /\ Writer /\ Cleared /\ Reader /\ Lives /\ Calls
  /\ Restarted

-----------------------------------------------------------------------------
(* The register that StateMirror promises.  A line is in it as soon as the *)
(* host has made the sequence number odd: nothing else can be accepted     *)
(* from then on.                                                           *)
Register ==
  IF pub # NoPub THEN pub.line
  ELSE IF mirror.life # 0 /\ mirror.seq # 0 /\ mirror.seq % 2 = 0 THEN mirror.a
  ELSE Blank

ReadState ==
  IF ind.at \notin {"a", "b", "check"} THEN "no"
  ELSE IF ind.life = mirror.life /\ ind.life # 0 THEN "sound"
  ELSE "spoiled"

Replied == IF calls["sumi"].at = "done" THEN calls["sumi"].line ELSE Blank

Mirror == INSTANCE StateMirror WITH
  value <- Register, whole <- mirror.life # 0, reading <- ReadState,
  answer <- Replied, last <- ind.last

(* What Sumi takes, from the shared memory or as a reply, is a line of a   *)
(* register that is written and read in one step (PublishStateMirror,      *)
(* app_read_state_mirror and the STATUS reply).                            *)
MirrorIsARegister == Mirror!Spec
=============================================================================
