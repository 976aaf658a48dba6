--------------------------- MODULE DictionaryRelay ---------------------------
(***************************************************************************)
(* The host between the engine child and the dictionaries                  *)
(* (windows/host/main.cpp).  Dispatch writes a request line to the child's *)
(* stdin and reads its stdout; a line that starts with SERVER asks for a   *)
(* word, and the child then waits on its stdin for the answer, which comes *)
(* from the files the host has loaded or from an skkserv over TCP.  The    *)
(* engine mutex is held all the while, so there is one Dispatch at a time. *)
(*                                                                         *)
(* A line is a record; an entry of a dictionary file is the sequence of    *)
(* its tokens between slashes, each a text and an annotation.              *)
(***************************************************************************)
EXTENDS Naturals, Sequences, SequencesExt

CONSTANTS
  Word,         (* the readings that are looked up                         *)
  Files,        (* the configured files, in priority order: word -> entry  *)
  Known,        (* the words the server has                                *)
  Limit,        (* kMaxServerExchangesPerRequest, 64 in the code           *)
  MaxAsks,      (* BOUND: words one request looks up                       *)
  MaxRequests,  (* BOUND: lines after which no further request begins      *)
  MaxIncidents  (* BOUND: times the server stops, returns or is slow       *)

Open == [text |-> "[", note |-> ""]         \* [okurigana/.../] blocks
Close == [text |-> "]", note |-> ""]

NoWord == "none"
Token == [text : STRING, note : STRING]

ASSUME RelayAssumption ==
  /\ Known \subseteq Word /\ NoWord \notin Word
  /\ Len(Files) \in Nat /\ DOMAIN Files = 1..Len(Files)
  /\ \A i \in DOMAIN Files : /\ DOMAIN Files[i] \subseteq Word
                             /\ Files[i] \in [DOMAIN Files[i] -> Seq(Token)]
  /\ Limit \in Nat \ {0} /\ MaxAsks \in Nat /\ MaxRequests \in Nat
  /\ MaxIncidents \in Nat

Verbs == {"KEY", "RESET", "CONVERT"}
NotFound == [kind |-> "reply", word |-> NoWord, found |-> <<>>]
Found(w, entry) == [kind |-> "reply", word |-> w, found |-> entry]
External == <<[text |-> "served", note |-> ""]>>   \* what the server lists

VARIABLES
  enabled, startable,   \* SkkServEnable; a start command is configured
  loaded, ready, maps,  \* the loader's maps; g_builtin_dictionary
  socket,               \* g_dictionary_server.socket
  wire, replies,        \* requests and replies on that connection
  server, cooldown,     \* the skkserv process; the last spawn is recent
  host,                 \* where Dispatch is
  plan,                 \* what is left of a DispatchConvertKeys
  toChild, fromChild,   \* the child's stdin and stdout
  child,                \* what the child does, and the candidate it shows
  requests, incidents,  \* counters
  swallowed,            \* requests the child took for a dictionary's answer
  steady                \* no incident since the lookup began

dictionaries == <<loaded, ready, maps>>
link == <<socket, wire, replies>>
skkserv == <<server, cooldown>>
config == <<enabled, startable>>
pipes == <<toChild, fromChild>>
history == <<requests, swallowed>>
vars == <<config, dictionaries, link, skkserv, host, plan, pipes, child,
          incidents, history, steady>>

Idle == [at |-> "idle", id |-> 0, asked |-> 0, word |-> NoWord, attempt |-> 0]
Waiting == [at |-> "stdin", id |-> 0, word |-> NoWord, asks |-> 0, shown |-> 0]

Init ==
  /\ enabled \in BOOLEAN /\ startable \in BOOLEAN
  /\ loaded = <<>> /\ ready = FALSE /\ maps = <<>>
  /\ socket = "none" /\ wire = <<>> /\ replies = <<>>
  /\ server \in {"down", "up"} /\ cooldown = FALSE
  /\ host = [Idle EXCEPT !.at = "probe"] /\ plan = <<>>
  /\ toChild = <<>> /\ fromChild = <<>> /\ child = Waiting
  /\ requests = 0 /\ incidents = 0 /\ swallowed = {} /\ steady = FALSE

-----------------------------------------------------------------------------
(* LoadBuiltinDictionariesThread: a file that cannot be read leaves an     *)
(* empty map in its slot; the maps are published together.                 *)
NoEntries == [w \in {} |-> <<>>]

LoadFile ==
  /\ ~ready /\ Len(loaded) < Len(Files)
  /\ \E map \in {Files[Len(loaded) + 1], NoEntries} :
       loaded' = Append(loaded, map)
  /\ UNCHANGED <<config, ready, maps, link, skkserv, host, plan, pipes, child,
                 incidents, history, steady>>

AnyFile == loaded # <<>>                                          \* mutant
AllLoaded == Len(loaded) = Len(Files)

Publish ==
  /\ ~ready /\ AllLoaded
  /\ maps' = loaded /\ ready' = TRUE
  /\ UNCHANGED <<config, loaded, link, skkserv, host, plan, pipes, child,
                 incidents, history, steady>>

(* MergeBuiltinCandidates: the files' candidates in priority order, each   *)
(* text once, with the annotation it was first seen with; what stands in   *)
(* brackets belongs to one okurigana and is skipped.                       *)
KeepsInner(merge, token) ==                                       \* mutant
  IF token \in {Open, Close} \/ \E i \in DOMAIN merge.out :
                                  merge.out[i].text = token.text
  THEN merge ELSE [merge EXCEPT !.out = Append(@, token)]

Merged(merge, token) ==
  IF merge.block THEN [merge EXCEPT !.block = token # Close]
  ELSE IF token = Open THEN [merge EXCEPT !.block = TRUE]
  ELSE IF \E i \in DOMAIN merge.out : merge.out[i].text = token.text THEN merge
  ELSE [merge EXCEPT !.out = Append(@, token)]

MergeEntry(list, entry) ==
  LET walk[n \in 0..Len(entry)] ==
        IF n = 0 THEN [block |-> FALSE, out |-> list]
        ELSE Merged(walk[n - 1], entry[n])
  IN walk[Len(entry)].out

MergeAll(entries) ==
  LET lists[n \in 0..Len(entries)] ==
        IF n = 0 THEN <<>> ELSE MergeEntry(lists[n - 1], entries[n])
  IN lists[Len(entries)]

EntriesFor(w) ==
  [i \in DOMAIN maps |-> IF w \in DOMAIN maps[i] THEN maps[i][w] ELSE <<>>]
MergeBuiltinCandidates(w) == MergeAll(EntriesFor(w))

-----------------------------------------------------------------------------
(* The connection to the server.                                           *)
KeepsSocket == UNCHANGED link                                     \* mutant
CloseDictionarySocket ==
  socket' = "none" /\ wire' = <<>> /\ replies' = <<>>

(* TrySpawnSkkServ: at most once per cooldown.                             *)
TrySpawnSkkServ ==
  IF startable /\ ~cooldown
  THEN /\ cooldown' = TRUE
       /\ server' = IF server = "down" THEN "starting" ELSE server
  ELSE UNCHANGED skkserv

(* wmain's reachability probe, before the first client.                    *)
Probe ==
  /\ host.at = "probe" /\ host' = Idle
  /\ IF enabled /\ startable /\ server # "up" THEN TrySpawnSkkServ
     ELSE UNCHANGED skkserv
  /\ UNCHANGED <<config, dictionaries, link, plan, pipes, child, incidents,
                 history, steady>>

-----------------------------------------------------------------------------
(* Dispatch.                                                               *)
WriteLine(verb) ==
  /\ requests' = requests + 1
  /\ toChild' = Append(toChild, [kind |-> "request", id |-> requests + 1,
                                 verb |-> verb])
  /\ host' = [Idle EXCEPT !.at = "read", !.id = requests + 1]

(* Any request of a worker, the collector or a session's close; and        *)
(* DispatchConvertKeys, which is RESET, the keys and CONVERT.              *)
Dispatch ==
  /\ host.at = "idle" /\ plan = <<>> /\ requests < MaxRequests
  /\ \/ \E verb \in Verbs : WriteLine(verb) /\ UNCHANGED plan
     \/ WriteLine("RESET") /\ plan' = <<"KEY", "CONVERT">>
  /\ UNCHANGED <<config, dictionaries, link, skkserv, fromChild, child,
                 incidents, swallowed, steady>>

NextOfPlan ==
  /\ host.at = "idle" /\ plan # <<>>
  /\ WriteLine(Head(plan)) /\ plan' = Tail(plan)
  /\ UNCHANGED <<config, dictionaries, link, skkserv, fromChild, child,
                 incidents, swallowed, steady>>

ConvertsAnyway(line) == plan                                      \* mutant
(* A key that has already produced a candidate is the barrier's last.  One *)
(* KEY stands for the run of them; the STATE of a registration stops the   *)
(* barrier as a candidate's does; what follows a malformed key, which ends *)
(* the barrier early, is in EngineHost (ConversionFails).                  *)
Left(line) == IF plan = <<"CONVERT">> /\ line.shown > 0 THEN <<>> ELSE plan

ReadAnswer ==
  /\ host.at = "read" /\ fromChild # <<>> /\ Head(fromChild).kind = "answer"
  /\ fromChild' = Tail(fromChild)
  /\ plan' = Left(Head(fromChild)) /\ host' = Idle
  /\ UNCHANGED <<config, dictionaries, link, skkserv, toChild, child,
                 incidents, history, steady>>

Asked == host.at = "read" /\ fromChild # <<>> /\ Head(fromChild).kind = "SERVER"

ReadServer ==
  /\ Asked /\ host.asked < Limit
  /\ fromChild' = Tail(fromChild)
  /\ host' = [host EXCEPT !.at = "lookup", !.asked = @ + 1, !.attempt = 0,
                          !.word = Head(fromChild).word]
  /\ steady' = (server = "up")
  /\ UNCHANGED <<config, dictionaries, link, skkserv, plan, toChild, child,
                 incidents, history>>

(* One exchange too many: FALSE, with the child still waiting.             *)
TooMany ==
  /\ Asked /\ host.asked = Limit
  /\ fromChild' = Tail(fromChild) /\ host' = Idle /\ plan' = <<>>
  /\ UNCHANGED <<config, dictionaries, link, skkserv, toChild, child,
                 incidents, history, steady>>

-----------------------------------------------------------------------------
(* LookupDictionary: the files first, then two attempts at the server.     *)
Twice(line) == <<line, line>>                                     \* mutant
Once(line) == <<line>>

Answer(line) ==
  /\ toChild' = toChild \o Once(line)
  /\ host' = [host EXCEPT !.at = "read"]

Builtin == ready /\ MergeBuiltinCandidates(host.word) # <<>>
ServerFirst ==                                                    \* mutant
  host.at \in {"lookup", "attempt"} /\ enabled /\ host.attempt < 2
Attempt == host.at = "attempt" /\ enabled /\ host.attempt < 2

LookupFile ==
  /\ host.at = "lookup" /\ Builtin
  /\ Answer(Found(host.word, MergeBuiltinCandidates(host.word)))
  /\ UNCHANGED <<config, dictionaries, link, skkserv, plan, fromChild, child,
                 incidents, history, steady>>

(* The files are asked once; maps published later are the next lookup's.   *)
NotBuiltin ==
  /\ host.at = "lookup" /\ ~Builtin
  /\ host' = [host EXCEPT !.at = "attempt"]
  /\ UNCHANGED <<config, dictionaries, link, skkserv, plan, pipes, child,
                 incidents, history, steady>>

GiveUp ==
  /\ host.at = "attempt" /\ (~enabled \/ host.attempt = 2)
  /\ Answer(NotFound)
  /\ UNCHANGED <<config, dictionaries, link, skkserv, plan, fromChild, child,
                 incidents, history, steady>>

RetriesForever == host' = [host EXCEPT !.at = "attempt"]           \* mutant
OnlyOneAttempt == host' = [host EXCEPT !.at = "attempt", !.attempt = 2] \* mutant
NextAttempt == host' = [host EXCEPT !.at = "attempt", !.attempt = @ + 1]

Connect ==
  /\ Attempt /\ socket = "none" /\ server = "up"
  /\ socket' = "open" /\ wire' = <<>> /\ replies' = <<>>
  /\ UNCHANGED <<config, dictionaries, skkserv, host, plan, pipes, child,
                 incidents, history, steady>>

ConnectFails ==
  /\ Attempt /\ socket = "none" /\ server # "up"
  /\ TrySpawnSkkServ /\ NextAttempt
  /\ UNCHANGED <<config, dictionaries, link, plan, pipes, child, incidents,
                 history, steady>>

Send ==
  /\ Attempt /\ socket # "none"
  /\ wire' = Append(wire, host.word)
  /\ host' = [host EXCEPT !.at = "recv"]
  /\ UNCHANGED <<config, dictionaries, socket, replies, skkserv, plan, pipes,
                 child, incidents, history, steady>>

(* SendAndReceive drops what it has received behind the first line.        *)
Receive ==
  /\ host.at = "recv" /\ replies # <<>>
  /\ Answer(Head(replies))
  /\ \E rest \in {Tail(replies), <<>>} : replies' = rest
  /\ UNCHANGED <<config, dictionaries, socket, wire, skkserv, plan, fromChild,
                 child, incidents, history, steady>>

ReceiveFails ==
  /\ host.at = "recv"
  /\ \/ socket = "broken" /\ UNCHANGED <<incidents, steady>>
     \/ /\ socket = "open" /\ incidents < MaxIncidents        \* a slow reply
        /\ incidents' = incidents + 1 /\ steady' = FALSE
  /\ CloseDictionarySocket /\ NextAttempt
  /\ UNCHANGED <<config, dictionaries, skkserv, plan, pipes, child, history>>

-----------------------------------------------------------------------------
(* The environment: skkserv and the clock.                                 *)
ServerAnswers ==
  /\ server = "up" /\ socket = "open" /\ wire # <<>>
  /\ wire' = Tail(wire)
  /\ replies' = Append(replies, IF Head(wire) \in Known
                                THEN Found(Head(wire), External) ELSE NotFound)
  /\ UNCHANGED <<config, dictionaries, socket, skkserv, host, plan, pipes,
                 child, incidents, history, steady>>

ServerStops ==
  /\ server # "down" /\ incidents < MaxIncidents
  /\ server' = "down" /\ incidents' = incidents + 1 /\ steady' = FALSE
  /\ socket' = IF socket = "open" THEN "broken" ELSE socket
  /\ UNCHANGED <<config, dictionaries, wire, replies, cooldown, host, plan,
                 pipes, child, history>>

(* Started by the host or, an incident, by the user.                       *)
ServerStarts ==
  /\ \/ server = "starting" /\ UNCHANGED incidents
     \/ /\ server = "down" /\ incidents < MaxIncidents
        /\ incidents' = incidents + 1
  /\ server' = "up"
  /\ UNCHANGED <<config, dictionaries, link, cooldown, host, plan, pipes,
                 child, history, steady>>

CooldownEnds ==
  /\ cooldown /\ cooldown' = FALSE
  /\ UNCHANGED <<config, dictionaries, link, server, host, plan, pipes, child,
                 incidents, history, steady>>

-----------------------------------------------------------------------------
(* The child (engine/ddskk-engine.el): one line in, one line out, and      *)
(* SERVER lines in between.  shown counts the candidate on display.        *)
ReadRequest ==
  /\ child.at = "stdin" /\ toChild # <<>>
  /\ toChild' = Tail(toChild)
  /\ LET line == Head(toChild) IN
       IF line.kind = "request"
       THEN child' = [child EXCEPT !.at = line.verb, !.id = line.id, !.asks = 0]
       ELSE child' = [child EXCEPT !.at = "ERR", !.id = 0]
  /\ UNCHANGED <<config, dictionaries, link, skkserv, host, plan, fromChild,
                 incidents, history, steady>>

Ask ==
  /\ child.at \in {"KEY", "CONVERT"} /\ child.word = NoWord
  /\ child.asks < MaxAsks
  /\ \E w \in Word :
       /\ fromChild' = Append(fromChild, [kind |-> "SERVER", word |-> w])
       /\ child' = [child EXCEPT !.asks = @ + 1, !.word = w]
  /\ UNCHANGED <<config, dictionaries, link, skkserv, host, plan, toChild,
                 incidents, history, steady>>

(* ddskk-engine--server-request takes whatever line comes next.            *)
TakeReply ==
  /\ child.word # NoWord /\ toChild # <<>>
  /\ toChild' = Tail(toChild)
  /\ child' = [child EXCEPT !.word = NoWord]
  /\ swallowed' = IF Head(toChild).kind = "request"
                  THEN swallowed \cup {Head(toChild).id} ELSE swallowed
  /\ UNCHANGED <<config, dictionaries, link, skkserv, host, plan, fromChild,
                 incidents, requests, steady>>

(* A key may convert by itself (okuri-ari); CONVERT shows the next one.    *)
Shows(verb) ==
  CASE verb = "RESET" -> {0}
    [] verb = "KEY" -> {0, 1}
    [] verb = "CONVERT" -> {IF child.shown = 0 THEN 1 ELSE 2}
    [] OTHER -> {child.shown}

AnswerRequest ==
  /\ child.at # "stdin" /\ child.word = NoWord
  /\ \E shown \in Shows(child.at) :
       /\ child' = [Waiting EXCEPT !.shown = shown]
       /\ fromChild' = Append(fromChild, [kind |-> "answer", id |-> child.id,
                                          shown |-> shown])
  /\ UNCHANGED <<config, dictionaries, link, skkserv, host, plan, toChild,
                 incidents, history, steady>>

-----------------------------------------------------------------------------
Loader == LoadFile \/ Publish
Relay ==
  \/ Probe \/ NextOfPlan \/ ReadAnswer \/ ReadServer \/ TooMany
  \/ LookupFile \/ NotBuiltin \/ GiveUp \/ Connect \/ ConnectFails \/ Send
  \/ Receive \/ ReceiveFails
Skkserv == ServerAnswers \/ ServerStops \/ ServerStarts \/ CooldownEnds
Child == ReadRequest \/ Ask \/ TakeReply \/ AnswerRequest

Next == Dispatch \/ Loader \/ Relay \/ Skkserv \/ Child

(* Workers ask when they like; every recv has a time limit or an answer.   *)
Fairness ==
  WF_vars(Loader) /\ WF_vars(Relay) /\ WF_vars(Child) /\ WF_vars(ServerAnswers)

Spec == Init /\ [][Next]_vars /\ Fairness

-----------------------------------------------------------------------------
(* Properties.                                                             *)

Phase == {"probe", "idle", "read", "lookup", "attempt", "recv"}

(* The host is in one place, publishes all its maps or none, and has a     *)
(* connection only where a lookup can use it.                              *)
TypeOK ==
  /\ host.at \in Phase
  /\ host.asked <= Limit /\ host.attempt <= 2
  /\ Len(maps) = (IF ready THEN Len(Files) ELSE 0)
  /\ socket \in {"none", "open", "broken"} /\ (socket = "open" => server = "up")
  /\ Len(toChild) <= 1 /\ Len(fromChild) <= 1
  /\ Len(wire) + Len(replies) <= 1
  /\ child.shown \in 0..2 /\ swallowed \subseteq 1..requests

(* The answer the child gets is about the word it asked for: the reply to  *)
(* a lookup that timed out never answers a later one.                      *)
LookupAnswersItsWord ==
  (/\ child.word # NoWord /\ toChild # <<>>
   /\ Head(toChild).kind = "reply") => Head(toChild).word \in {child.word, NoWord}

(* Dispatch hands a request the child's answer to that request, except     *)
(* after an exchange too many, and then only to the one request that the   *)
(* child took for the answer it was waiting for.                           *)
AnswerIsForItsRequest ==
  host.at = "read" /\ fromChild # <<>> /\ Head(fromChild).kind = "answer"
    => Head(fromChild).id = host.id \/ host.id \in swallowed

(* A lookup that begins with the server up and meets no slow reply finds   *)
(* what the server has, although the connection may be from before the     *)
(* server was restarted.                                                   *)
RestartedServerIsUsed ==
  [][(/\ host.at \in {"lookup", "attempt", "recv"} /\ host'.at = "read"
      /\ steady /\ enabled /\ host.word \in Known)
       => Last(toChild').found # <<>>]_vars

(* DispatchConvertKeys shows the first candidate: it never sends CONVERT   *)
(* to a child whose last key has already converted.                        *)
BarrierShowsFirst ==
  [][(/\ plan = <<"CONVERT">> /\ plan' = <<>> /\ requests' # requests
      /\ swallowed = {}) => child.shown = 0]_vars

(* The mutex is given up: every Dispatch ends, whatever the server does.   *)
DispatchEnds == host.at # "idle" ~> host.at = "idle"

(* The merged list has each text that stands outside brackets in some      *)
(* file once, with its first annotation, and the texts in the order in     *)
(* which they are first seen: file by file, in priority order.             *)
PlainAt(entry) ==
  {i \in DOMAIN entry :
     ~\E j \in 1..i : entry[j] = Open /\ \A k \in (j + 1)..(i - 1) :
                                                 entry[k] # Close}
Places(entries) ==
  UNION {{i} \X PlainAt(entries[i]) : i \in DOMAIN entries}
Before(p, q) == p[1] < q[1] \/ (p[1] = q[1] /\ p[2] < q[2])
IsUnion(list, entries) ==
  LET at(p) == entries[p[1]][p[2]]
  IN \E from \in [1..Len(list) -> Places(entries)] :
       /\ \A n \in 1..Len(list) : list[n] = at(from[n])
       /\ \A n, m \in 1..Len(list) : n < m => /\ list[n].text # list[m].text
                                             /\ Before(from[n], from[m])
       /\ \A p \in Places(entries) : \E n \in 1..Len(list) :
            list[n].text = at(p).text /\ ~Before(p, from[n])

Samples == [text : {"a", "b"}, note : {"", "note"}] \cup {Open, Close}
Entries == UNION {[1..n -> Samples] : n \in 0..3}
MergesAreUnions ==
  \A e \in Entries, f \in {g \in Entries : Len(g) <= 2} :
    IsUnion(MergeAll(<<e, f>>), <<e, f>>)
MergeIsUnion ==
  ready => /\ MergesAreUnions
           /\ \A w \in Word : IsUnion(MergeBuiltinCandidates(w), EntriesFor(w))
=============================================================================
