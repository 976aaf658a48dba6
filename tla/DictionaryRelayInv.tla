------------------------- MODULE DictionaryRelayInv -------------------------
(***************************************************************************)
(* The inductive invariant of DictionaryRelay: whose turn it is between    *)
(* Dispatch, the child and the server, and what each has in hand then.     *)
(* MCDictionaryRelay checks it on an instance, DictionaryRelay_proofs      *)
(* proves it for every dictionary, word and limit.                         *)
(***************************************************************************)
EXTENDS DictionaryRelay

Single(pipe) == pipe # <<>> /\ pipe = <<Head(pipe)>>

(* The child reads its stdin, works on a request, or waits for the answer  *)
(* to a word it has asked for.                                             *)
Resting == child.at = "stdin" /\ child.word = NoWord
Working == child.at \in Verbs /\ child.word = NoWord
Asking == child.at \in {"KEY", "CONVERT"} /\ child.word \in Word

(* What the child works on is the request Dispatch waits for, unless the   *)
(* child took that request for a dictionary's answer.                      *)
SameRequest(id) == id = host.id \/ host.id \in swallowed

(* Nobody is in a Dispatch: the pipes are empty, and a child that still    *)
(* waits is one that was left by TooMany.                                  *)
AtRest ==
  host.at \in {"probe", "idle"} =>
    toChild = <<>> /\ fromChild = <<>> /\ (Resting \/ (Asking /\ plan = <<>>))

(* Dispatch reads the child's stdout: the one line in flight is the        *)
(* request, a dictionary's answer, the child's question or its answer, or  *)
(* the child is at work.  A child that waits while a request is on its way *)
(* works on an older one.                                                  *)
RequestInFlight ==
  /\ Single(toChild) /\ fromChild = <<>>
  /\ Resting \/ (Asking /\ child.id # host.id)
  /\ host.id \notin swallowed
  /\ Head(toChild) \in [kind : {"request"}, id : {host.id}, verb : Verbs]
ReplyInFlight ==
  /\ Single(toChild) /\ fromChild = <<>> /\ Asking /\ SameRequest(child.id)
  /\ Head(toChild).kind = "reply"
  /\ Head(toChild).word \in {child.word, NoWord}
AtWork == toChild = <<>> /\ fromChild = <<>> /\ Working /\ SameRequest(child.id)
QuestionInFlight ==
  /\ toChild = <<>> /\ Single(fromChild) /\ Asking /\ SameRequest(child.id)
  /\ Head(fromChild) = [kind |-> "SERVER", word |-> child.word]
AnswerInFlight ==
  /\ toChild = <<>> /\ Single(fromChild) /\ Resting
  /\ Head(fromChild) = [kind |-> "answer", id |-> Head(fromChild).id,
                        shown |-> child.shown]
  /\ SameRequest(Head(fromChild).id) /\ Head(fromChild).id # 0
Reading ==
  host.at = "read" =>
    \/ RequestInFlight \/ ReplyInFlight \/ AtWork \/ QuestionInFlight
    \/ AnswerInFlight

(* Dispatch looks a word up: it is the one the child asked for.            *)
LookingUp ==
  host.at \in {"lookup", "attempt", "recv"} =>
    /\ toChild = <<>> /\ fromChild = <<>> /\ Asking /\ SameRequest(child.id)
    /\ host.word = child.word

(* Nothing stays on the connection behind the lookup that sent it: while   *)
(* Dispatch waits, its word or the answer to its word is on the way.       *)
Connection ==
  /\ host.at # "recv" => wire = <<>> /\ replies = <<>>
  /\ host.at = "recv" =>
       /\ socket # "none" /\ host.attempt < 2
       /\ \/ wire = <<host.word>> /\ replies = <<>>
          \/ /\ wire = <<>>
             /\ replies = <<IF host.word \in Known THEN Found(host.word, External)
                            ELSE NotFound>>

(* With the server up and quick, the second attempt is on a connection to  *)
(* the server that runs now.                                               *)
SecondAttempt ==
  /\ steady => server = "up"
  /\ steady /\ host.at \in {"lookup", "attempt", "recv"} =>
       host.attempt = 0 \/ (host.attempt = 1 /\ socket # "broken")

(* What is left of a DispatchConvertKeys; between its requests no          *)
(* candidate is on display when CONVERT comes next.                        *)
Barrier ==
  /\ plan \in {<<>>, <<"KEY", "CONVERT">>, <<"CONVERT">>}
  /\ host.at \in {"probe", "idle"} /\ plan = <<"CONVERT">> => child.shown = 0

(* The records, and requests numbered from 1.                              *)
HostRecord == [at : Phase, id : Nat, asked : Nat, word : Word \cup {NoWord},
               attempt : Nat]
ChildRecord == [at : Verbs \cup {"stdin"}, id : Nat, word : Word \cup {NoWord},
                asks : Nat, shown : Nat]
Records ==
  /\ host \in HostRecord /\ child \in ChildRecord /\ requests \in Nat
  /\ host.id <= requests
  /\ host.at \in {"read", "lookup", "attempt", "recv"} => host.id # 0
  /\ child.at # "stdin" => child.id \in 1..requests

(* The loader's map of a file is the file or empty, and what is published  *)
(* is one map for each file.                                               *)
Loading ==
  /\ loaded \in Seq({Files[i] : i \in DOMAIN Files} \cup {NoEntries})
  /\ Len(loaded) <= Len(Files)
  /\ \A i \in 1..Len(loaded) : loaded[i] \in {Files[i], NoEntries}
  /\ maps = (IF ready THEN loaded ELSE <<>>)

IInv ==
  /\ TypeOK /\ Records /\ Loading /\ AtRest /\ Reading /\ LookingUp
  /\ Connection /\ SecondAttempt /\ Barrier

-----------------------------------------------------------------------------
(* What WordLookup promises: the file's answers are those of the readable  *)
(* files together, whatever thread has loaded them.                        *)
FromReadable(files) ==
  [w \in Word |-> MergeAll([i \in DOMAIN Files |->
     IF i \in files /\ w \in DOMAIN Files[i] THEN Files[i][w] ELSE <<>>])]

Readable == {FromReadable(files) : files \in SUBSET DOMAIN Files}

Lists == [w \in Word |-> IF ready THEN MergeBuiltinCandidates(w) ELSE <<>>]
Job == IF host.at \in {"read", "lookup", "attempt", "recv"} THEN host.id ELSE 0
Work == IF child.at = "stdin" THEN 0 ELSE child.id
Passed == host.at \in {"attempt", "recv"}
Reply ==
  IF toChild # <<>> /\ Head(toChild).kind = "reply"
  THEN {[word |-> Head(toChild).word, found |-> Head(toChild).found]} ELSE {}
Answered ==
  IF fromChild # <<>> /\ Head(fromChild).kind = "answer"
  THEN Head(fromChild).id ELSE 0

Lookup == INSTANCE WordLookup WITH
  Unions <- Readable,
  Served <- External, lists <- Lists, last <- requests, job <- Job,
  work <- Work, word <- child.word, passed <- Passed, reply <- Reply,
  answer <- Answered, missed <- swallowed

(* Pipes, threads and a server that comes and goes amount to questions     *)
(* that are answered in one step, each in its request (Dispatch,           *)
(* LookupDictionary, LoadBuiltinDictionariesThread and the child's         *)
(* ddskk-engine--server-request).                                          *)
QuestionsAreAnswered == Lookup!Spec
=============================================================================
