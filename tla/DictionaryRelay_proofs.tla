----------------------- MODULE DictionaryRelay_proofs -----------------------
(***************************************************************************)
(* Proofs about DictionaryRelay, for every number of dictionary files, of  *)
(* words and of questions a request may ask, and for a server that stops,  *)
(* starts and is slow as often as it likes.                                *)
(***************************************************************************)
EXTENDS DictionaryRelayInv, SequenceTheorems, SetInduction, TLAPS

LEMMA Constants ==
  /\ Known \subseteq Word /\ NoWord \notin Word
  /\ Len(Files) \in Nat /\ DOMAIN Files = 1..Len(Files)
  /\ Limit \in Nat /\ Limit > 0
BY RelayAssumption DEF RelayAssumption

LEMMA InvInit == Init => IInv
BY Constants DEF Init, IInv, TypeOK, Records, Loading, HostRecord, ChildRecord, AtRest,
   Reading, LookingUp, Connection, SecondAttempt, Barrier, Idle, Waiting,
   Resting, Phase

(* What the model's records keep of their shape when a field changes.      *)
LEMMA HostUpdates ==
  ASSUME NEW h \in HostRecord
  PROVE  /\ \A p \in Phase : [h EXCEPT !.at = p] \in HostRecord
         /\ \A n \in Nat : /\ [h EXCEPT !.id = n] \in HostRecord
                           /\ [h EXCEPT !.asked = n] \in HostRecord
                           /\ [h EXCEPT !.attempt = n] \in HostRecord
         /\ \A w \in Word : [h EXCEPT !.word = w] \in HostRecord
BY DEF HostRecord

LEMMA ChildUpdates ==
  ASSUME NEW c \in ChildRecord
  PROVE  /\ \A p \in Verbs : [c EXCEPT !.at = p] \in ChildRecord
         /\ \A n \in Nat : /\ [c EXCEPT !.id = n] \in ChildRecord
                           /\ [c EXCEPT !.asks = n] \in ChildRecord
                           /\ [c EXCEPT !.shown = n] \in ChildRecord
         /\ \A w \in Word \cup {NoWord} : [c EXCEPT !.word = w] \in ChildRecord
BY DEF ChildRecord

LEMMA Blank ==
  /\ Idle \in HostRecord /\ Waiting \in ChildRecord
  /\ Idle.asked = 0 /\ Idle.attempt = 0 /\ Idle.id = 0 /\ Idle.at = "idle"
BY DEF Idle, Waiting, HostRecord, ChildRecord, Phase

LEMMA OneLine ==
  ASSUME NEW x
  PROVE  /\ Append(<<>>, x) = <<x>> /\ <<>> \o <<x>> = <<x>>
         /\ <<x>> # <<>> /\ Head(<<x>>) = x /\ Tail(<<x>>) = <<>>
         /\ Len(<<x>>) = 1
OBVIOUS

LEMMA WriteLineStarts ==
  ASSUME NEW verb, WriteLine(verb)
  PROVE  /\ host'.at = "read" /\ host'.id = requests + 1 /\ host'.asked = 0
         /\ host'.attempt = 0 /\ requests' = requests + 1
BY DEF WriteLine, Idle

LEMMA ReadServerStarts ==
  ASSUME host \in HostRecord, ReadServer
  PROVE  /\ host'.at = "lookup" /\ host'.attempt = 0 /\ host'.id = host.id
         /\ host'.word = Head(fromChild).word /\ host'.asked = host.asked + 1
BY DEF ReadServer, HostRecord

(* What a request may leave on display.                                    *)
LEMMA ShowsFew ==
  ASSUME child.at \in Verbs, child.shown \in 0..2
  PROVE  \A shown \in Shows(child.at) : shown \in 0..2
<1>1. CASE child.at = "RESET"
  BY <1>1 DEF Shows
<1>2. CASE child.at = "KEY"
  BY <1>2 DEF Shows
<1>3. CASE child.at = "CONVERT"
  BY <1>3 DEF Shows
<1> QED BY <1>1, <1>2, <1>3 DEF Verbs

-----------------------------------------------------------------------------
(* The host's record, one step per way Dispatch moves on.                  *)
LEMMA HostNext ==
  ASSUME IInv, [Next]_vars
  PROVE  /\ host' \in HostRecord /\ requests' \in Nat /\ host'.id <= requests'
         /\ host'.at \in {"read", "lookup", "attempt", "recv"} => host'.id # 0
         /\ host'.asked <= Limit /\ host'.attempt <= 2
<1> USE Constants DEF IInv, TypeOK, Records, history
<1>1. ASSUME NEW verb, WriteLine(verb)
      PROVE  host' \in HostRecord /\ requests' = requests + 1
  <2>1. \A n \in Nat : [Idle EXCEPT !.at = "read", !.id = n] \in HostRecord
    BY HostUpdates, Blank, Zenon DEF Phase
  <2>2. requests + 1 \in Nat /\ host' = [Idle EXCEPT !.at = "read", !.id = requests + 1]
    BY <1>1 DEF WriteLine
  <2>3. host' \in HostRecord
    BY <2>1, <2>2, Zenon
  <2> QED BY <1>1, <2>3 DEF WriteLine
<1>2. CASE Dispatch \/ NextOfPlan
  <2>1. PICK verb : WriteLine(verb)
    BY <1>2 DEF Dispatch, NextOfPlan
  <2> QED BY <1>1, <2>1, WriteLineStarts
<1>3. CASE Probe \/ ReadAnswer \/ TooMany
  BY <1>3, Blank DEF Probe, ReadAnswer, TooMany
<1>4. CASE ReadServer
  <2>1. Head(fromChild).word \in Word
    BY <1>4 DEF ReadServer, Asked, Reading, RequestInFlight, ReplyInFlight,
       AtWork, QuestionInFlight, AnswerInFlight, Asking
  <2>2. \A n \in Nat, w \in Word :
          [host EXCEPT !.at = "lookup", !.asked = n, !.attempt = 0, !.word = w]
            \in HostRecord
    BY HostUpdates, Zenon DEF Phase
  <2>3. host.asked + 1 \in Nat /\ host.asked < Limit
    BY <1>4 DEF ReadServer, HostRecord
  <2>4. host' \in HostRecord
    BY <1>4, <2>1, <2>2, <2>3, Zenon DEF ReadServer
  <2> QED BY <1>4, <2>3, <2>4 DEF ReadServer, Asked, HostRecord
<1>5. CASE LookupFile \/ GiveUp \/ Receive
  BY <1>5 DEF LookupFile, GiveUp, Receive, Answer, HostRecord, Phase
<1>6. CASE Connect \/ Send \/ NotBuiltin
  <2>1. /\ [host EXCEPT !.at = "recv"] \in HostRecord
        /\ [host EXCEPT !.at = "attempt"] \in HostRecord
    BY HostUpdates DEF Phase
  <2> QED BY <1>6, <2>1 DEF Connect, Send, NotBuiltin, Attempt, HostRecord
<1>7. CASE ConnectFails \/ ReceiveFails
  <2>1. host.at \in {"lookup", "attempt", "recv"} /\ NextAttempt
    BY <1>7 DEF ConnectFails, ReceiveFails, Attempt
  <2>2. \A n \in Nat : [host EXCEPT !.at = "attempt", !.attempt = n] \in HostRecord
    BY HostUpdates, Zenon DEF Phase
  <2>3. host.attempt < 2 /\ host.attempt + 1 \in Nat
    BY <1>7 DEF ConnectFails, ReceiveFails, Attempt, Connection, HostRecord
  <2>4. host' \in HostRecord
    BY <2>1, <2>2, <2>3, Zenon DEF NextAttempt
  <2>5. requests' = requests
    BY <1>7 DEF ConnectFails, ReceiveFails
  <2> QED BY <2>1, <2>3, <2>4, <2>5 DEF NextAttempt, HostRecord
<1>8. CASE Loader \/ Skkserv
  BY <1>8 DEF Loader, LoadFile, Publish, Skkserv, ServerAnswers, ServerStops,
     ServerStarts, CooldownEnds
<1>9. CASE Child
  BY <1>9 DEF Child, ReadRequest, Ask, TakeReply, AnswerRequest
<1>10. CASE UNCHANGED vars
  BY <1>10 DEF vars
<1> QED
  BY <1>2, <1>3, <1>4, <1>5, <1>6, <1>7, <1>8, <1>9, <1>10 DEF Next, Relay

-----------------------------------------------------------------------------
(* The turn: at each phase of Dispatch one party has it, and what it has   *)
(* in hand belongs to the request Dispatch waits for.                      *)
Turn == AtRest /\ Reading /\ LookingUp

LEMMA TurnNext ==
  ASSUME IInv, [Next]_vars  PROVE Turn'
<1> USE Constants, OneLine DEF IInv, Records, history, pipes, Turn
<1>1. CASE Dispatch \/ NextOfPlan
  <2>1. PICK verb \in Verbs : WriteLine(verb)
    BY <1>1 DEF Dispatch, NextOfPlan, Barrier, Verbs
  <2>2. /\ host.at = "idle" /\ UNCHANGED <<fromChild, child, swallowed>>
        /\ toChild = <<>> /\ fromChild = <<>> /\ (Resting \/ Asking)
    BY <1>1 DEF Dispatch, NextOfPlan, AtRest
  <2>3. host'.at = "read" /\ host'.id = requests + 1
    BY <2>1, WriteLineStarts
  <2>4. toChild' = <<[kind |-> "request", id |-> requests + 1, verb |-> verb]>>
    BY <2>1, <2>2 DEF WriteLine
  <2>5. host'.id \notin swallowed' /\ (Asking => child'.id # host'.id)
    <3>1. swallowed \subseteq 1..requests /\ requests \in Nat
      BY DEF TypeOK
    <3>2. Asking => child.id \in 1..requests
      BY DEF Asking
    <3> QED BY <2>2, <2>3, <3>1, <3>2
  <2>6. RequestInFlight'
    BY <2>2, <2>3, <2>4, <2>5 DEF RequestInFlight, Single, Resting, Asking
  <2> QED BY <2>3, <2>6 DEF AtRest, Reading, LookingUp
<1>2. CASE Probe
  BY <1>2 DEF Probe, Idle, AtRest, Reading, LookingUp, Resting, Asking
<1>3. CASE ReadAnswer
  <2>1. AnswerInFlight
    BY <1>3 DEF ReadAnswer, Reading, RequestInFlight, ReplyInFlight, AtWork, QuestionInFlight
  <2>2. toChild' = <<>> /\ fromChild' = <<>> /\ Resting'
    BY <1>3, <2>1 DEF ReadAnswer, AnswerInFlight, Single, Resting
  <2> QED BY <1>3, <2>2 DEF ReadAnswer, Idle, AtRest, Reading, LookingUp
<1>4. ASSUME Asked PROVE QuestionInFlight
  BY <1>4 DEF Asked, Reading, RequestInFlight, ReplyInFlight, AtWork, AnswerInFlight
<1>5. CASE ReadServer
  <2>1. QuestionInFlight
    BY <1>4, <1>5 DEF ReadServer
  <2>2. host'.at = "lookup" /\ host'.id = host.id /\ host'.word = Head(fromChild).word
    BY <1>5 DEF ReadServer, HostRecord
  <2>3. UNCHANGED <<toChild, child, swallowed>> /\ fromChild' = Tail(fromChild)
    BY <1>5 DEF ReadServer
  <2>4. toChild' = <<>> /\ fromChild' = <<>>
    BY <2>1, <2>3 DEF QuestionInFlight, Single
  <2>5. Asking' /\ host'.word = child'.word /\ SameRequest(child.id)'
    BY <2>1, <2>2, <2>3 DEF QuestionInFlight, Asking, SameRequest
  <2> QED BY <2>2, <2>4, <2>5 DEF AtRest, Reading, LookingUp
<1>6. CASE TooMany
  <2>1. QuestionInFlight
    BY <1>4, <1>6 DEF TooMany
  <2>2. host'.at = "idle" /\ toChild' = <<>> /\ fromChild' = <<>> /\ Asking' /\ plan' = <<>>
    BY <1>6, <2>1 DEF TooMany, QuestionInFlight, Single, Asking, Idle
  <2> QED BY <2>2 DEF AtRest, Reading, LookingUp
<1>7. ASSUME NEW line, host.at \in {"lookup", "attempt", "recv"}, Answer(line), line.kind = "reply",
             line.word \in {host.word, NoWord}, UNCHANGED <<fromChild, child, swallowed>>
      PROVE  Turn'
  <2>1. host'.at = "read" /\ host'.id = host.id
    BY <1>7 DEF Answer, HostRecord
  <2>2. toChild' = <<line>>
    BY <1>7 DEF Answer, Once, LookingUp
  <2>3. ReplyInFlight'
    BY <1>7, <2>1, <2>2 DEF ReplyInFlight, LookingUp, Single, Asking, SameRequest
  <2> QED BY <2>1, <2>3 DEF AtRest, Reading, LookingUp
<1>8. CASE LookupFile \/ GiveUp
  <2>1. PICK line : Answer(line) /\ line.kind = "reply" /\ line.word \in {host.word, NoWord}
    BY <1>8 DEF LookupFile, GiveUp, Found, NotFound
  <2> QED BY <1>7, <1>8, <2>1 DEF LookupFile, GiveUp
<1>9. CASE Receive
  <2>1. replies = <<IF host.word \in Known THEN Found(host.word, External) ELSE NotFound>>
    BY <1>9 DEF Receive, Connection
  <2>2. Head(replies).kind = "reply" /\ Head(replies).word \in {host.word, NoWord}
    BY <2>1 DEF Found, NotFound
  <2> QED BY <1>7, <1>9, <2>2 DEF Receive
<1>10. CASE NotBuiltin \/ Connect \/ Send \/ ConnectFails \/ ReceiveFails
  <2>1. /\ host.at \in {"lookup", "attempt", "recv"} /\ host'.at \in {"lookup", "attempt", "recv"}
        /\ host'.id = host.id /\ host'.word = host.word
    BY <1>10 DEF NotBuiltin, Connect, Send, ConnectFails, ReceiveFails, NextAttempt, Attempt, HostRecord
  <2>2. UNCHANGED <<toChild, fromChild, child, swallowed>>
    BY <1>10 DEF NotBuiltin, Connect, Send, ConnectFails, ReceiveFails
  <2> QED BY <2>1, <2>2 DEF AtRest, Reading, LookingUp, Asking, SameRequest
<1>11. CASE Loader \/ Skkserv \/ UNCHANGED vars
  <2>1. UNCHANGED <<host, plan, toChild, fromChild, child, swallowed>>
    BY <1>11 DEF Loader, LoadFile, Publish, Skkserv, ServerAnswers, ServerStops,
       ServerStarts, CooldownEnds, vars
  <2> QED BY <2>1 DEF AtRest, Reading, LookingUp, Asking, Resting, Working, SameRequest,
          RequestInFlight, ReplyInFlight, AtWork, QuestionInFlight, AnswerInFlight, Single
<1>12. CASE ReadRequest
  <2>1. host.at = "read" /\ RequestInFlight /\ Resting
    BY <1>12 DEF ReadRequest, AtRest, Reading, LookingUp, ReplyInFlight, AtWork,
       QuestionInFlight, AnswerInFlight, RequestInFlight, Asking, TypeOK, Phase
  <2>2. /\ toChild' = <<>> /\ fromChild' = <<>> /\ UNCHANGED <<host, swallowed>>
        /\ child' = [child EXCEPT !.at = Head(toChild).verb, !.id = Head(toChild).id, !.asks = 0]
        /\ Head(toChild).id = host.id /\ Head(toChild).verb \in Verbs
    BY <1>12, <2>1 DEF ReadRequest, RequestInFlight, Single
  <2>3. child'.at \in Verbs /\ child'.id = host.id /\ child'.word = NoWord
    BY <2>1, <2>2 DEF ChildRecord, Resting
  <2>4. AtWork'
    BY <2>2, <2>3 DEF AtWork, Working, SameRequest
  <2> QED BY <2>1, <2>2, <2>4 DEF AtRest, Reading, LookingUp
<1>13. ASSUME child.at # "stdin", child.word = NoWord
       PROVE  host.at = "read" /\ AtWork
  BY <1>13 DEF AtRest, Reading, LookingUp, RequestInFlight, ReplyInFlight,
     QuestionInFlight, AnswerInFlight, Asking, Resting, TypeOK, Phase
<1>14. CASE Ask
  <2>1. host.at = "read" /\ AtWork /\ UNCHANGED <<host, toChild, swallowed>>
    BY <1>13, <1>14 DEF Ask
  <2>2. PICK w \in Word :
          /\ fromChild' = Append(fromChild, [kind |-> "SERVER", word |-> w])
          /\ child' = [child EXCEPT !.asks = @ + 1, !.word = w]
    BY <1>14 DEF Ask
  <2>3. child'.at = child.at /\ child'.id = child.id /\ child'.word = w
    BY <2>2 DEF ChildRecord
  <2>4. fromChild' = <<[kind |-> "SERVER", word |-> w]>>
    BY <2>1, <2>2 DEF AtWork
  <2>5. QuestionInFlight'
    BY <1>14, <2>1, <2>3, <2>4 DEF Ask, QuestionInFlight, AtWork, Single, Asking, SameRequest
  <2> QED BY <2>1, <2>5 DEF AtRest, Reading, LookingUp
<1>15. CASE TakeReply
  <2>1. host.at = "read" /\ Asking /\ (RequestInFlight \/ ReplyInFlight)
    BY <1>15 DEF TakeReply, AtRest, Reading, LookingUp, RequestInFlight,
       ReplyInFlight, AtWork, QuestionInFlight, AnswerInFlight, Working, Resting, TypeOK, Phase
  <2>2. /\ toChild' = <<>> /\ fromChild' = <<>> /\ host' = host
        /\ child'.at = child.at /\ child'.id = child.id /\ child'.word = NoWord
    BY <1>15, <2>1 DEF TakeReply, RequestInFlight, ReplyInFlight, Single, ChildRecord
  <2>3. SameRequest(child.id)'
    BY <1>15, <2>1, <2>2 DEF TakeReply, RequestInFlight, ReplyInFlight, SameRequest
  <2>4. AtWork'
    BY <2>1, <2>2, <2>3 DEF AtWork, Working, Asking, Verbs
  <2> QED BY <2>1, <2>2, <2>4 DEF AtRest, Reading, LookingUp
<1>16. CASE AnswerRequest
  <2>1. host.at = "read" /\ AtWork /\ UNCHANGED <<host, toChild, swallowed>>
    BY <1>13, <1>16 DEF AnswerRequest
  <2>2. PICK shown \in Shows(child.at) :
          /\ child' = [Waiting EXCEPT !.shown = shown]
          /\ fromChild' = Append(fromChild, [kind |-> "answer", id |-> child.id,
                                             shown |-> shown])
    BY <1>16 DEF AnswerRequest
  <2>3. Resting' /\ child'.shown = shown
    BY <2>2 DEF Waiting, Resting
  <2>4. fromChild' = <<[kind |-> "answer", id |-> child.id, shown |-> shown]>>
    BY <2>1, <2>2 DEF AtWork
  <2>5. child.id # 0
    BY <2>1 DEF AtWork, Working, Verbs
  <2>6. AnswerInFlight'
    BY <2>1, <2>3, <2>4, <2>5 DEF AnswerInFlight, AtWork, Single, SameRequest
  <2> QED BY <2>1, <2>6 DEF AtRest, Reading, LookingUp
<1> QED
  BY <1>1, <1>2, <1>3, <1>5, <1>6, <1>8, <1>9, <1>10, <1>11, <1>12, <1>14,
     <1>15, <1>16 DEF Next, Relay, Child

(* The child's record, and the requests it swallowed.                      *)
LEMMA ChildNext ==
  ASSUME IInv, [Next]_vars
  PROVE  /\ child' \in ChildRecord /\ child'.shown \in 0..2
         /\ child'.at # "stdin" => child'.id \in 1..requests'
<1> USE Constants DEF IInv, Records, TypeOK
<1>1. CASE Dispatch \/ Loader \/ Relay \/ Skkserv \/ UNCHANGED vars
  <2>1. child' = child
    BY <1>1 DEF Dispatch, Loader, LoadFile, Publish, Relay, Probe, NextOfPlan, ReadAnswer,
       ReadServer, TooMany, LookupFile, NotBuiltin, GiveUp, Connect, ConnectFails, Send,
       Receive, ReceiveFails, Skkserv, ServerAnswers, ServerStops, ServerStarts,
       CooldownEnds, vars
  <2>2. requests' \in {requests, requests + 1}
    BY <1>1 DEF Dispatch, WriteLine, Loader, LoadFile, Publish, Relay, Probe, NextOfPlan,
       ReadAnswer, ReadServer, TooMany, LookupFile, NotBuiltin, GiveUp, Connect,
       ConnectFails, Send, Receive, ReceiveFails, Skkserv, ServerAnswers, ServerStops,
       ServerStarts, CooldownEnds, vars, history
  <2> QED BY <2>1, <2>2
<1>2. CASE ReadRequest
  <2>1. RequestInFlight /\ Resting
    BY <1>2 DEF ReadRequest, AtRest, Reading, LookingUp, ReplyInFlight, AtWork,
       QuestionInFlight, AnswerInFlight, RequestInFlight, Asking, Phase
  <2>2. Head(toChild).verb \in Verbs /\ Head(toChild).id \in Nat /\ Head(toChild).kind = "request"
    BY <2>1 DEF RequestInFlight, HostRecord
  <2>3. \A v \in Verbs, n \in Nat : [child EXCEPT !.at = v, !.id = n, !.asks = 0] \in ChildRecord
    BY ChildUpdates, Zenon
  <2>4. child' = [child EXCEPT !.at = Head(toChild).verb, !.id = Head(toChild).id, !.asks = 0]
    BY <1>2, <2>2 DEF ReadRequest
  <2>5. child' \in ChildRecord
    BY <2>2, <2>3, <2>4, Zenon
  <2>6. child'.shown = child.shown /\ child'.id = host.id /\ requests' = requests
    BY <1>2, <2>1, <2>4 DEF ReadRequest, history, RequestInFlight, ChildRecord
  <2>7. host.id \in 1..requests
    BY <1>2, <2>1 DEF HostRecord, Reading, AtRest, LookingUp, RequestInFlight, Single, Phase
  <2> QED BY <2>5, <2>6, <2>7
<1>3. CASE Ask
  <2>1. PICK w \in Word : child' = [child EXCEPT !.asks = @ + 1, !.word = w]
    BY <1>3 DEF Ask
  <2>2. child.asks + 1 \in Nat
    BY DEF ChildRecord
  <2>3. \A n \in Nat : [child EXCEPT !.asks = n, !.word = w] \in ChildRecord
    BY ChildUpdates, Zenon
  <2>4. child' \in ChildRecord
    BY <2>1, <2>2, <2>3, Zenon
  <2>5. /\ child'.shown = child.shown /\ child'.id = child.id
        /\ child'.at = child.at /\ requests' = requests
    BY <1>3, <2>1 DEF Ask, history, ChildRecord
  <2> QED BY <2>4, <2>5
<1>4. CASE TakeReply
  BY <1>4 DEF TakeReply, ChildRecord
<1>5. CASE AnswerRequest
  <2>1. child.at \in Verbs
    BY <1>5 DEF AnswerRequest, ChildRecord
  <2>2. PICK shown \in 0..2 : child' = [Waiting EXCEPT !.shown = shown]
    BY <1>5, <2>1, ShowsFew DEF AnswerRequest
  <2>3. child' \in ChildRecord
    BY <2>2 DEF Waiting, ChildRecord
  <2> QED BY <2>2, <2>3 DEF Waiting
<1> QED BY <1>1, <1>2, <1>3, <1>4, <1>5 DEF Next, Child

(* The loader publishes its maps, one for each file.                       *)
LEMMA LoaderNext ==
  ASSUME IInv, [Next]_vars
  PROVE  Loading' /\ Len(maps') = (IF ready' THEN Len(Files) ELSE 0)
<1> USE Constants DEF IInv, TypeOK, Loading, dictionaries
<1>1. CASE LoadFile
  <2> DEFINE Map == {Files[i] : i \in DOMAIN Files} \cup {NoEntries}
  <2>1. PICK map \in {Files[Len(loaded) + 1], NoEntries} : loaded' = Append(loaded, map)
    BY <1>1 DEF LoadFile
  <2>2. Len(loaded) \in Nat /\ Len(loaded) < Len(Files)
    BY <1>1 DEF LoadFile
  <2>3. map \in Map
    BY <2>2
  <2>4. UNCHANGED <<ready, maps>> /\ ~ready
    BY <1>1 DEF LoadFile
  <2> HIDE DEF Map
  <2>5. loaded \in Seq(Map)
    BY DEF Map
  <2>6. loaded' \in Seq(Map) /\ Len(loaded') = Len(loaded) + 1
    BY <2>1, <2>3, <2>5
  <2>7. \A i \in 1..Len(loaded') : loaded'[i] \in {Files[i], NoEntries}
    <3> SUFFICES ASSUME NEW i \in 1..Len(loaded')
                 PROVE  loaded'[i] \in {Files[i], NoEntries}
      OBVIOUS
    <3>1. CASE i \in 1..Len(loaded)
      BY <2>1, <2>3, <2>5, <3>1
    <3>2. CASE i = Len(loaded) + 1
      BY <2>1, <2>3, <2>5, <3>2
    <3> QED BY <2>2, <2>6, <3>1, <3>2
  <2> QED BY <2>2, <2>4, <2>6, <2>7 DEF Map
<1>2. CASE Publish
  BY <1>2 DEF Publish, AllLoaded
<1>3. CASE Dispatch \/ Relay \/ Skkserv \/ Child \/ UNCHANGED vars
  <2>1. UNCHANGED <<loaded, ready, maps>>
    BY <1>3 DEF Dispatch, Relay, Probe, NextOfPlan, ReadAnswer,
       ReadServer, TooMany, LookupFile, NotBuiltin, GiveUp, Connect, ConnectFails, Send,
       Receive, ReceiveFails, Skkserv, ServerAnswers, ServerStops, ServerStarts,
       CooldownEnds, Child, ReadRequest, Ask, TakeReply, AnswerRequest, vars
  <2> QED BY <2>1
<1> QED BY <1>1, <1>2, <1>3 DEF Next, Loader

(* The connection carries nothing but the lookup in progress.              *)
LEMMA ConnectionNext ==
  ASSUME IInv, [Next]_vars
  PROVE  /\ Connection' /\ socket' \in {"none", "open", "broken"}
         /\ socket' = "open" => server' = "up"
<1> USE Constants, OneLine DEF IInv, Records, TypeOK, Connection, link, skkserv
<1>1. CASE Dispatch \/ NextOfPlan \/ ReadAnswer \/ ReadServer \/ TooMany
  <2>1. host.at \notin {"lookup", "attempt", "recv"}
    BY <1>1 DEF Dispatch, NextOfPlan, ReadAnswer, ReadServer, TooMany, Asked
  <2>2. host'.at \in {"idle", "read"} \/ (host'.at = "lookup" /\ host'.attempt = 0)
    BY <1>1, WriteLineStarts, ReadServerStarts
       DEF Dispatch, NextOfPlan, ReadAnswer, TooMany, Idle
  <2>3. UNCHANGED <<link, skkserv>>
    BY <1>1 DEF Dispatch, NextOfPlan, ReadAnswer, ReadServer, TooMany
  <2> QED BY <2>1, <2>2, <2>3
<1>2. CASE Probe
  BY <1>2 DEF Probe, TrySpawnSkkServ, Idle
<1>3. CASE LookupFile \/ GiveUp
  BY <1>3 DEF LookupFile, GiveUp, Answer, HostRecord
<1>4. CASE Connect \/ NotBuiltin
  BY <1>4 DEF Connect, NotBuiltin, Attempt, HostRecord
<1>5. CASE ConnectFails
  BY <1>5 DEF ConnectFails, Attempt, TrySpawnSkkServ, NextAttempt, HostRecord
<1>6. CASE Send
  BY <1>6 DEF Send, Attempt, HostRecord
<1>7. CASE Receive
  <2>1. wire' = <<>> /\ replies' = <<>>
    BY <1>7 DEF Receive
  <2> QED BY <1>7, <2>1 DEF Receive, Answer, HostRecord
<1>8. CASE ReceiveFails
  BY <1>8 DEF ReceiveFails, CloseDictionarySocket, NextAttempt, HostRecord
<1>9. CASE ServerAnswers
  BY <1>9 DEF ServerAnswers
<1>10. CASE ServerStops \/ ServerStarts \/ CooldownEnds
  BY <1>10 DEF ServerStops, ServerStarts, CooldownEnds
<1>11. CASE Loader \/ Child \/ UNCHANGED vars
  BY <1>11 DEF Loader, LoadFile, Publish, Child, ReadRequest, Ask, TakeReply,
     AnswerRequest, vars
<1> QED
  BY <1>1, <1>2, <1>3, <1>4, <1>5, <1>6, <1>7, <1>8, <1>9, <1>10, <1>11
     DEF Next, Relay, Skkserv

(* With the server up and quick, two attempts are enough.                  *)
LEMMA SecondAttemptNext ==
  ASSUME IInv, [Next]_vars  PROVE SecondAttempt'
<1> USE Constants DEF IInv, Records, TypeOK, SecondAttempt, link, skkserv
<1>1. CASE Dispatch \/ NextOfPlan \/ ReadAnswer \/ ReadServer \/ TooMany
  <2>1. host.at \notin {"lookup", "attempt", "recv"}
    BY <1>1 DEF Dispatch, NextOfPlan, ReadAnswer, ReadServer, TooMany, Asked
  <2>2. host'.at \in {"idle", "read"} \/ (host'.at = "lookup" /\ host'.attempt = 0)
    BY <1>1, WriteLineStarts, ReadServerStarts
       DEF Dispatch, NextOfPlan, ReadAnswer, TooMany, Idle
  <2>3. UNCHANGED <<link, skkserv>>
    BY <1>1 DEF Dispatch, NextOfPlan, ReadAnswer, ReadServer, TooMany
  <2>4. steady' => steady \/ server = "up"
    BY <1>1, Zenon DEF Dispatch, NextOfPlan, ReadAnswer, ReadServer, TooMany
  <2> QED BY <2>1, <2>2, <2>3, <2>4
<1>2. CASE Probe
  BY <1>2 DEF Probe, TrySpawnSkkServ, Idle
<1>3. CASE LookupFile \/ GiveUp \/ Receive
  BY <1>3 DEF LookupFile, GiveUp, Receive, Answer, HostRecord
<1>4. CASE Connect \/ Send \/ NotBuiltin
  BY <1>4 DEF Connect, Send, NotBuiltin, Attempt, HostRecord
<1>5. CASE ConnectFails
  BY <1>5 DEF ConnectFails, Attempt, TrySpawnSkkServ, NextAttempt, HostRecord
<1>6. CASE ReceiveFails
  BY <1>6 DEF ReceiveFails, CloseDictionarySocket, NextAttempt, HostRecord
<1>7. CASE Skkserv
  BY <1>7 DEF Skkserv, ServerAnswers, ServerStops, ServerStarts, CooldownEnds
<1>8. CASE Loader \/ Child \/ UNCHANGED vars
  <2>1. UNCHANGED <<host, link, skkserv, steady>>
    BY <1>8 DEF Loader, LoadFile, Publish, Child, ReadRequest, Ask, TakeReply,
       AnswerRequest, vars
  <2> QED BY <2>1
<1> QED
  BY <1>1, <1>2, <1>3, <1>4, <1>5, <1>6, <1>7, <1>8 DEF Next, Relay

(* Between the requests of a DispatchConvertKeys nothing is on display.    *)
LEMMA BarrierNext ==
  ASSUME IInv, [Next]_vars  PROVE Barrier'
<1> USE Constants DEF IInv, Records, TypeOK, Barrier
<1>1. CASE Dispatch
  BY <1>1 DEF Dispatch, WriteLine, Idle
<1>2. CASE NextOfPlan
  <2>1. host'.at = "read" /\ plan # <<>> /\ plan' = Tail(plan)
    BY <1>2, WriteLineStarts DEF NextOfPlan
  <2>2. Tail(<<"KEY", "CONVERT">>) = <<"CONVERT">> /\ Tail(<<"CONVERT">>) = <<>>
    OBVIOUS
  <2>3. plan' \in {<<"CONVERT">>, <<>>}
    BY <2>1, <2>2, Zenon
  <2> QED BY <2>1, <2>3
<1>3. CASE Probe
  BY <1>3 DEF Probe, AtRest
<1>4. CASE ReadAnswer
  <2>1. Head(fromChild).shown = child.shown
    BY <1>4 DEF ReadAnswer, Reading, RequestInFlight, ReplyInFlight, AtWork,
       QuestionInFlight, AnswerInFlight
  <2>2. child' = child /\ plan' = Left(Head(fromChild))
    BY <1>4 DEF ReadAnswer
  <2>3. child.shown > 0 => plan' # <<"CONVERT">>
    BY <2>1, <2>2 DEF Left
  <2>4. plan' \in {plan, <<>>}
    BY <2>2 DEF Left
  <2> QED BY <2>2, <2>3, <2>4
<1>5. CASE ReadServer \/ TooMany
  <2>1. host'.at = "lookup" \/ plan' = <<>>
    BY <1>5, ReadServerStarts DEF TooMany
  <2>2. plan' \in {plan, <<>>}
    BY <1>5 DEF ReadServer, TooMany
  <2>3. CASE host'.at = "lookup"
    BY <2>2, <2>3
  <2>4. CASE plan' = <<>>
    BY <2>4
  <2> QED BY <2>1, <2>3, <2>4
<1>6. CASE LookupFile \/ GiveUp \/ Receive
  BY <1>6 DEF LookupFile, GiveUp, Receive, Answer, HostRecord
<1>7. CASE NotBuiltin \/ Connect \/ Send \/ ConnectFails \/ ReceiveFails
  BY <1>7 DEF NotBuiltin, Connect, Send, ConnectFails, ReceiveFails, Attempt, NextAttempt, HostRecord
<1>8. CASE Loader \/ Skkserv \/ UNCHANGED vars
  BY <1>8 DEF Loader, LoadFile, Publish, Skkserv, ServerAnswers, ServerStops,
     ServerStarts, CooldownEnds, vars
<1>9. CASE Child
  <2>1. UNCHANGED <<host, plan>>
    BY <1>9 DEF Child, ReadRequest, Ask, TakeReply, AnswerRequest
  <2>2. child'.shown = child.shown \/ host.at = "read"
    BY <1>9 DEF Child, ReadRequest, Ask, TakeReply, AnswerRequest, ChildRecord,
       AtRest, LookingUp, Resting, Asking, Phase
  <2> QED BY <2>1, <2>2
<1> QED BY <1>1, <1>2, <1>3, <1>4, <1>5, <1>6, <1>7,
        <1>8, <1>9 DEF Next, Relay

LEMMA TypeOKNext ==
  ASSUME IInv, [Next]_vars, Turn', Connection'
  PROVE  TypeOK'
<1> USE Constants, OneLine DEF IInv, Records, TypeOK
<1>1. Len(toChild') <= 1 /\ Len(fromChild') <= 1
  <2>1. host'.at \in Phase
    BY HostNext DEF HostRecord
  <2>2. /\ toChild' = <<>> \/ toChild' = <<Head(toChild')>>
        /\ fromChild' = <<>> \/ fromChild' = <<Head(fromChild')>>
    BY <2>1 DEF Turn, AtRest, Reading, LookingUp, RequestInFlight, ReplyInFlight,
       AtWork, QuestionInFlight, AnswerInFlight, Single, Phase
  <2>3. ASSUME NEW pipe, pipe = <<>> \/ \E line : pipe = <<line>> PROVE Len(pipe) <= 1
    <3>1. CASE pipe = <<>>
      BY <3>1
    <3>2. ASSUME NEW line, pipe = <<line>> PROVE Len(pipe) <= 1
      BY <3>2
    <3> QED BY <2>3, <3>1, <3>2
  <2> QED BY <2>2, <2>3, Zenon
<1>2. Len(wire') + Len(replies') <= 1
  <2>1. CASE wire' = <<>> /\ replies' = <<>>
    BY <2>1
  <2>2. CASE wire' = <<host'.word>> /\ replies' = <<>>
    BY <2>2
  <2>3. ASSUME wire' = <<>>, NEW r, replies' = <<r>> PROVE Len(wire') + Len(replies') <= 1
    BY <2>3
  <2> QED BY <2>1, <2>2, <2>3 DEF Connection
<1>3. swallowed' \subseteq 1..requests'
  <2>1. CASE TakeReply
    <3>1. Head(toChild).kind = "request" => Head(toChild).id = host.id /\ host.id # 0
      BY <2>1 DEF TakeReply, AtRest, Reading, LookingUp, RequestInFlight, ReplyInFlight,
         AtWork, QuestionInFlight, AnswerInFlight, Phase
    <3> QED BY <2>1, <3>1 DEF TakeReply, HostRecord
  <2>2. CASE Dispatch \/ NextOfPlan
    <3>1. requests' = requests + 1 /\ swallowed' = swallowed
      BY <2>2 DEF Dispatch, NextOfPlan, WriteLine
    <3> QED BY <3>1
  <2>3. CASE ~TakeReply /\ ~Dispatch /\ ~NextOfPlan
    <3>1. UNCHANGED history
      BY <2>3 DEF Next, Loader, LoadFile, Publish, Relay, Probe, ReadAnswer, ReadServer,
         TooMany, LookupFile, NotBuiltin, GiveUp, Connect, ConnectFails, Send, Receive, ReceiveFails,
         Skkserv, ServerAnswers, ServerStops, ServerStarts, CooldownEnds, Child,
         ReadRequest, Ask, AnswerRequest, vars
    <3> QED BY <3>1 DEF history
  <2> QED BY <2>1, <2>2, <2>3
<1> QED
  BY <1>1, <1>2, <1>3, HostNext, ChildNext, LoaderNext, ConnectionNext
     DEF HostRecord

LEMMA InvNext ==
  ASSUME IInv, [Next]_vars  PROVE IInv'
<1>1. Records'
  BY HostNext, ChildNext, LoaderNext DEF Records
<1> QED
  BY <1>1, TurnNext, LoaderNext, ConnectionNext, SecondAttemptNext, BarrierNext,
     TypeOKNext DEF IInv, Turn

(* Whose turn it is, for every dictionary, word and limit (main.cpp,       *)
(* Dispatch and LookupDictionary; ddskk-engine.el, server-request).        *)
THEOREM TurnInvariant == Spec => []IInv
BY InvInit, InvNext, PTL DEF Spec

(* One line at most in either pipe, one lookup at most on the connection.  *)
THEOREM TypeCorrect == Spec => []TypeOK
BY TurnInvariant, PTL DEF IInv

(* A dictionary's answer is about the word that was asked for, although    *)
(* attempts time out and the server is restarted between them.             *)
THEOREM LookupAnswers == Spec => []LookupAnswersItsWord
<1>1. IInv => LookupAnswersItsWord
  BY DEF IInv, LookupAnswersItsWord, TypeOK, Phase, AtRest, Reading, LookingUp, RequestInFlight,
     ReplyInFlight, AtWork, QuestionInFlight, AnswerInFlight
<1> QED BY <1>1, TurnInvariant, PTL

(* A request gets the answer to itself, or is the one request that the     *)
(* child swallowed.                                                        *)
THEOREM AnswersMatch == Spec => []AnswerIsForItsRequest
<1>1. IInv => AnswerIsForItsRequest
  BY DEF IInv, AnswerIsForItsRequest, Reading, RequestInFlight, SameRequest,
     ReplyInFlight, AtWork, QuestionInFlight, AnswerInFlight
<1> QED BY <1>1, TurnInvariant, PTL

(* CONVERT never follows a key that has converted.                         *)
THEOREM Barriers == Spec => BarrierShowsFirst
<1>1. IInv /\ [Next]_vars =>
        [(/\ plan = <<"CONVERT">> /\ plan' = <<>> /\ requests' # requests
          /\ swallowed = {}) => child.shown = 0]_vars
  <2> SUFFICES ASSUME IInv, [Next]_vars, plan = <<"CONVERT">>,
                      requests' # requests
               PROVE  child.shown = 0
    OBVIOUS
  <2>1. Dispatch \/ NextOfPlan
    BY DEF Next, Loader, LoadFile, Publish, Relay, Probe, ReadAnswer, ReadServer,
       TooMany, LookupFile, NotBuiltin, GiveUp, Connect, ConnectFails, Send, Receive,
       ReceiveFails, Skkserv, ServerAnswers, ServerStops, ServerStarts,
       CooldownEnds, Child, ReadRequest, Ask, TakeReply, AnswerRequest, vars,
       history
  <2> QED BY <2>1 DEF Dispatch, NextOfPlan, IInv, Barrier
<1> QED BY <1>1, TurnInvariant, PTL DEF Spec, BarrierShowsFirst

(* A lookup that begins with the server up and meets no slow reply brings  *)
(* what the server has, through a connection from before a restart or not: *)
(* GiveUp needs a second failure, which a steady server does not cause.    *)
THEOREM RestartUsed == Spec => RestartedServerIsUsed
<1>1. IInv /\ [Next]_vars =>
        [(/\ host.at \in {"lookup", "attempt", "recv"} /\ host'.at = "read"
          /\ steady /\ enabled /\ host.word \in Known)
           => Last(toChild').found # <<>>]_vars
  <2> SUFFICES ASSUME IInv, [Next]_vars, host.at \in {"lookup", "attempt", "recv"},
                      host'.at = "read", steady, enabled, host.word \in Known
               PROVE  Last(toChild').found # <<>>
    OBVIOUS
  <2> USE DEF IInv, Records
  <2>1. ASSUME NEW line, Answer(line) PROVE Last(toChild') = line
    <3>1. toChild' = <<line>>
      BY <2>1, OneLine DEF Answer, Once, LookingUp
    <3> QED BY <3>1, OneLine DEF Last
  <2>2. CASE LookupFile
    BY <2>1, <2>2 DEF LookupFile, Builtin, Found
  <2>3. CASE Receive
    <3>1. replies = <<Found(host.word, External)>>
      BY <2>3 DEF Receive, Connection
    <3>2. Last(toChild') = Found(host.word, External)
      BY <2>1, <2>3, <3>1, OneLine DEF Receive
    <3>3. Last(toChild').found = External
      BY <3>2 DEF Found
    <3> QED BY <3>3, OneLine DEF External
  <2>4. ~GiveUp
    <3>1. host.attempt # 2
      BY DEF SecondAttempt
    <3> QED BY <3>1, Zenon DEF GiveUp
  <2>5. ~(NotBuiltin \/ Connect \/ Send \/ ConnectFails \/ ReceiveFails)
    BY DEF NotBuiltin, Connect, Send, ConnectFails, ReceiveFails, NextAttempt, Attempt, HostRecord
  <2>6. ~(Dispatch \/ NextOfPlan \/ Probe \/ ReadAnswer \/ ReadServer \/ TooMany)
    BY DEF Dispatch, NextOfPlan, Probe, ReadAnswer, ReadServer, TooMany, Asked
  <2>7. ~(Loader \/ Skkserv \/ Child \/ UNCHANGED vars)
    BY DEF Loader, LoadFile, Publish, Skkserv, ServerAnswers, ServerStops,
       ServerStarts, CooldownEnds, Child, ReadRequest, Ask, TakeReply,
       AnswerRequest, vars
  <2> QED BY <2>2, <2>3, <2>4, <2>5, <2>6, <2>7 DEF Next, Relay
<1> QED BY <1>1, TurnInvariant, PTL DEF Spec, RestartedServerIsUsed

-----------------------------------------------------------------------------
(* Merging the files.                                                      *)

UnionOf(list, entries, seen) ==
  LET at(p) == entries[p[1]][p[2]]
  IN \E from \in [1..Len(list) -> seen] :
       /\ \A n \in 1..Len(list) : list[n] = at(from[n])
       /\ \A n, m \in 1..Len(list) : n < m => /\ list[n].text # list[m].text
                                             /\ Before(from[n], from[m])
       /\ \A p \in seen : \E n \in 1..Len(list) :
            list[n].text = at(p).text /\ ~Before(p, from[n])

(* Places are ordered.                                                     *)
LEMMA PlacesOrdered ==
  ASSUME NEW S, NEW entries \in Seq(Seq(S)), NEW p \in Places(entries)
  PROVE  /\ p = <<p[1], p[2]>>
         /\ p[1] \in DOMAIN entries /\ p[1] \in Nat /\ p[2] \in Nat
         /\ p[2] \in 1..Len(entries[p[1]]) /\ p[2] \in PlainAt(entries[p[1]])
         /\ entries[p[1]][p[2]] \in S
<1>1. PICK i \in DOMAIN entries : p \in {i} \X PlainAt(entries[i])
  BY DEF Places
<1>2. entries[i] \in Seq(S) /\ i \in Nat
  OBVIOUS
<1>3. PlainAt(entries[i]) \subseteq 1..Len(entries[i])
  BY <1>2 DEF PlainAt
<1>4. p[1] = i /\ p[2] \in PlainAt(entries[i]) /\ p = <<p[1], p[2]>>
  BY <1>1
<1> QED BY <1>2, <1>3, <1>4

(* A place behind those seen, whose text is listed or not.                 *)
LEMMA PlaceRepeats ==
  ASSUME NEW S, NEW entries \in Seq(Seq(S)), NEW list \in Seq(S),
         NEW seen \in SUBSET Places(entries), NEW p \in Places(entries),
         \A q \in seen : Before(q, p), UnionOf(list, entries, seen),
         \E n \in 1..Len(list) : list[n].text = entries[p[1]][p[2]].text
  PROVE  UnionOf(list, entries, seen \cup {p})
<1> DEFINE at(q) == entries[q[1]][q[2]]
<1>1. PICK from \in [1..Len(list) -> seen] :
       /\ \A n \in 1..Len(list) : list[n] = at(from[n])
       /\ \A n, m \in 1..Len(list) : n < m => /\ list[n].text # list[m].text
                                             /\ Before(from[n], from[m])
       /\ \A q \in seen : \E n \in 1..Len(list) :
            list[n].text = at(q).text /\ ~Before(q, from[n])
  BY DEF UnionOf
<1>2. from \in [1..Len(list) -> seen \cup {p}]
  OBVIOUS
<1>3. ASSUME NEW n \in 1..Len(list) PROVE ~Before(p, from[n])
  <2>1. from[n] \in seen /\ Before(from[n], p)
    OBVIOUS
  <2>2. /\ from[n][1] \in Nat /\ from[n][2] \in Nat
        /\ p[1] \in Nat /\ p[2] \in Nat
    BY <2>1, PlacesOrdered
  <2> QED BY <2>1, <2>2 DEF Before
<1>4. PICK n \in 1..Len(list) : list[n].text = at(p).text
  OBVIOUS
<1>5. \A q \in seen \cup {p} : \E m \in 1..Len(list) :
            list[m].text = at(q).text /\ ~Before(q, from[m])
  <2> TAKE q \in seen \cup {p}
  <2>1. CASE q \in seen
    BY <1>1, <2>1
  <2>2. CASE q = p
    BY <1>3, <1>4, <2>2
  <2> QED BY <2>1, <2>2
<1> QED BY <1>1, <1>2, <1>5 DEF UnionOf

LEMMA PlaceIsNew ==
  ASSUME NEW S, NEW entries \in Seq(Seq(S)), NEW list \in Seq(S),
         NEW seen \in SUBSET Places(entries), NEW p \in Places(entries),
         \A q \in seen : Before(q, p), UnionOf(list, entries, seen),
         \A n \in 1..Len(list) : list[n].text # entries[p[1]][p[2]].text
  PROVE  UnionOf(Append(list, entries[p[1]][p[2]]), entries, seen \cup {p})
<1> DEFINE at(q) == entries[q[1]][q[2]]
           new == Append(list, at(p))
           size == Len(list)
<1>1. PICK from \in [1..Len(list) -> seen] :
       /\ \A n \in 1..Len(list) : list[n] = at(from[n])
       /\ \A n, m \in 1..Len(list) : n < m => /\ list[n].text # list[m].text
                                             /\ Before(from[n], from[m])
       /\ \A q \in seen : \E n \in 1..Len(list) :
            list[n].text = at(q).text /\ ~Before(q, from[n])
  BY DEF UnionOf
<1>2. /\ Len(new) = size + 1 /\ size \in Nat /\ new[size + 1] = at(p)
      /\ \A n \in 1..size : new[n] = list[n]
  BY PlacesOrdered
<1> DEFINE more == [n \in 1..Len(new) |-> IF n <= size THEN from[n] ELSE p]
<1>3. /\ more \in [1..Len(new) -> seen \cup {p}] /\ more[size + 1] = p
      /\ \A n \in 1..size : more[n] = from[n] /\ from[n] \in seen
  <2> HIDE DEF new
  <2>1. \A n \in 1..size : from[n] \in seen
    BY <1>1
  <2>2. DOMAIN more = 1..(size + 1)
    BY <1>2
  <2> QED BY <1>2, <2>1, <2>2
<1>4. \A n \in 1..size : /\ list[n] = at(from[n]) /\ list[n].text # at(p).text
                         /\ Before(from[n], p)
  BY <1>1, <1>3
<1>5. ~Before(p, p)
  BY PlacesOrdered DEF Before
<1> HIDE DEF new, more, at, size
<1>6. \A n \in 1..Len(new) : new[n] = at(more[n])
  <2> TAKE n \in 1..Len(new)
  <2>1. CASE n \in 1..size
    BY <1>2, <1>3, <1>4, <2>1
  <2>2. CASE n = size + 1
    BY <1>2, <1>3, <2>2
  <2> QED BY <1>2, <2>1, <2>2
<1>7. \A n, m \in 1..Len(new) : n < m => /\ new[n].text # new[m].text
                                        /\ Before(more[n], more[m])
  <2> SUFFICES ASSUME NEW n \in 1..Len(new), NEW m \in 1..Len(new), n < m
               PROVE  new[n].text # new[m].text /\ Before(more[n], more[m])
    OBVIOUS
  <2>1. n \in 1..size /\ new[n] = list[n] /\ more[n] = from[n]
    BY <1>2, <1>3
  <2>2. CASE m \in 1..size
    <3>1. list[n].text # list[m].text /\ Before(from[n], from[m])
      BY <1>1, <2>1, <2>2 DEF size
    <3> QED BY <1>2, <1>3, <2>1, <2>2, <3>1
  <2>3. CASE m = size + 1
    BY <1>2, <1>3, <1>4, <2>1, <2>3
  <2> QED BY <1>2, <2>2, <2>3
<1>8. \A q \in seen \cup {p} : \E n \in 1..Len(new) :
            new[n].text = at(q).text /\ ~Before(q, more[n])
  <2> TAKE q \in seen \cup {p}
  <2>1. CASE q \in seen
    <3>1. PICK n \in 1..size : list[n].text = at(q).text /\ ~Before(q, from[n])
      BY <1>1, <2>1 DEF at, size
    <3>2. n \in 1..Len(new) /\ new[n] = list[n] /\ more[n] = from[n]
      BY <1>2, <1>3
    <3> QED BY <3>1, <3>2
  <2>2. CASE q = p
    <3>1. size + 1 \in 1..Len(new)
      BY <1>2
    <3> QED BY <1>2, <1>3, <1>5, <2>2, <3>1
  <2> QED BY <2>1, <2>2
<1>9. UnionOf(new, entries, seen \cup {p})
  BY <1>3, <1>6, <1>7, <1>8 DEF UnionOf, at
<1> QED BY <1>9 DEF new, at

(* What the loop over the tokens of an entry has after each round.         *)
IsWalk(walk, list, entry, S) ==
  /\ walk = [n \in 0..Len(entry) |->
                IF n = 0 THEN [block |-> FALSE, out |-> list]
                ELSE Merged(walk[n - 1], entry[n])]
  /\ \A n \in 0..Len(entry) : walk[n] \in [block : BOOLEAN, out : Seq(S)]
  /\ MergeEntry(list, entry) = walk[Len(entry)].out

LEMMA MergeLoop ==
  ASSUME NEW S, NEW list \in Seq(S), NEW entry \in Seq(S)
  PROVE  \E walk : IsWalk(walk, list, entry, S)
<1> DEFINE size == Len(entry)
           V == [block : BOOLEAN, out : Seq(S)]
           z == [block |-> FALSE, out |-> list]
           Round(g, n) == IF n = 0 THEN z ELSE Merged(g[n - 1], entry[n])
           step == [n \in 1..size |-> [m \in V |-> Merged(m, entry[n])]]
<1>1. size \in Nat /\ \A n \in 1..size : entry[n] \in S
  BY LenProperties, ElementOfSeq
<1>2. z \in V
  OBVIOUS
<1>3. ASSUME NEW n \in 1..size, NEW m \in V PROVE Merged(m, entry[n]) \in V
  <2>1. Append(m.out, entry[n]) \in Seq(S)
    BY <1>1, AppendProperties
  <2> QED BY <2>1 DEF Merged
<1>4. step \in [1..size -> [V -> V]]
  <2> HIDE DEF size, V
  <2> QED BY <1>3
<1> HIDE DEF size, V, step, z
<1>5. PICK g : IsLoop(V, z, size, step, g)
  BY <1>1, <1>2, <1>4, LoopHasValues
<1>6. ASSUME NEW n \in 0..size PROVE g[n] = Round(g, n) /\ g[n] \in V
  <2>1. CASE n = 0
    BY <1>5, <2>1 DEF IsLoop
  <2>2. CASE n # 0
    <3>1. n \in 1..size /\ n - 1 \in 0..size
      BY <1>1, <2>2
    <3>2. g[n] = step[n][g[n - 1]] /\ g[n - 1] \in V /\ g[n] \in V
      BY <1>5, <3>1 DEF IsLoop
    <3> QED BY <2>2, <3>1, <3>2 DEF step
  <2> QED BY <2>1, <2>2
<1>7. g = [n \in 0..size |-> Round(g, n)]
  <2>1. g = [n \in 0..size |-> g[n]]
    BY <1>5 DEF IsLoop
  <2> QED BY <1>6, <2>1
<1> DEFINE walk == CHOOSE f : f = [n \in 0..size |-> Round(f, n)]
<1>8. walk = [n \in 0..size |-> Round(walk, n)]
  <2>1. \E f : f = [n \in 0..size |-> Round(f, n)]
    BY <1>7
  <2> QED BY <2>1
<1>9. MergeEntry(list, entry) = walk[size].out
  BY DEF MergeEntry, size, z
<1> HIDE DEF walk
<1>10. \A n \in 0..size : walk[n] \in V
  <2> DEFINE Typed == {n \in Nat : n <= size => walk[n] \in V}
  <2>1. 0 \in Typed
    <3>1. walk[0] = z
      BY <1>1, <1>8
    <3> QED BY <1>2, <3>1
  <2>2. ASSUME NEW n \in Nat, n \in Typed PROVE n + 1 \in Typed
    <3> SUFFICES ASSUME n + 1 <= size PROVE walk[n + 1] \in V
      OBVIOUS
    <3>1. walk[n] \in V /\ n + 1 \in 1..size /\ n + 1 \in 0..size
      BY <1>1, <2>2
    <3>2. walk[n + 1] = Round(walk, n + 1)
      BY <1>8, <3>1
    <3>3. walk[n + 1] = Merged(walk[n], entry[n + 1])
      BY <3>2
    <3> QED BY <1>3, <3>1, <3>3
  <2>3. \A n \in Nat : n \in Typed
    <3> HIDE DEF Typed
    <3> QED BY <2>1, <2>2, NumbersBySuccessor
  <2> QED BY <1>1, <2>3
<1> QED BY <1>8, <1>9, <1>10 DEF IsWalk, size, V, z

(* The places of the files before the ith, and the first n of that one.    *)
PlacesTo(entries, i, n) ==
  {p \in Places(entries) : p[1] < i \/ (p[1] = i /\ p[2] <= n)}

(* Token n of an entry is followed by the inside of brackets.              *)
Inside(entry, n) ==
  \E j \in 1..n : entry[j] = Open /\ \A k \in (j + 1)..n : entry[k] # Close

LEMMA InsideAfter ==
  ASSUME NEW S, NEW entry \in Seq(S), NEW n \in Nat, n + 1 <= Len(entry)
  PROVE  /\ Inside(entry, n + 1) <=> IF Inside(entry, n) THEN entry[n + 1] # Close
                                    ELSE entry[n + 1] = Open
         /\ n + 1 \in PlainAt(entry) <=> ~Inside(entry, n) /\ entry[n + 1] # Open
<1>1. Open # Close
  BY DEF Open, Close
<1>2. ASSUME Inside(entry, n), entry[n + 1] # Close PROVE Inside(entry, n + 1)
  <2>1. PICK j \in 1..n : entry[j] = Open /\ \A k \in (j + 1)..n : entry[k] # Close
    BY <1>2 DEF Inside
  <2>2. j \in 1..(n + 1) /\ \A k \in (j + 1)..(n + 1) : k \in (j + 1)..n \/ k = n + 1
    OBVIOUS
  <2> QED BY <1>2, <2>1, <2>2 DEF Inside
<1>3. ASSUME entry[n + 1] = Open PROVE Inside(entry, n + 1)
  <2>1. n + 1 \in 1..(n + 1) /\ (n + 1 + 1)..(n + 1) = {}
    OBVIOUS
  <2> QED BY <1>3, <2>1 DEF Inside
<1>4. ASSUME Inside(entry, n + 1), entry[n + 1] # Open
      PROVE  Inside(entry, n) /\ entry[n + 1] # Close
  <2>1. PICK j \in 1..(n + 1) :
          entry[j] = Open /\ \A k \in (j + 1)..(n + 1) : entry[k] # Close
    BY <1>4 DEF Inside
  <2>2. j \in 1..n /\ n + 1 \in (j + 1)..(n + 1)
        /\ (j + 1)..n \subseteq (j + 1)..(n + 1)
    BY <1>4, <2>1
  <2> QED BY <2>1, <2>2 DEF Inside
<1>5. n + 1 \in DOMAIN entry
  OBVIOUS
<1>6. ASSUME n + 1 \in PlainAt(entry)
      PROVE  ~Inside(entry, n) /\ entry[n + 1] # Open
  <2>1. \A j \in 1..(n + 1) : ~(entry[j] = Open /\ \A k \in (j + 1)..((n + 1) - 1) :
                                                 entry[k] # Close)
    BY <1>6 DEF PlainAt
  <2>2. (n + 1) - 1 = n /\ 1..n \subseteq 1..(n + 1) /\ n + 1 \in 1..(n + 1)
        /\ (n + 1 + 1)..n = {}
    OBVIOUS
  <2> QED BY <2>1, <2>2 DEF Inside
<1>7. ASSUME ~Inside(entry, n), entry[n + 1] # Open
      PROVE  n + 1 \in PlainAt(entry)
  <2> SUFFICES ASSUME NEW j \in 1..(n + 1), entry[j] = Open,
                      \A k \in (j + 1)..((n + 1) - 1) : entry[k] # Close
               PROVE  FALSE
    BY <1>5 DEF PlainAt
  <2>1. j \in 1..n /\ (n + 1) - 1 = n
    BY <1>7
  <2> QED BY <1>7, <2>1 DEF Inside
<1> QED BY <1>1, <1>2, <1>3, <1>4, <1>6, <1>7

LEMMA PlacesAfter ==
  ASSUME NEW S, NEW entries \in Seq(Seq(S)), NEW i \in 1..Len(entries),
         NEW n \in Nat, n + 1 <= Len(entries[i])
  PROVE  /\ n + 1 \notin PlainAt(entries[i])
              => PlacesTo(entries, i, n + 1) = PlacesTo(entries, i, n)
         /\ n + 1 \in PlainAt(entries[i])
              => /\ <<i, n + 1>> \in Places(entries)
                 /\ PlacesTo(entries, i, n + 1)
                      = PlacesTo(entries, i, n) \cup {<<i, n + 1>>}
                 /\ \A q \in PlacesTo(entries, i, n) : Before(q, <<i, n + 1>>)
<1>1. ASSUME NEW p \in Places(entries)
      PROVE  /\ p \in PlacesTo(entries, i, n + 1)
                  <=> p \in PlacesTo(entries, i, n) \/ p = <<i, n + 1>>
             /\ p = <<i, n + 1>> => n + 1 \in PlainAt(entries[i])
             /\ p \in PlacesTo(entries, i, n) => Before(p, <<i, n + 1>>)
  <2>1. /\ p = <<p[1], p[2]>> /\ p[1] \in Nat /\ p[2] \in Nat
        /\ p[2] \in PlainAt(entries[p[1]])
    BY PlacesOrdered
  <2> QED BY <2>1 DEF PlacesTo, Before
<1>2. ASSUME n + 1 \in PlainAt(entries[i]) PROVE <<i, n + 1>> \in Places(entries)
  BY <1>2 DEF Places
<1>3. /\ PlacesTo(entries, i, n) \subseteq Places(entries)
      /\ PlacesTo(entries, i, n + 1) \subseteq Places(entries)
  BY DEF PlacesTo
<1>4. CASE n + 1 \notin PlainAt(entries[i])
  BY <1>1, <1>3, <1>4
<1>5. CASE n + 1 \in PlainAt(entries[i])
  BY <1>1, <1>2, <1>3, <1>5
<1> QED BY <1>4, <1>5

FilesTo(entries, i) == {p \in Places(entries) : p[1] <= i}

LEMMA PlacesOfFiles ==
  ASSUME NEW S, NEW entries \in Seq(Seq(S))
  PROVE  /\ FilesTo(entries, 0) = {}
         /\ FilesTo(entries, Len(entries)) = Places(entries)
         /\ \A i \in 1..Len(entries) :
              /\ PlacesTo(entries, i, 0) = FilesTo(entries, i - 1)
              /\ PlacesTo(entries, i, Len(entries[i])) = FilesTo(entries, i)
<1>1. ASSUME NEW p \in Places(entries)
      PROVE  /\ p[1] \in 1..Len(entries) /\ p[2] \in 1..Len(entries[p[1]])
             /\ entries[p[1]] \in Seq(S) /\ Len(entries[p[1]]) \in Nat
  BY PlacesOrdered
<1>2. FilesTo(entries, 0) = {} /\ FilesTo(entries, Len(entries)) = Places(entries)
  BY <1>1 DEF FilesTo
<1>3. ASSUME NEW i \in 1..Len(entries)
      PROVE  /\ PlacesTo(entries, i, 0) = FilesTo(entries, i - 1)
             /\ PlacesTo(entries, i, Len(entries[i])) = FilesTo(entries, i)
  <2>1. \A p \in Places(entries) :
          /\ (p[1] < i \/ (p[1] = i /\ p[2] <= 0)) <=> p[1] <= i - 1
          /\ (p[1] < i \/ (p[1] = i /\ p[2] <= Len(entries[i]))) <=> p[1] <= i
    BY <1>1
  <2> QED BY <2>1 DEF PlacesTo, FilesTo
<1> QED BY <1>2, <1>3

(* One more file.                                                          *)
LEMMA EntryIsMerged ==
  ASSUME NEW S, NEW entries \in Seq(Seq(S)), NEW i \in 1..Len(entries),
         NEW list \in Seq(S), UnionOf(list, entries, FilesTo(entries, i - 1))
  PROVE  /\ MergeEntry(list, entries[i]) \in Seq(S)
         /\ UnionOf(MergeEntry(list, entries[i]), entries, FilesTo(entries, i))
<1> DEFINE entry == entries[i]
<1>1. entry \in Seq(S) /\ Len(entry) \in Nat
  OBVIOUS
<1>2. PICK walk : IsWalk(walk, list, entry, S)
  <2> HIDE DEF entry
  <2> QED BY <1>1, MergeLoop
<1> DEFINE Good(n) == /\ walk[n].block <=> Inside(entry, n)
                      /\ UnionOf(walk[n].out, entries, PlacesTo(entries, i, n))
           Rounds == {n \in Nat : n <= Len(entry) => Good(n)}
<1>3. 0 \in Rounds
  <2>1. walk[0] = [block |-> FALSE, out |-> list]
    BY <1>1, <1>2 DEF IsWalk
  <2>2. ~Inside(entry, 0)
    BY DEF Inside
  <2>3. UnionOf(list, entries, PlacesTo(entries, i, 0))
    BY PlacesOfFiles
  <2> QED BY <2>1, <2>2, <2>3
<1>4. ASSUME NEW n \in Nat, n \in Rounds PROVE n + 1 \in Rounds
  <2> SUFFICES ASSUME n + 1 <= Len(entry) PROVE Good(n + 1)
    OBVIOUS
  <2> DEFINE old == walk[n]
             new == walk[n + 1]
             token == entry[n + 1]
             seen == PlacesTo(entries, i, n)
             place == <<i, n + 1>>
  <2>1. Good(n) /\ n \in 0..Len(entry) /\ n + 1 \in 1..Len(entry)
    BY <1>1, <1>4
  <2>2. new = Merged(old, token)
    <3>1. n + 1 \in 0..Len(entry) /\ n + 1 # 0 /\ (n + 1) - 1 = n
      BY <2>1
    <3> QED BY <1>2, <3>1 DEF IsWalk
  <2>3. /\ old \in [block : BOOLEAN, out : Seq(S)]
        /\ old.block <=> Inside(entry, n)
        /\ UnionOf(old.out, entries, seen)
    BY <1>2, <2>1 DEF IsWalk
  <2>4. /\ Inside(entry, n + 1) <=> IF Inside(entry, n) THEN token # Close
                                   ELSE token = Open
        /\ n + 1 \in PlainAt(entry) <=> ~Inside(entry, n) /\ token # Open
    BY <1>1, InsideAfter
  <2>5. CASE n + 1 \notin PlainAt(entry)
    <3>1. PlacesTo(entries, i, n + 1) = seen
      BY <2>5, PlacesAfter
    <3>2. new.out = old.out /\ (new.block <=> Inside(entry, n + 1))
      <4> HIDE DEF old, new, token, entry
      <4> QED BY <2>2, <2>3, <2>4, <2>5 DEF Merged
    <3> QED BY <2>3, <3>1, <3>2
  <2>6. CASE n + 1 \in PlainAt(entry)
    <3>1. /\ place \in Places(entries) /\ seen \in SUBSET Places(entries)
          /\ PlacesTo(entries, i, n + 1) = seen \cup {place}
          /\ \A q \in seen : Before(q, place)
      BY <2>6, PlacesAfter DEF PlacesTo
    <3>2. entries[place[1]][place[2]] = token /\ old.out \in Seq(S)
      BY <2>3
    <3>3. CASE \E m \in 1..Len(old.out) : old.out[m].text = token.text
      <4>1. UnionOf(old.out, entries, seen \cup {place})
        <5> HIDE DEF old, token, seen, place
        <5> QED BY <2>3, <3>1, <3>2, <3>3, PlaceRepeats
      <4>2. new.out = old.out /\ (new.block <=> Inside(entry, n + 1))
        <5>1. DOMAIN old.out = 1..Len(old.out)
          BY <3>2
        <5> HIDE DEF old, new, token, entry
        <5> QED BY <2>2, <2>3, <2>4, <2>6, <3>3, <5>1 DEF Merged
      <4> QED BY <3>1, <4>1, <4>2
    <3>4. CASE \A m \in 1..Len(old.out) : old.out[m].text # token.text
      <4>1. UnionOf(Append(old.out, token), entries, seen \cup {place})
        <5> HIDE DEF old, token, seen, place
        <5> QED BY <2>3, <3>1, <3>2, <3>4, PlaceIsNew
      <4>2. new.out = Append(old.out, token) /\ (new.block <=> Inside(entry, n + 1))
        <5>1. DOMAIN old.out = 1..Len(old.out)
          BY <3>2
        <5> HIDE DEF old, new, token, entry
        <5> QED BY <2>2, <2>3, <2>4, <2>6, <3>4, <5>1 DEF Merged
      <4> QED BY <3>1, <4>1, <4>2
    <3> QED BY <3>3, <3>4
  <2> QED BY <2>5, <2>6
<1>5. Good(Len(entry))
  <2>1. \A n \in Nat : n \in Rounds
    <3> HIDE DEF Rounds
    <3> QED BY <1>3, <1>4, NumbersBySuccessor
  <2> QED BY <1>1, <2>1
<1>6. PlacesTo(entries, i, Len(entry)) = FilesTo(entries, i)
  BY PlacesOfFiles
<1>7. walk[Len(entry)].out \in Seq(S)
  <2>1. Len(entry) \in 0..Len(entry)
    BY <1>1
  <2>2. walk[Len(entry)] \in [block : BOOLEAN, out : Seq(S)]
    BY <1>2, <2>1 DEF IsWalk
  <2> QED BY <2>2
<1>8. MergeEntry(list, entry) = walk[Len(entry)].out
  BY <1>2 DEF IsWalk
<1> HIDE DEF entry
<1> QED BY <1>5, <1>6, <1>7, <1>8 DEF entry

(* Every file.                                                             *)
LEMMA FilesLoop ==
  ASSUME NEW S, NEW entries \in Seq(Seq(S))
  PROVE  \E lists : /\ lists = [n \in 0..Len(entries) |->
                         IF n = 0 THEN <<>>
                         ELSE MergeEntry(lists[n - 1], entries[n])]
                    /\ MergeAll(entries) = lists[Len(entries)]
<1> DEFINE size == Len(entries)
           V == Seq(S)
           Round(g, n) == IF n = 0 THEN <<>> ELSE MergeEntry(g[n - 1], entries[n])
           step == [n \in 1..size |-> [list \in V |-> MergeEntry(list, entries[n])]]
<1>1. size \in Nat /\ \A n \in 1..size : entries[n] \in Seq(S)
  BY LenProperties, ElementOfSeq
<1>2. <<>> \in V
  OBVIOUS
<1>3. ASSUME NEW n \in 1..size, NEW list \in V
      PROVE  MergeEntry(list, entries[n]) \in V
  <2> DEFINE entry == entries[n]
  <2>1. entry \in Seq(S) /\ list \in Seq(S)
    BY <1>1 DEF V
  <2>2. Len(entry) \in 0..Len(entry)
    BY <2>1
  <2> HIDE DEF entry
  <2>3. PICK walk : IsWalk(walk, list, entry, S)
    BY <2>1, MergeLoop
  <2>4. MergeEntry(list, entry) \in Seq(S)
    BY <2>2, <2>3 DEF IsWalk
  <2> QED BY <2>4 DEF entry, V
<1>4. step \in [1..size -> [V -> V]]
  <2> HIDE DEF size, V
  <2> QED BY <1>3
<1> HIDE DEF size, V, step
<1>5. PICK g : IsLoop(V, <<>>, size, step, g)
  BY <1>1, <1>2, <1>4, LoopHasValues
<1>6. ASSUME NEW n \in 0..size PROVE g[n] = Round(g, n)
  <2>1. CASE n = 0
    BY <1>5, <2>1 DEF IsLoop
  <2>2. CASE n # 0
    <3>1. n \in 1..size /\ n - 1 \in 0..size
      BY <1>1, <2>2
    <3>2. g[n] = step[n][g[n - 1]] /\ g[n - 1] \in V
      BY <1>5, <3>1 DEF IsLoop
    <3> QED BY <2>2, <3>1, <3>2 DEF step
  <2> QED BY <2>1, <2>2
<1>7. g = [n \in 0..size |-> Round(g, n)]
  <2>1. g = [n \in 0..size |-> g[n]]
    BY <1>5 DEF IsLoop
  <2> QED BY <1>6, <2>1
<1> DEFINE lists == CHOOSE f : f = [n \in 0..size |-> Round(f, n)]
<1>8. lists = [n \in 0..size |-> Round(lists, n)]
  <2>1. \E f : f = [n \in 0..size |-> Round(f, n)]
    BY <1>7
  <2> QED BY <2>1
<1>9. MergeAll(entries) = lists[size]
  BY DEF MergeAll, size
<1> QED BY <1>8, <1>9 DEF size

(* MergeBuiltinCandidates makes the union of whatever the files list for a *)
(* word, of any number of files: each text that stands outside brackets    *)
(* once, with its first annotation, in the order of first appearance.      *)
THEOREM FilesAreMerged ==
  ASSUME NEW S, NEW entries \in Seq(Seq(S))
  PROVE  IsUnion(MergeAll(entries), entries)
<1>1. PICK lists : /\ lists = [n \in 0..Len(entries) |->
                         IF n = 0 THEN <<>>
                         ELSE MergeEntry(lists[n - 1], entries[n])]
                   /\ MergeAll(entries) = lists[Len(entries)]
  BY FilesLoop
<1> DEFINE Good(n) == /\ lists[n] \in Seq(S)
                      /\ UnionOf(lists[n], entries, FilesTo(entries, n))
           Rounds == {n \in Nat : n <= Len(entries) => Good(n)}
<1>2. Len(entries) \in Nat
  OBVIOUS
<1>3. 0 \in Rounds
  <2>1. lists[0] = <<>> /\ FilesTo(entries, 0) = {}
    BY <1>1, <1>2, PlacesOfFiles
  <2>2. UnionOf(lists[0], entries, FilesTo(entries, 0))
    <3> DEFINE none == [n \in {} |-> 0]
    <3>1. none \in [{} -> {}]
      OBVIOUS
    <3>2. 1..Len(lists[0]) = {} /\ FilesTo(entries, 0) = {}
      BY <2>1
    <3>3. \A n \in 1..Len(lists[0]) : FALSE
      BY <3>2
    <3> HIDE DEF none
    <3> QED BY <3>1, <3>2, <3>3 DEF UnionOf
  <2>3. lists[0] \in Seq(S)
    BY <2>1
  <2> QED BY <2>2, <2>3
<1>4. ASSUME NEW n \in Nat, n \in Rounds PROVE n + 1 \in Rounds
  <2> SUFFICES ASSUME n + 1 <= Len(entries) PROVE Good(n + 1)
    OBVIOUS
  <2>1. Good(n) /\ n + 1 \in 1..Len(entries) /\ (n + 1) - 1 = n
    BY <1>2, <1>4
  <2>2. lists[n + 1] = MergeEntry(lists[n], entries[n + 1])
    <3>1. n + 1 \in 0..Len(entries) /\ n + 1 # 0
      BY <2>1
    <3> QED BY <1>1, <2>1, <3>1
  <2>3. UnionOf(lists[n], entries, FilesTo(entries, (n + 1) - 1))
    BY <2>1
  <2> QED BY <2>1, <2>2, <2>3, EntryIsMerged
<1>5. Good(Len(entries))
  <2>1. \A n \in Nat : n \in Rounds
    <3> HIDE DEF Rounds
    <3> QED BY <1>3, <1>4, NumbersBySuccessor
  <2> QED BY <1>2, <2>1
<1>6. UnionOf(MergeAll(entries), entries, Places(entries))
  BY <1>1, <1>5, PlacesOfFiles
<1> QED BY <1>6 DEF IsUnion, UnionOf

LEMMA EntriesOfMaps ==
  ASSUME IInv, ready, NEW w \in Word
  PROVE  EntriesFor(w) \in Seq(Seq(Token))
<1>1. /\ maps = loaded /\ Len(loaded) \in Nat /\ DOMAIN loaded = 1..Len(loaded)
      /\ \A i \in 1..Len(loaded) : loaded[i] \in {Files[i], NoEntries}
      /\ Len(loaded) <= Len(Files)
  BY DEF IInv, Loading
<1>2. ASSUME NEW i \in 1..Len(maps), w \in DOMAIN maps[i]
      PROVE  maps[i][w] \in Seq(Token)
  <2>1. i \in DOMAIN Files /\ maps[i] \in {Files[i], NoEntries}
    BY <1>1, Constants
  <2>2. DOMAIN NoEntries = {}
    BY DEF NoEntries
  <2>3. maps[i] = Files[i]
    BY <1>2, <2>1, <2>2
  <2> QED BY <1>2, <2>1, <2>3, RelayAssumption DEF RelayAssumption
<1>3. <<>> \in Seq(Token)
  BY EmptySeq
<1>4. EntriesFor(w) \in [1..Len(maps) -> Seq(Token)]
  <2>1. DOMAIN maps = 1..Len(maps) /\ Len(maps) \in Nat
    BY <1>1
  <2>2. \A i \in 1..Len(maps) :
          (IF w \in DOMAIN maps[i] THEN maps[i][w] ELSE <<>>) \in Seq(Token)
    BY <1>2, <1>3
  <2> HIDE DEF Token
  <2> QED BY <2>1, <2>2 DEF EntriesFor
<1>5. Len(maps) \in Nat
  BY <1>1
<1> QED BY <1>4, <1>5, SeqDef

(* In particular what a lookup answers from the published files, however   *)
(* many there are and whichever of them could be read.                     *)
THEOREM MergeUnion == Spec => []MergeIsUnion
<1>1. ASSUME NEW e \in Entries, NEW f \in Entries
      PROVE  IsUnion(MergeAll(<<e, f>>), <<e, f>>)
  <2>1. ASSUME NEW g \in Entries PROVE g \in Seq(Samples)
    <3>1. PICK n \in 0..3 : g \in [1..n -> Samples]
      BY DEF Entries
    <3>2. n \in Nat
      OBVIOUS
    <3> QED BY <3>1, <3>2, SeqDef
  <2>2. <<e, f>> \in Seq(Seq(Samples))
    BY <2>1
  <2> QED BY <2>2, FilesAreMerged
<1>2. MergesAreUnions
  BY <1>1 DEF MergesAreUnions
<1>3. IInv => MergeIsUnion
  BY <1>2, EntriesOfMaps, FilesAreMerged
     DEF MergeIsUnion, MergeBuiltinCandidates
<1> QED BY <1>3, TurnInvariant, PTL

-----------------------------------------------------------------------------
(* The refinement: every step of the host, the child and the server is a   *)
(* step of WordLookup or changes nothing there.                            *)

(* Whichever files could not be read, the published maps make one of the   *)
(* unions that WordLookup may publish.                                     *)
LEMMA MapsAreReadable ==
  ASSUME NEW m, DOMAIN m = DOMAIN Files,
         \A i \in DOMAIN Files : m[i] \in {Files[i], NoEntries}
  PROVE  [w \in Word |-> MergeAll([i \in DOMAIN m |->
             IF w \in DOMAIN m[i] THEN m[i][w] ELSE <<>>])]
           \in {FromReadable(files) : files \in SUBSET DOMAIN Files}
<1> DEFINE readable == {i \in DOMAIN Files : m[i] = Files[i]}
           ours(w) == [i \in DOMAIN m |-> IF w \in DOMAIN m[i] THEN m[i][w] ELSE <<>>]
           theirs(w) == [i \in DOMAIN Files |-> IF i \in readable /\ w \in DOMAIN Files[i]
                                                THEN Files[i][w] ELSE <<>>]
<1>1. DOMAIN NoEntries = {}
  BY DEF NoEntries
<1>2. ASSUME NEW w \in Word PROVE ours(w) = theirs(w)
  <2>1. ASSUME NEW i \in DOMAIN Files
        PROVE  (IF w \in DOMAIN m[i] THEN m[i][w] ELSE <<>>)
                 = (IF i \in readable /\ w \in DOMAIN Files[i] THEN Files[i][w] ELSE <<>>)
    BY <1>1, Zenon
  <2> QED BY <2>1
<1> HIDE DEF ours, theirs, readable
<1>3. [w \in Word |-> MergeAll(ours(w))] = [w \in Word |-> MergeAll(theirs(w))]
  BY <1>2
<1>4. FromReadable(readable) = [w \in Word |-> MergeAll(theirs(w))]
  BY DEF FromReadable, theirs
<1>5. readable \in SUBSET DOMAIN Files
  BY DEF readable
<1>6. [w \in Word |-> MergeAll(ours(w))]
        \in {FromReadable(files) : files \in SUBSET DOMAIN Files}
  BY <1>3, <1>4, <1>5, Zenon
<1> QED BY <1>6 DEF ours

LEMMA ListsKept ==
  ASSUME UNCHANGED dictionaries  PROVE Lists' = Lists
BY DEF dictionaries, Lists, MergeBuiltinCandidates, EntriesFor

(* What WordLookup sees in each phase of Dispatch.                         *)
LEMMA ViewAtRest ==
  ASSUME AtRest, host.at \in {"probe", "idle"}
  PROVE  Job = 0 /\ ~Passed /\ Reply = {} /\ Answered = 0
BY DEF AtRest, Job, Passed, Reply, Answered

LEMMA ViewAtWork ==
  ASSUME AtWork, Records, host.at = "read"
  PROVE  /\ Job = host.id /\ Job # 0 /\ ~Passed /\ Reply = {} /\ Answered = 0
         /\ Work = child.id /\ Work # 0 /\ (Work = Job \/ Job \in swallowed)
         /\ child.word = NoWord
BY DEF AtWork, Records, Job, Passed, Reply, Answered, Work, Working, Verbs,
   SameRequest

LEMMA ViewQuestion ==
  ASSUME QuestionInFlight, Records, host.at = "read"
  PROVE  /\ Job = host.id /\ Job # 0 /\ ~Passed /\ Reply = {} /\ Answered = 0
         /\ Work = child.id /\ Work # 0 /\ (Work = Job \/ Job \in swallowed)
         /\ child.word \in Word
BY DEF QuestionInFlight, Records, Job, Passed, Reply, Answered, Work, Asking,
   SameRequest

LEMMA ViewLookingUp ==
  ASSUME LookingUp, Records, host.at \in {"lookup", "attempt", "recv"}
  PROVE  /\ Job = host.id /\ Job # 0 /\ Reply = {} /\ Answered = 0
         /\ Work = child.id /\ Work # 0 /\ (Work = Job \/ Job \in swallowed)
         /\ child.word \in Word /\ host.word = child.word
         /\ Passed = (host.at # "lookup")
BY DEF LookingUp, Records, Job, Passed, Reply, Answered, Work, Asking,
   SameRequest

LEMMA RefinesInit == Init => Lookup!Init
<1> SUFFICES ASSUME Init PROVE Lookup!Init
  OBVIOUS
<1>1. Lists = Lookup!NoLists
  BY DEF Init, Lists, Lookup!NoLists
<1>2. Job = 0 /\ Work = 0 /\ Passed = FALSE /\ Reply = {} /\ Answered = 0
  BY DEF Init, Job, Work, Passed, Reply, Answered, Idle, Waiting
<1>3. child.word = NoWord
  BY DEF Init, Waiting
<1> QED BY <1>1, <1>2, <1>3 DEF Init, Lookup!Init

(* What stays as it is for WordLookup when a step does not touch the       *)
(* child, the pipes and the request.                                       *)
LEMMA Unseen ==
  ASSUME UNCHANGED <<dictionaries, child, pipes, history, Job, Passed>>
  PROVE  UNCHANGED Lookup!vars
<1>1. Lists' = Lists
  BY ListsKept
<1>2. UNCHANGED <<Work, Reply, Answered>>
  BY DEF Work, Reply, Answered, pipes
<1> QED BY <1>1, <1>2 DEF Lookup!vars, history

LEMMA RefinesRequest ==
  ASSUME IInv, Dispatch \/ NextOfPlan  PROVE Lookup!Request
<1> USE DEF IInv, Records
<1>1. PICK verb \in Verbs : WriteLine(verb)
  BY DEF Dispatch, NextOfPlan, Barrier, Verbs
<1>2. /\ host.at = "idle" /\ UNCHANGED <<dictionaries, child, fromChild, swallowed>>
      /\ toChild = <<>> /\ fromChild = <<>>
  BY DEF Dispatch, NextOfPlan, AtRest
<1>3. Job = 0 /\ ~Passed /\ Reply = {} /\ Answered = 0
  BY <1>2, ViewAtRest
<1>4. Job' = requests + 1 /\ Passed' = FALSE /\ requests' = requests + 1
  BY <1>1, WriteLineStarts DEF Job, Passed
<1>5. toChild' = <<[kind |-> "request", id |-> requests + 1, verb |-> verb]>>
  BY <1>1, <1>2 DEF WriteLine
<1>6. Reply' = {} /\ Answered' = 0 /\ Work' = Work
  BY <1>2, <1>5, OneLine DEF Reply, Answered, Work
<1>7. Passed' = Passed
  BY <1>1, <1>2, WriteLineStarts DEF Passed
<1>8. Lists' = Lists
  BY <1>2, ListsKept
<1> QED BY <1>2, <1>3, <1>4, <1>6, <1>7, <1>8 DEF Lookup!Request

LEMMA RefinesPublish ==
  ASSUME IInv, Publish  PROVE Lookup!Publish
<1> USE DEF IInv, Loading
<1>1. Lists = Lookup!NoLists
  BY DEF Publish, Lists, Lookup!NoLists
<1>2. /\ maps' = loaded /\ ready' /\ Len(loaded) = Len(Files)
      /\ UNCHANGED <<child, host, toChild, fromChild, requests, swallowed>>
  BY DEF Publish, AllLoaded, pipes, history
<1>3. /\ DOMAIN loaded = DOMAIN Files
      /\ \A i \in DOMAIN Files : loaded[i] \in {Files[i], NoEntries}
  BY <1>2, Constants
<1>4. Lists' = [w \in Word |-> MergeAll([i \in DOMAIN loaded |->
                  IF w \in DOMAIN loaded[i] THEN loaded[i][w] ELSE <<>>])]
  BY <1>2 DEF Lists, MergeBuiltinCandidates, EntriesFor
<1>5. Lists' \in Readable
  <2>1. [w \in Word |-> MergeAll([i \in DOMAIN loaded |->
           IF w \in DOMAIN loaded[i] THEN loaded[i][w] ELSE <<>>])]
          \in {FromReadable(files) : files \in SUBSET DOMAIN Files}
    BY <1>3, MapsAreReadable
  <2> QED BY <1>4, <2>1, Zenon DEF Readable
<1>6. UNCHANGED <<Job, Work, Passed, Reply, Answered>>
  BY <1>2 DEF Job, Work, Passed, Reply, Answered
<1> QED BY <1>1, <1>2, <1>5, <1>6 DEF Lookup!Publish

LEMMA RefinesBegin ==
  ASSUME IInv, ReadRequest  PROVE Lookup!Begin
<1> USE DEF IInv, Records
<1>1. host.at = "read" /\ RequestInFlight /\ Resting
  BY DEF ReadRequest, AtRest, Reading, LookingUp, ReplyInFlight, AtWork,
     QuestionInFlight, AnswerInFlight, RequestInFlight, Asking, TypeOK, Phase
<1>2. /\ toChild' = <<>> /\ fromChild' = <<>> /\ fromChild = <<>>
      /\ UNCHANGED <<dictionaries, host, requests, swallowed>>
      /\ child' = [child EXCEPT !.at = Head(toChild).verb, !.id = Head(toChild).id, !.asks = 0]
      /\ Head(toChild).id = host.id /\ Head(toChild).verb \in Verbs
      /\ Head(toChild).kind = "request"
  <2>1. /\ Head(toChild).id = host.id /\ Head(toChild).verb \in Verbs
        /\ Head(toChild).kind = "request" /\ fromChild = <<>> /\ Single(toChild)
    BY <1>1 DEF RequestInFlight
  <2>2. Tail(toChild) = <<>>
    BY <2>1, OneLine DEF Single
  <2> QED BY <2>1, <2>2 DEF ReadRequest, history
<1>3. child'.at \in Verbs /\ child'.id = host.id /\ child'.word = NoWord /\ child.word = NoWord
  BY <1>1, <1>2 DEF ChildRecord, Resting
<1>4. Work = 0 /\ Work' = host.id /\ Job = host.id /\ Job # 0
  BY <1>1, <1>3 DEF Work, Job, Resting, Verbs
<1>5. UNCHANGED <<Job, Passed>>
  BY <1>2 DEF Job, Passed
<1>6. Reply = {} /\ Reply' = {} /\ Answered = 0 /\ Answered' = 0
  BY <1>2 DEF Reply, Answered
<1>7. Lists' = Lists
  BY <1>2, ListsKept
<1> QED BY <1>2, <1>3, <1>4, <1>5, <1>6, <1>7 DEF Lookup!Begin

LEMMA ChildAtWork ==
  ASSUME IInv, child.at # "stdin", child.word = NoWord
  PROVE  host.at = "read" /\ AtWork
BY Constants DEF IInv, AtRest, Reading, LookingUp, RequestInFlight, ReplyInFlight,
   QuestionInFlight, AnswerInFlight, Asking, Resting, TypeOK, Phase

LEMMA RefinesAsk ==
  ASSUME IInv, Ask  PROVE Lookup!Ask
<1> USE DEF IInv, Records
<1>1. /\ host.at = "read" /\ AtWork
      /\ UNCHANGED <<dictionaries, host, toChild, requests, swallowed>>
  BY ChildAtWork, Zenon DEF Ask, history
<1>2. PICK w \in Word :
        /\ fromChild' = Append(fromChild, [kind |-> "SERVER", word |-> w])
        /\ child' = [child EXCEPT !.asks = @ + 1, !.word = w]
  BY DEF Ask
<1>3. child'.at = child.at /\ child'.id = child.id /\ child'.word = w
  BY <1>2 DEF ChildRecord
<1>4. fromChild' = <<[kind |-> "SERVER", word |-> w]>>
  BY <1>1, <1>2, OneLine DEF AtWork
<1>5. Answered' = 0 /\ UNCHANGED <<Work, Job, Passed, Reply>>
  BY <1>1, <1>3, <1>4, OneLine DEF Answered, Work, Job, Passed, Reply
<1>6. Lists' = Lists
  BY <1>1, ListsKept
<1> QED BY <1>1, <1>3, <1>5, <1>6, ViewAtWork DEF Lookup!Ask, Lookup!InTurn

LEMMA RefinesAnswer ==
  ASSUME IInv, AnswerRequest  PROVE Lookup!Answer
<1> USE DEF IInv, Records
<1>1. /\ host.at = "read" /\ AtWork
      /\ UNCHANGED <<dictionaries, host, toChild, requests, swallowed>>
  BY ChildAtWork, Zenon DEF AnswerRequest, history
<1>2. PICK shown \in Shows(child.at) :
        /\ child' = [Waiting EXCEPT !.shown = shown]
        /\ fromChild' = Append(fromChild, [kind |-> "answer", id |-> child.id,
                                           shown |-> shown])
  BY DEF AnswerRequest
<1>3. child'.at = "stdin" /\ child'.word = NoWord
  BY <1>2 DEF Waiting
<1>4. fromChild' = <<[kind |-> "answer", id |-> child.id, shown |-> shown]>>
  BY <1>1, <1>2, OneLine DEF AtWork
<1>5. Answered' = child.id /\ Work' = 0 /\ UNCHANGED <<Job, Passed, Reply>>
  BY <1>1, <1>3, <1>4, OneLine DEF Answered, Work, Job, Passed, Reply
<1>6. Lists' = Lists
  BY <1>1, ListsKept
<1> QED BY <1>1, <1>3, <1>5, <1>6, ViewAtWork DEF Lookup!Answer, Lookup!InTurn

(* The line the child takes is a reply or, after an abandoned request, the *)
(* next request.                                                           *)
LEMMA RefinesTake ==
  ASSUME IInv, TakeReply  PROVE Lookup!Take \/ Lookup!Miss
<1> USE DEF IInv, Records
<1>1. host.at = "read" /\ Asking /\ (RequestInFlight \/ ReplyInFlight)
  BY DEF TakeReply, AtRest, Reading, LookingUp, RequestInFlight, ReplyInFlight,
     AtWork, QuestionInFlight, AnswerInFlight, Working, Resting, TypeOK, Phase
<1>2. /\ toChild' = <<>> /\ fromChild' = <<>> /\ fromChild = <<>>
      /\ UNCHANGED <<dictionaries, host, requests>>
      /\ child'.at = child.at /\ child'.id = child.id /\ child'.word = NoWord
  <2>1. Single(toChild) /\ fromChild = <<>>
    BY <1>1 DEF RequestInFlight, ReplyInFlight
  <2>2. Tail(toChild) = <<>>
    BY <2>1, OneLine DEF Single
  <2>3. child' = [child EXCEPT !.word = NoWord]
    BY DEF TakeReply
  <2>4. child'.at = child.at /\ child'.id = child.id /\ child'.word = NoWord
    BY <2>3 DEF ChildRecord
  <2> QED BY <2>1, <2>2, <2>4 DEF TakeReply
<1>3. /\ UNCHANGED <<Work, Job, Passed>> /\ Reply' = {} /\ Answered = 0 /\ Answered' = 0
      /\ Job = host.id /\ Job # 0 /\ ~Passed /\ Work = child.id /\ Work # 0
  BY <1>1, <1>2 DEF Work, Job, Passed, Reply, Answered, Asking
<1>4. Lists' = Lists
  BY <1>2, ListsKept
<1>5. child.word # NoWord
  BY <1>1, Constants DEF Asking
<1>6. CASE RequestInFlight
  <2>1. Reply = {} /\ swallowed' = swallowed \cup {host.id}
    BY <1>6 DEF TakeReply, RequestInFlight, Reply
  <2>2. Job \notin swallowed /\ Work # Job
    BY <1>1, <1>3, <1>6 DEF RequestInFlight, Resting, Asking
  <2> QED BY <1>2, <1>3, <1>4, <1>5, <2>1, <2>2 DEF Lookup!Miss
<1>7. CASE ReplyInFlight
  <2>1. Reply # {} /\ swallowed' = swallowed
    BY <1>7 DEF TakeReply, ReplyInFlight, Single, Reply
  <2>2. Work = Job \/ Job \in swallowed
    BY <1>3, <1>7 DEF ReplyInFlight, SameRequest
  <2> QED BY <1>2, <1>3, <1>4, <2>1, <2>2 DEF Lookup!Take, Lookup!InTurn
<1> QED BY <1>1, <1>6, <1>7

LEMMA RefinesReturn ==
  ASSUME IInv, ReadAnswer  PROVE Lookup!Return
<1> USE DEF IInv, Records
<1>1. AnswerInFlight /\ host.at = "read"
  BY DEF ReadAnswer, Reading, RequestInFlight, ReplyInFlight, AtWork, QuestionInFlight
<1>2. /\ toChild' = toChild /\ fromChild' = <<>> /\ host' = Idle
      /\ UNCHANGED <<dictionaries, child, requests, swallowed>>
  BY <1>1, OneLine DEF ReadAnswer, AnswerInFlight, Single, history
<1>3. /\ Job = host.id /\ Job' = 0 /\ ~Passed /\ ~Passed' /\ Reply' = Reply /\ Work' = Work
      /\ Answered = Head(fromChild).id /\ Answered' = 0
  BY <1>1, <1>2 DEF Job, Passed, Reply, Work, Answered, Idle, AnswerInFlight, Single
<1>4. Lists' = Lists /\ Passed' = Passed
  BY <1>2, <1>3, ListsKept DEF Passed
<1> QED BY <1>1, <1>2, <1>3, <1>4 DEF Lookup!Return, AnswerInFlight, SameRequest

LEMMA QuestionAsked ==
  ASSUME IInv, Asked  PROVE QuestionInFlight /\ host.at = "read"
BY DEF IInv, Asked, Reading, RequestInFlight, ReplyInFlight, AtWork, AnswerInFlight

LEMMA RefinesAbandon ==
  ASSUME IInv, TooMany  PROVE Lookup!Abandon
<1> USE DEF IInv, Records
<1>1. QuestionInFlight /\ host.at = "read"
  BY QuestionAsked DEF TooMany
<1>2. /\ toChild' = toChild /\ toChild = <<>> /\ fromChild' = <<>> /\ host' = Idle
      /\ UNCHANGED <<dictionaries, child, requests, swallowed>>
  BY <1>1, OneLine DEF TooMany, QuestionInFlight, Single, history
<1>3. Job' = 0 /\ Reply' = Reply /\ Work' = Work /\ Answered' = 0 /\ ~Passed'
  BY <1>2 DEF Job, Passed, Reply, Work, Answered, Idle
<1>4. Lists' = Lists /\ Passed' = Passed
  BY <1>1, <1>2, ListsKept DEF Passed, Idle
<1> QED BY <1>1, <1>2, <1>3, <1>4, ViewQuestion, Constants DEF Lookup!Abandon, Lookup!InTurn

(* A line of LookupDictionary is a reply to the child.                     *)
LEMMA AnswerReplies ==
  ASSUME IInv, host.at \in {"lookup", "attempt", "recv"},
         NEW line, Answer(line), line.kind = "reply",
         UNCHANGED <<dictionaries, fromChild, child>>
  PROVE  /\ Reply' = {[word |-> line.word, found |-> line.found]} /\ Passed' = FALSE
         /\ UNCHANGED <<Job, Work, Answered, Lists>>
<1> USE DEF IInv, Records
<1>1. toChild' = <<line>> /\ host'.at = "read" /\ host'.id = host.id
  BY OneLine DEF Answer, Once, LookingUp, HostRecord
<1>2. Lists' = Lists
  BY ListsKept
<1> QED BY <1>1, <1>2, OneLine DEF Reply, Passed, Job, Work, Answered

LEMMA RefinesFromFiles ==
  ASSUME IInv, LookupFile  PROVE Lookup!FromFiles
<1> USE DEF IInv, Records
<1> DEFINE list == MergeBuiltinCandidates(host.word)
<1>1. /\ host.at = "lookup" /\ ready /\ list # <<>> /\ Answer(Found(host.word, list))
      /\ UNCHANGED <<dictionaries, fromChild, child, requests, swallowed>>
  BY DEF LookupFile, Builtin, history
<1>2. /\ Found(host.word, list).kind = "reply"
      /\ [word |-> Found(host.word, list).word, found |-> Found(host.word, list).found]
           = Lookup!Found(host.word, list)
  BY DEF Found, Lookup!Found
<1> HIDE DEF list
<1>3. /\ Reply' = {Lookup!Found(host.word, list)} /\ Passed' = FALSE
      /\ UNCHANGED <<Job, Work, Answered, Lists>>
  BY <1>1, <1>2, AnswerReplies
<1>4. host.word = child.word /\ child.word \in Word
  BY <1>1, ViewLookingUp
<1>5. Lists[child.word] = list
  BY <1>1, <1>4 DEF Lists, list
<1>6. Passed = FALSE /\ Passed' = Passed
  <2>1. Passed = FALSE
    BY <1>1 DEF Passed
  <2> QED BY <1>3, <2>1, Zenon
<1> QED
  BY <1>1, <1>3, <1>4, <1>5, <1>6, ViewLookingUp, Constants
     DEF Lookup!FromFiles, Lookup!InTurn

LEMMA RefinesPass ==
  ASSUME IInv, NotBuiltin  PROVE Lookup!Pass
<1> USE DEF IInv, Records
<1>1. /\ host.at = "lookup" /\ ~Builtin /\ host' = [host EXCEPT !.at = "attempt"]
      /\ UNCHANGED <<dictionaries, toChild, fromChild, child, requests, swallowed>>
  BY DEF NotBuiltin, pipes, history
<1>2. host'.at = "attempt" /\ host'.id = host.id
  BY <1>1 DEF HostRecord
<1>3. host.word = child.word /\ child.word \in Word
  BY <1>1, ViewLookingUp
<1>4. Lists[child.word] = <<>>
  BY <1>1, <1>3 DEF Lists, Builtin
<1>5. UNCHANGED <<Job, Work, Reply, Answered>> /\ Passed' = TRUE /\ ~Passed
  BY <1>1, <1>2 DEF Job, Work, Reply, Answered, Passed
<1>6. Lists' = Lists
  BY <1>1, ListsKept
<1> QED
  BY <1>1, <1>3, <1>4, <1>5, <1>6, ViewLookingUp, Constants
     DEF Lookup!Pass, Lookup!InTurn

(* Two failed attempts, or one line of the server.                         *)
LEMMA RefinesFromServer ==
  ASSUME IInv, GiveUp \/ Receive  PROVE Lookup!FromServer
<1> USE DEF IInv, Records
<1>1. /\ host.at \in {"attempt", "recv"}
      /\ UNCHANGED <<dictionaries, fromChild, child, requests, swallowed>>
  BY DEF GiveUp, Receive, history
<1>2. \/ Answer(NotFound)
      \/ host.word \in Known /\ Answer(Found(host.word, External))
  <2>1. CASE GiveUp
    BY <2>1 DEF GiveUp
  <2>2. CASE Receive
    <3>1. replies = <<IF host.word \in Known THEN Found(host.word, External) ELSE NotFound>>
      BY <2>2 DEF Receive, Connection
    <3> QED BY <2>2, <3>1, OneLine DEF Receive
  <2> QED BY <2>1, <2>2
<1>3. host.word = child.word /\ Passed = TRUE
  BY <1>1, ViewLookingUp DEF Passed
<1>4. CASE Answer(NotFound)
  <2>1. /\ NotFound.kind = "reply"
        /\ [word |-> NotFound.word, found |-> NotFound.found] = Lookup!NotFound
    BY DEF NotFound, Lookup!NotFound
  <2>2. /\ Reply' = {Lookup!NotFound} /\ Passed' = FALSE
        /\ UNCHANGED <<Job, Work, Answered, Lists>>
    BY <1>1, <1>4, <2>1, AnswerReplies
  <2> QED BY <1>1, <1>3, <2>2 DEF Lookup!FromServer
<1>5. CASE host.word \in Known /\ Answer(Found(host.word, External))
  <2>1. /\ Found(host.word, External).kind = "reply"
        /\ [word |-> Found(host.word, External).word, found |-> Found(host.word, External).found]
             = Lookup!Found(host.word, External)
    BY DEF Found, Lookup!Found
  <2>2. /\ Reply' = {Lookup!Found(host.word, External)} /\ Passed' = FALSE
        /\ UNCHANGED <<Job, Work, Answered, Lists>>
    BY <1>1, <1>5, <2>1, AnswerReplies
  <2> QED BY <1>1, <1>3, <1>5, <2>2 DEF Lookup!FromServer
<1> QED BY <1>2, <1>4, <1>5

(* What is done about the server, the connection and the maps in between.  *)
LEMMA RefinesNothing ==
  ASSUME IInv,
         \/ Probe \/ LoadFile \/ ReadServer \/ Connect \/ ConnectFails \/ Send
         \/ ReceiveFails \/ Skkserv \/ UNCHANGED vars
  PROVE  UNCHANGED Lookup!vars
<1> USE DEF IInv, Records
<1>1. CASE Probe
  <2>1. UNCHANGED <<dictionaries, child, pipes, history>>
    BY <1>1 DEF Probe
  <2>2. UNCHANGED <<Job, Passed>>
    BY <1>1 DEF Probe, Idle, Job, Passed
  <2> QED BY <2>1, <2>2, Unseen
<1>2. CASE LoadFile
  <2>1. UNCHANGED <<host, child, toChild, fromChild, requests, swallowed>> /\ ~ready /\ ~ready'
    BY <1>2 DEF LoadFile, pipes, history
  <2>2. Lists' = Lists
    BY <2>1 DEF Lists
  <2> QED BY <2>1, <2>2 DEF Job, Work, Passed, Reply, Answered, Lookup!vars
<1>3. CASE ReadServer
  <2>1. QuestionInFlight /\ host.at = "read"
    BY <1>3, QuestionAsked DEF ReadServer
  <2>2. host'.at = "lookup" /\ host'.id = host.id
    BY <1>3, ReadServerStarts
  <2>3. /\ toChild' = toChild /\ fromChild' = <<>>
        /\ UNCHANGED <<dictionaries, child, requests, swallowed>>
    BY <1>3, <2>1, OneLine DEF ReadServer, QuestionInFlight, Single, history
  <2>4. Lists' = Lists
    BY <2>3, ListsKept
  <2>5. UNCHANGED <<Job, Work, Passed, Reply>>
    BY <2>1, <2>2, <2>3 DEF Job, Work, Passed, Reply
  <2>6. Answered' = Answered
    BY <2>1, <2>3 DEF Answered, QuestionInFlight
  <2> QED BY <2>3, <2>4, <2>5, <2>6 DEF Lookup!vars
<1>4. CASE Connect \/ ConnectFails \/ Send \/ ReceiveFails
  <2>1. UNCHANGED <<dictionaries, child, pipes, history>>
    BY <1>4 DEF Connect, ConnectFails, Send, ReceiveFails
  <2>2. /\ host.at \in {"attempt", "recv"} /\ host'.at \in {"attempt", "recv"}
        /\ host'.id = host.id
    BY <1>4 DEF Connect, Send, ConnectFails, ReceiveFails, NextAttempt, Attempt, HostRecord
  <2>3. UNCHANGED <<Job, Passed>>
    BY <2>2 DEF Job, Passed
  <2> QED BY <2>1, <2>3, Unseen
<1>5. CASE Skkserv \/ UNCHANGED vars
  <2>1. UNCHANGED <<dictionaries, child, pipes, history, host>>
    BY <1>5 DEF Skkserv, ServerAnswers, ServerStops, ServerStarts, CooldownEnds, vars
  <2>2. UNCHANGED <<Job, Passed>>
    BY <2>1 DEF Job, Passed
  <2> QED BY <2>1, <2>2, Unseen
<1> QED BY <1>1, <1>2, <1>3, <1>4, <1>5

LEMMA RefinesNext ==
  ASSUME IInv, [Next]_vars  PROVE [Lookup!Next]_Lookup!vars
BY RefinesRequest, RefinesPublish, RefinesBegin, RefinesAsk, RefinesAnswer,
   RefinesTake, RefinesReturn, RefinesAbandon, RefinesFromFiles, RefinesPass,
   RefinesFromServer, RefinesNothing, Zenon
   DEF Next, Loader, Relay, Child, Lookup!Next

(* Two pipes, a loader thread, a connection and a server that stops and    *)
(* starts do what WordLookup does in single steps: one question at a time, *)
(* in its request, answered from the readable files or else the server.    *)
THEOREM RelayImplementsLookup == Spec => QuestionsAreAnswered
<1>1. Init => Lookup!Init
  BY RefinesInit
<1>2. IInv /\ [Next]_vars => [Lookup!Next]_Lookup!vars
  BY RefinesNext
<1> QED BY <1>1, <1>2, TurnInvariant, PTL DEF Spec, QuestionsAreAnswered, Lookup!Spec
=============================================================================
