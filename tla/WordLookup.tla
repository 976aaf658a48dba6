----------------------------- MODULE WordLookup -----------------------------
(***************************************************************************)
(* What the host's Dispatch promises the engine child and its clients: one *)
(* request at a time, and inside it one question about a word at a time.   *)
(* A question is answered from the union of the readable dictionary files  *)
(* or, when they lack the word, by what the server has or by "not found".  *)
(* A request gets the child's answer to itself; the exception is the one   *)
(* that follows an abandoned request and that the child takes for the      *)
(* answer it was still waiting for.                                        *)
(***************************************************************************)
EXTENDS Naturals

CONSTANTS
  Word,      (* words that are looked up                                   *)
  NoWord,    (* no word                                                    *)
  Unions,    (* what the files may come to, each a list for every word     *)
  Known,     (* words the server has                                       *)
  Served     (* what the server answers then                               *)

VARIABLES
  lists,     \* the lists of the files, empty before they are published
  last, job, \* requests so far, and the one that is waited for or 0
  work,      \* the request the child works on, or 0
  word,      \* the word the child waits for
  passed,    \* the files do not have it
  reply,     \* the reply that the child has not taken yet, at most one
  answer,    \* the request the child has answered, or 0
  missed     \* the requests that the child took for a reply

vars == <<lists, last, job, work, word, passed, reply, answer, missed>>

NoLists == [w \in Word |-> <<>>]
NotFound == [word |-> NoWord, found |-> <<>>]
Found(w, list) == [word |-> w, found |-> list]

Init ==
  /\ lists = NoLists /\ last = 0 /\ job = 0 /\ work = 0
  /\ word = NoWord /\ passed = FALSE /\ reply = {} /\ answer = 0 /\ missed = {}

Publish ==
  /\ lists = NoLists /\ lists' \in Unions
  /\ UNCHANGED <<last, job, work, word, passed, reply, answer, missed>>

(* The child works on the request that is waited for, or in its place.     *)
InTurn == job # 0 /\ work # 0 /\ (work = job \/ job \in missed) /\ answer = 0

Request ==
  /\ job = 0
  /\ last' = last + 1 /\ job' = last + 1
  /\ UNCHANGED <<lists, work, word, passed, reply, answer, missed>>

Begin ==
  /\ job # 0 /\ work = 0 /\ word = NoWord /\ answer = 0
  /\ work' = job
  /\ UNCHANGED <<lists, last, job, word, passed, reply, answer, missed>>

Ask ==
  /\ InTurn /\ word = NoWord
  /\ word' \in Word
  /\ UNCHANGED <<lists, last, job, work, passed, reply, answer, missed>>

(* The files, and then the server.                                         *)
FromFiles ==
  /\ InTurn /\ word # NoWord /\ reply = {} /\ ~passed
  /\ lists[word] # <<>> /\ reply' = {Found(word, lists[word])}
  /\ UNCHANGED <<lists, last, job, work, word, passed, answer, missed>>

Pass ==
  /\ InTurn /\ word # NoWord /\ reply = {} /\ ~passed
  /\ lists[word] = <<>> /\ passed' = TRUE
  /\ UNCHANGED <<lists, last, job, work, word, reply, answer, missed>>

FromServer ==
  /\ passed /\ passed' = FALSE
  /\ \/ reply' = {NotFound}
     \/ word \in Known /\ reply' = {Found(word, Served)}
  /\ UNCHANGED <<lists, last, job, work, word, answer, missed>>

Take ==
  /\ InTurn /\ reply # {}
  /\ reply' = {} /\ word' = NoWord
  /\ UNCHANGED <<lists, last, job, work, passed, answer, missed>>

Answer ==
  /\ InTurn /\ word = NoWord
  /\ answer' = work /\ work' = 0
  /\ UNCHANGED <<lists, last, job, word, passed, reply, missed>>

Return ==
  /\ answer # 0 /\ (answer = job \/ job \in missed)
  /\ job' = 0 /\ answer' = 0
  /\ UNCHANGED <<lists, last, work, word, passed, reply, missed>>

(* The host gives a request up while the child waits for a word.           *)
Abandon ==
  /\ InTurn /\ word # NoWord /\ reply = {} /\ ~passed
  /\ job' = 0
  /\ UNCHANGED <<lists, last, work, word, passed, reply, answer, missed>>

Miss ==
  /\ job # 0 /\ job \notin missed /\ work \notin {0, job}
  /\ word # NoWord /\ reply = {} /\ ~passed
  /\ missed' = missed \cup {job} /\ word' = NoWord
  /\ UNCHANGED <<lists, last, job, work, passed, reply, answer>>

Next ==
  \/ Publish \/ Request \/ Begin \/ Ask \/ FromFiles \/ Pass \/ FromServer
  \/ Take \/ Answer \/ Return \/ Abandon \/ Miss

Spec == Init /\ [][Next]_vars
=============================================================================
