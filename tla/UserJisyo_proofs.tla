-------------------------- MODULE UserJisyo_proofs --------------------------
(* Proofs about the personal dictionary, for any number of readings and    *)
(* words, any batch size and journals of any length.                       *)
EXTENDS UserJisyo, SequenceTheorems, SetInduction, TLAPS

-----------------------------------------------------------------------------
(* Removing a word from a list.                                            *)

Distinct(list) == \A i, k \in 1..Len(list) : i # k => list[i] # list[k]

(* The loop of RemoveEqual has a value after every round, the next one     *)
(* computed from the one before.                                           *)
LEMMA RemovalLoop ==
  ASSUME NEW c, NEW S, NEW list \in Seq(S)
  PROVE  \E out : /\ out = [n \in 0..Len(list) |->
                       IF n = 0 THEN <<>>
                       ELSE IF list[n] = c THEN out[n - 1]
                       ELSE Append(out[n - 1], list[n])]
                  /\ RemoveEqual(c, list) = out[Len(list)]
<1> DEFINE size == Len(list)
           Round(g, n) == IF n = 0 THEN <<>>
                          ELSE IF list[n] = c THEN g[n - 1]
                          ELSE Append(g[n - 1], list[n])
           step == [n \in 1..size |-> [rest \in Seq(S) |->
                      IF list[n] = c THEN rest ELSE Append(rest, list[n])]]
<1>1. size \in Nat /\ \A n \in 1..size : list[n] \in S
  BY LenProperties, ElementOfSeq
<1>2. <<>> \in Seq(S)
  BY EmptySeq
<1>3. step \in [1..size -> [Seq(S) -> Seq(S)]]
  BY <1>1, AppendProperties
<1> HIDE DEF size, step
<1>4. PICK g : IsLoop(Seq(S), <<>>, size, step, g)
  BY <1>1, <1>2, <1>3, LoopHasValues
<1>5. ASSUME NEW n \in 0..size PROVE g[n] = Round(g, n)
  <2>1. CASE n = 0
    BY <1>4, <2>1 DEF IsLoop
  <2>2. CASE n # 0
    <3>1. n \in 1..size /\ n - 1 \in 0..size
      BY <1>1, <2>2
    <3>2. g[n] = step[n][g[n - 1]] /\ g[n - 1] \in Seq(S)
      BY <1>4, <3>1 DEF IsLoop
    <3> QED BY <2>2, <3>1, <3>2 DEF step
  <2> QED BY <2>1, <2>2
<1>6. g = [n \in 0..size |-> Round(g, n)]
  <2>1. g = [n \in 0..size |-> g[n]]
    BY <1>4 DEF IsLoop
  <2> QED BY <1>5, <2>1
<1> DEFINE out == CHOOSE f : f = [n \in 0..size |-> Round(f, n)]
<1>7. out = [n \in 0..size |-> Round(out, n)]
  <2>1. \E f : f = [n \in 0..size |-> Round(f, n)]
    BY <1>6
  <2> QED BY <2>1
<1>8. RemoveEqual(c, list) = out[Len(list)]
  BY DEF RemoveEqual, size
<1> QED BY <1>7, <1>8 DEF size

(* What is left is a list of the same words without the one removed, and   *)
(* distinct if they were.                                                  *)
LEMMA Removal ==
  ASSUME NEW c, NEW S, NEW list \in Seq(S)
  PROVE  /\ RemoveEqual(c, list) \in Seq(S)
         /\ \A i \in 1..Len(RemoveEqual(c, list)) : RemoveEqual(c, list)[i] # c
         /\ Distinct(list) => Distinct(RemoveEqual(c, list))
<1>1. PICK out : /\ out = [n \in 0..Len(list) |->
                       IF n = 0 THEN <<>>
                       ELSE IF list[n] = c THEN out[n - 1]
                       ELSE Append(out[n - 1], list[n])]
                 /\ RemoveEqual(c, list) = out[Len(list)]
  BY RemovalLoop
<1> DEFINE Good(n) ==
             /\ out[n] \in Seq(S)
             /\ \A i \in 1..Len(out[n]) : out[n][i] # c /\ \E k \in 1..n : out[n][i] = list[k]
             /\ Distinct(list) => Distinct(out[n])
           Rounds == {n \in Nat : n <= Len(list) => Good(n)}
<1>2. 0 \in Rounds
  <2>1. Len(list) \in Nat /\ out[0] = <<>>
    BY <1>1
  <2>2. Good(0)
    BY <2>1 DEF Distinct
  <2> QED BY <2>2
<1>3. ASSUME NEW n \in Nat, n \in Rounds PROVE n + 1 \in Rounds
  <2> SUFFICES ASSUME n + 1 <= Len(list) PROVE Good(n + 1)
    OBVIOUS
  <2>1. Good(n) /\ n + 1 \in 1..Len(list)
    BY <1>3
  <2>2. out[n + 1] = IF list[n + 1] = c THEN out[n] ELSE Append(out[n], list[n + 1])
    <3>1. n + 1 \in 0..Len(list) /\ n + 1 # 0 /\ (n + 1) - 1 = n
      BY <2>1
    <3> QED BY <1>1, <3>1
  <2>3. CASE list[n + 1] = c
    BY <2>1, <2>2, <2>3
  <2>4. CASE list[n + 1] # c
    <3> DEFINE old == out[n]
               new == out[n + 1]
    <3>1. /\ new \in Seq(S) /\ Len(new) = Len(old) + 1 /\ Len(old) \in Nat
          /\ \A i \in 1..Len(old) : new[i] = old[i]
          /\ new[Len(old) + 1] = list[n + 1]
      BY <2>1, <2>2, <2>4, AppendProperties
    <3> HIDE DEF old, new
    <3>2. \A i \in 1..Len(new) : new[i] # c /\ \E k \in 1..(n + 1) : new[i] = list[k]
      <4> SUFFICES ASSUME NEW i \in 1..Len(new)
                   PROVE  new[i] # c /\ \E k \in 1..(n + 1) : new[i] = list[k]
        OBVIOUS
      <4>1. CASE i \in 1..Len(old)
        <5>1. old[i] # c /\ \E k \in 1..n : old[i] = list[k]
          BY <2>1, <4>1 DEF old
        <5>2. new[i] = old[i]
          BY <3>1, <4>1
        <5> QED BY <5>1, <5>2
      <4>2. CASE i = Len(old) + 1
        BY <2>4, <3>1, <4>2
      <4> QED BY <3>1, <4>1, <4>2
    <3>3. ASSUME Distinct(list) PROVE Distinct(new)
      <4>1. \A i \in 1..Len(old) : old[i] # list[n + 1]
        BY <2>1, <3>3 DEF Distinct, old
      <4>2. Distinct(old)
        BY <2>1, <3>3 DEF old
      <4> QED BY <3>1, <4>1, <4>2 DEF Distinct
    <3> QED BY <3>1, <3>2, <3>3 DEF new
  <2> QED BY <2>3, <2>4
<1>4. Good(Len(list))
  <2>1. \A n \in Nat : n \in Rounds
    <3> HIDE DEF Rounds
    <3> QED BY <1>2, <1>3, NumbersBySuccessor
  <2> QED BY <2>1
<1> QED BY <1>1, <1>4

-----------------------------------------------------------------------------
(* Replaying a journal.                                                    *)

IsTable(words) == words = [m \in Midasi |-> words[m]]

(* A journal that every line of reached the disk whole.                    *)
IsJournal(text) ==
  /\ \E S : text \in Seq(S)
  /\ \A i \in 1..Len(text) : text[i].ended

(* An empty journal changes nothing.                                       *)
LEMMA ReplayNothing ==
  ASSUME NEW words, IsTable(words)
  PROVE  Replayed(words, <<>>) = words
<1>1. \A m : ~\E i \in 1..Len(<<>>) : LastEntry(<<>>, m, i)
  BY DEF LastEntry
<1> QED BY <1>1 DEF Replayed, IsTable

(* A reading the journal mentions is loaded from it, any other from the    *)
(* base file.                                                              *)
LEMMA ReplayPicks ==
  ASSUME NEW old, NEW new, NEW text, NEW m \in Midasi
  PROVE  Replayed(new, text)[m] \in {Replayed(old, text)[m], new[m]}
BY DEF Replayed

(* One more line replaces the entry of its own reading and no other.       *)
LEMMA ReplayAppend ==
  ASSUME NEW words, NEW text, IsJournal(text),
         NEW r \in Midasi, NEW list, list # <<>>
  PROVE  /\ Appended(text, Line(r, list)) = Append(text, Line(r, list))
         /\ Replayed(words, Append(text, Line(r, list)))
              = [Replayed(words, text) EXCEPT ![r] = list]
<1> DEFINE line == Line(r, list)
           more == Append(text, line)
<1>1. PICK S : text \in Seq(S)
  BY DEF IsJournal
<1>2. text \in Seq(S \cup {line})
  BY <1>1, SeqMonotonic
<1>3. /\ Len(text) \in Nat
      /\ Len(more) = Len(text) + 1
      /\ \A i \in 1..Len(text) : more[i] = text[i]
      /\ more[Len(text) + 1] = line
  BY <1>2, AppendProperties, LenProperties
<1>4. Appended(text, line) = more
  <2>1. text = <<>> \/ Len(text) \in 1..Len(text)
    BY <1>1, <1>3, EmptySeq
  <2> QED BY <2>1 DEF Appended, IsJournal
<1>5. Entry(line, r) /\ \A m : m # r => ~Entry(line, m)
  BY DEF Entry, Line
<1> HIDE DEF line, more
<1>6. \A i : LastEntry(more, r, i) <=> i = Len(text) + 1
  BY <1>3, <1>5 DEF LastEntry
<1>7. ASSUME NEW m, m # r
      PROVE  \A i : LastEntry(more, m, i) <=> LastEntry(text, m, i)
  BY <1>3, <1>5, <1>7 DEF LastEntry
<1>8. Replayed(words, more)[r] = list
  <2>1. (CHOOSE i \in 1..Len(more) : LastEntry(more, r, i)) = Len(text) + 1
    BY <1>3, <1>6
  <2>2. \E i \in 1..Len(more) : LastEntry(more, r, i)
    BY <1>3, <1>6
  <2>3. more[Len(text) + 1].list = list
    BY <1>3 DEF line, Line
  <2> QED BY <2>1, <2>2, <2>3 DEF Replayed
<1>9. ASSUME NEW m \in Midasi, m # r
      PROVE  Replayed(words, more)[m] = Replayed(words, text)[m]
  <2>1. (\E i \in 1..Len(more) : LastEntry(more, m, i))
          <=> \E i \in 1..Len(text) : LastEntry(text, m, i)
    BY <1>3, <1>7, <1>9 DEF LastEntry
  <2>2. CASE ~\E i \in 1..Len(text) : LastEntry(text, m, i)
    BY <2>1, <2>2 DEF Replayed
  <2>3. CASE \E i \in 1..Len(text) : LastEntry(text, m, i)
    <3>1. \A i, k : LastEntry(text, m, i) /\ LastEntry(text, m, k) => i = k
      BY <1>3 DEF LastEntry
    <3>2. PICK last \in 1..Len(text) : LastEntry(text, m, last)
      BY <2>3
    <3>3. (CHOOSE i \in 1..Len(text) : LastEntry(text, m, i)) = last
      BY <3>1, <3>2
    <3>4. LastEntry(more, m, last) /\ last \in 1..Len(more)
      BY <1>3, <1>7, <1>9, <3>2
    <3>5. (CHOOSE i \in 1..Len(more) : LastEntry(more, m, i)) = last
      BY <1>7, <1>9, <3>1, <3>2, <3>4
    <3>6. more[last] = text[last]
      BY <1>3, <3>2
    <3> QED BY <2>1, <2>3, <3>3, <3>5, <3>6 DEF Replayed
  <2> QED BY <2>2, <2>3
<1>10. /\ Replayed(words, more) = [m \in Midasi |-> Replayed(words, more)[m]]
       /\ Replayed(words, text) = [m \in Midasi |-> Replayed(words, text)[m]]
  BY DEF Replayed
<1> QED BY <1>4, <1>8, <1>9, <1>10 DEF line, more

-----------------------------------------------------------------------------
(* The invariant.                                                          *)

(* A save that was verified left the table in the base file.               *)
SavedWhenEmptying ==
  /\ IsTable(table)
  /\ IsTable(base)
  /\ phase = "emptying" => base = table

(* Both files are tables, and a verified save stays one until the journal  *)
(* is emptied: nothing is learned in between.                              *)
LEMMA SavedInit == Init => SavedWhenEmptying
BY DEF Init, SavedWhenEmptying, IsTable, Blank

(* Every step of the engine keeps it so, whatever goes wrong with a file.  *)
LEMMA SavedNext ==
  ASSUME SavedWhenEmptying, [Next]_vars  PROVE SavedWhenEmptying'
<1> USE DEF SavedWhenEmptying, IsTable
<1>1. ASSUME NEW m \in Midasi, NEW c \in Candidate,
             Confirm(m, c) \/ Purge(m, c)
      PROVE  SavedWhenEmptying'
  BY <1>1 DEF Confirm, Purge
<1>2. CASE WriteJournal
  BY <1>2 DEF WriteJournal
<1>3. CASE Compact
  BY <1>3 DEF Compact
<1>4. CASE OpenBase
  BY <1>4 DEF OpenBase, Blank
<1>5. CASE WriteBase
  <2>1. ASSUME NEW words \in CutTable(table)  PROVE IsTable(words)
    BY <2>1 DEF CutTable, UpTo
  <2> QED BY <1>5, <2>1 DEF WriteBase
<1>6. CASE Verify
  BY <1>6 DEF Verify, Saved
<1>7. CASE EmptyJournal
  BY <1>7 DEF EmptyJournal
<1>8. CASE Killed
  BY <1>8 DEF Killed, Blank
<1>9. CASE Load
  <2>1. \A words, text : IsTable(Replayed(words, text))
    BY DEF Replayed
  <2>2. table' = [m \in Midasi |-> table'[m]]
    BY <1>9, <2>1 DEF Load
  <2> QED BY <1>9, <2>2 DEF Load
<1>10. CASE UNCHANGED vars
  BY <1>10 DEF vars
<1> QED BY <1>1, <1>2, <1>3, <1>4, <1>5, <1>6, <1>7, <1>8, <1>9, <1>10
    DEF Next

(* Whatever goes wrong with the files, the journal is given up only when a *)
(* restart without it loads everything the user has taught.                *)
THEOREM JournalIsGivenUpSafely == Spec => JournalGivenUpWhenSaved
<1> DEFINE Step == phase = "emptying" /\ journal' # journal => OnDisk' = table
<1>1. SavedWhenEmptying /\ [Next]_vars => [Step]_vars
  <2> SUFFICES ASSUME SavedWhenEmptying, [Next]_vars,
                      phase = "emptying", journal' # journal
               PROVE  OnDisk' = table
    OBVIOUS
  <2>1. EmptyJournal
    BY DEF Next, vars, Confirm, Purge, WriteJournal, Compact, OpenBase,
           WriteBase, Verify, Killed, Load
  <2>2. journal' = <<>> /\ base' = table
    BY <2>1 DEF EmptyJournal, SavedWhenEmptying
  <2>3. Replayed(table, <<>>) = table
    BY ReplayNothing DEF SavedWhenEmptying
  <2> QED BY <2>2, <2>3 DEF OnDisk
<1> QED BY <1>1, SavedInit, SavedNext, PTL
    DEF Spec, JournalGivenUpWhenSaved

-----------------------------------------------------------------------------
(* Refinement of LearnedWords, when writes are all or nothing.             *)

(* Every line in the journal, and in the text being written, is whole.     *)
WholeLines == IsJournal(journal) /\ IsJournal(payload)

JisyoInv == SavedWhenEmptying /\ WholeLines

(* An empty file has whole lines only.                                     *)
LEMMA EmptyIsJournal == IsJournal(<<>>)
<1>1. <<>> \in Seq({})
  BY EmptySeq
<1>2. Len(<<>>) = 0
  OBVIOUS
<1> QED BY <1>1, <1>2 DEF IsJournal

(* And so has one with a line more.                                        *)
LEMMA AppendIsJournal ==
  ASSUME NEW text, IsJournal(text), NEW r, NEW list
  PROVE  IsJournal(Append(text, Line(r, list)))
<1> DEFINE line == Line(r, list)
<1>1. PICK S : text \in Seq(S)
  BY DEF IsJournal
<1>2. text \in Seq(S \cup {line})
  BY <1>1, SeqMonotonic
<1>3. /\ Append(text, line) \in Seq(S \cup {line})
      /\ Len(Append(text, line)) = Len(text) + 1
      /\ Len(text) \in Nat
      /\ \A i \in 1..Len(text) : Append(text, line)[i] = text[i]
      /\ Append(text, line)[Len(text) + 1] = line
  BY <1>2, AppendProperties, LenProperties
<1>4. line.ended
  BY DEF Line
<1> HIDE DEF line
<1>5. \A i \in 1..Len(Append(text, line)) : Append(text, line)[i].ended
  BY <1>3, <1>4 DEF IsJournal
<1> QED BY <1>3, <1>5 DEF IsJournal, line

(* A confirmed word heads its list, so the line appended is an entry.      *)
LEMMA ConfirmedIsEntry ==
  ASSUME NEW c, NEW list  PROVE MoveToFront(c, list) # <<>>
BY DEF MoveToFront

(* JisyoInv holds at the start and is kept as long as no write comes up    *)
(* short, no file is unreadable and no kill hits a write.                  *)
LEMMA JisyoInvInit == Init => JisyoInv
BY SavedInit, EmptyIsJournal DEF Init, JisyoInv, WholeLines

(* The files and the table stay well formed, and the journal whole.        *)
LEMMA JisyoInvNext ==
  ASSUME Faults \subseteq {"unopened"}, JisyoInv, [Next]_vars
  PROVE  JisyoInv'
<1>0. SavedWhenEmptying'
  BY SavedNext DEF JisyoInv
<1>a. IsJournal(journal) /\ IsJournal(payload)
  BY DEF JisyoInv, WholeLines
<1> USE <1>0, <1>a DEF JisyoInv, WholeLines, IsJournal
<1>1. ASSUME NEW m \in Midasi, NEW c \in Candidate, Confirm(m, c)
      PROVE  WholeLines'
  <2> DEFINE line == Line(m, MoveToFront(c, table[m]))
  <2>1. CASE UNCHANGED <<journal, payload, phase>>
    BY <2>1
  <2>2. CASE journal' = <<>> /\ payload' = Appended(journal, line)
    <3>1. MoveToFront(c, table[m]) # <<>>
      BY ConfirmedIsEntry
    <3>2. Appended(journal, line) = Append(journal, line)
      BY <1>a, <3>1, ReplayAppend
    <3>3. IsJournal(Append(journal, line))
      BY <1>a, AppendIsJournal
    <3> QED BY <2>2, <3>2, <3>3, EmptyIsJournal
  <2> QED BY <1>1, <2>1, <2>2 DEF Confirm, MayRead
<1>2. ASSUME NEW m \in Midasi, NEW c \in Candidate, Purge(m, c)
      PROVE  WholeLines'
  BY <1>2 DEF Purge
<1>3. CASE WriteJournal
  <2>1. journal' = payload /\ payload' = <<>>
    BY <1>3 DEF WriteJournal
  <2> QED BY <2>1, EmptyIsJournal
<1>4. CASE Compact
  BY <1>4 DEF Compact
<1>5. CASE OpenBase \/ WriteBase
  BY <1>5 DEF OpenBase, WriteBase
<1>6. CASE Verify
  BY <1>6 DEF Verify
<1>7. CASE EmptyJournal
  BY <1>7, EmptyIsJournal DEF EmptyJournal
<1>8. CASE Killed
  BY <1>8, EmptyIsJournal DEF Killed
<1>9. CASE Load
  BY <1>9 DEF Load
<1>10. CASE UNCHANGED vars
  BY <1>10 DEF vars
<1> QED BY <1>0, <1>1, <1>2, <1>3, <1>4, <1>5, <1>6, <1>7, <1>8, <1>9, <1>10
    DEF Next

(* Both modules take a word out of a list in the same way.                 *)
LEMMA SameRemoval ==
  ASSUME NEW c, NEW list
  PROVE  WordStore!Without(c, list) = RemoveEqual(c, list)
BY DEF WordStore!Without, RemoveEqual

(* The initial files are the initial store.                                *)
LEMMA StoreInit == Init => WordStore!Init
<1> SUFFICES ASSUME Init PROVE WordStore!Init
  OBVIOUS
<1>1. Replayed(Blank, <<>>) = Blank
  BY ReplayNothing DEF IsTable, Blank
<1>2. Durable = Blank
  BY <1>1 DEF Init, Durable
<1> QED BY <1>2 DEF Init, WordStore!Init, WordStore!Blank, Blank

(* Every step on the files is a step of the store or leaves it alone.      *)
storeVars == <<table, Durable, phase # "down">>

LEMMA StoreNext ==
  ASSUME Faults \subseteq {"unopened"}, JisyoInv, [Next]_vars
  PROVE  [WordStore!Next]_storeVars
<1> USE DEF JisyoInv, WholeLines, SavedWhenEmptying
<1>1. ASSUME NEW m \in Midasi, NEW c \in Candidate, Confirm(m, c)
      PROVE  WordStore!Learn(m, c)
  <2> DEFINE list == MoveToFront(c, table[m])
  <2>1. table' = [table EXCEPT ![m] = list] /\ base' = base
    BY <1>1 DEF Confirm
  <2>2. list = <<c>> \o WordStore!Without(c, table[m])
    BY SameRemoval DEF MoveToFront
  <2>3. table'[m] = list
    BY <2>1 DEF IsTable
  <2> HIDE DEF list
  <2>4. Durable' \in {Durable, [Durable EXCEPT ![m] = list]}
    <3>1. CASE UNCHANGED <<journal, payload, phase>>
      BY <1>1, <2>1, <3>1 DEF Confirm, Durable
    <3>2. CASE /\ payload' = Appended(journal, Line(m, list))
               /\ phase' = "appending"
      <4>1. list # <<>>
        BY ConfirmedIsEntry DEF list
      <4>2. /\ Appended(journal, Line(m, list)) = Append(journal, Line(m, list))
            /\ Replayed(base, Append(journal, Line(m, list)))
                 = [Replayed(base, journal) EXCEPT ![m] = list]
        BY <4>1, ReplayAppend
      <4>3. Durable = Replayed(base, journal)
        BY <1>1 DEF Confirm, Durable
      <4>4. Durable' = Replayed(base, payload')
        BY <2>1, <3>2 DEF Durable
      <4> QED BY <3>2, <4>2, <4>3, <4>4
    <3> QED BY <1>1, <3>1, <3>2 DEF Confirm, MayRead, list
  <2>5. (phase # "down") /\ (phase' # "down")
    BY <1>1 DEF Confirm
  <2> QED BY <2>1, <2>2, <2>3, <2>4, <2>5 DEF WordStore!Learn
<1>2. ASSUME NEW m \in Midasi, NEW c \in Candidate, Purge(m, c)
      PROVE  WordStore!Forget(m, c)
  <2>1. Durable' = Durable
    BY <1>2 DEF Purge, Durable
  <2>2. table' = [table EXCEPT ![m] = WordStore!Without(c, table[m])]
    BY <1>2, SameRemoval DEF Purge
  <2> QED BY <1>2, <2>1, <2>2 DEF Purge, WordStore!Forget
<1>3. CASE WriteJournal \/ Compact \/ WriteBase \/ Verify \/ UNCHANGED vars
  <2>1. table' = table /\ (phase # "down" <=> phase' # "down")
    BY <1>3 DEF WriteJournal, Compact, WriteBase, Verify, vars
  <2>2. Durable' = Durable
    BY <1>3 DEF WriteJournal, Compact, WriteBase, Verify, vars, Durable
  <2> QED BY <2>1, <2>2 DEF storeVars
<1>4. CASE OpenBase
  <2>1. CASE phase' = "verifying"
    BY <1>4, <2>1 DEF OpenBase, Durable, storeVars
  <2>2. CASE phase' = "overwriting"
    <3>1. Durable = Replayed(base, journal) /\ Durable' = Replayed(table, journal)
      BY <1>4, <2>2 DEF OpenBase, Durable
    <3> DEFINE caught == {m \in Midasi : Durable'[m] = table[m]}
    <3>2. \A m \in Midasi : Durable'[m] \in {Durable[m], table[m]}
      BY <3>1, ReplayPicks
    <3>3. Durable' = [m \in Midasi |-> Durable'[m]]
      BY <3>1 DEF Replayed
    <3>4. Durable' = [m \in Midasi |->
                        IF m \in caught THEN table[m] ELSE Durable[m]]
      BY <3>2, <3>3
    <3>5. caught \in SUBSET Midasi
      OBVIOUS
    <3> QED BY <1>4, <3>4, <3>5 DEF OpenBase, WordStore!Sync, WordStore!Next
  <2> QED BY <1>4, <2>1, <2>2 DEF OpenBase
<1>5. CASE EmptyJournal
  <2>1. CASE UNCHANGED journal
    BY <1>5, <2>1 DEF EmptyJournal, Durable, storeVars
  <2>2. CASE journal' = <<>>
    <3>1. Durable' = Replayed(base, <<>>)
      BY <1>5, <2>2 DEF EmptyJournal, Durable
    <3>2. Durable' = table
      BY <1>5, <3>1, ReplayNothing DEF EmptyJournal
    <3>3. Durable' = [m \in Midasi |->
                        IF m \in Midasi THEN table[m] ELSE Durable[m]]
      BY <3>2 DEF IsTable
    <3>4. Midasi \in SUBSET Midasi
      OBVIOUS
    <3> QED BY <1>5, <3>3, <3>4
        DEF EmptyJournal, WordStore!Sync, WordStore!Next
  <2> QED BY <1>5, <2>1, <2>2 DEF EmptyJournal
<1>6. CASE Killed
  <2>1. phase \notin {"appending", "overwriting"}
    BY <1>6 DEF Killed
  <2>2. Durable' = Durable
    BY <1>6, <2>1 DEF Killed, Durable
  <2> QED BY <1>6, <2>2
      DEF Killed, Blank, WordStore!Stop, WordStore!Next, WordStore!Blank
<1>7. CASE Load
  <2>1. table' = Replayed(base, journal)
    BY <1>7 DEF Load, MayRead
  <2>2. Durable = Replayed(base, journal) /\ Durable' = Durable
    BY <1>7 DEF Load, Durable
  <2> QED BY <1>7, <2>1, <2>2 DEF Load, WordStore!Start, WordStore!Next
<1> QED BY <1>1, <1>2, <1>3, <1>4, <1>5, <1>6, <1>7 DEF Next, WordStore!Next

(* As long as writes are all or nothing, a crash between any two of them   *)
(* and any number of failed ones cost the user at most the last change of  *)
(* a word, and never touch another word.                                   *)
THEOREM DictionaryIsDurable ==
  ASSUME Faults \subseteq {"unopened"}
  PROVE  Spec => WordByWord
<1>1. JisyoInv /\ [Next]_vars => JisyoInv'
  BY JisyoInvNext
<1>2. JisyoInv /\ [Next]_vars => [WordStore!Next]_storeVars
  BY StoreNext
<1> QED BY <1>1, <1>2, JisyoInvInit, StoreInit, PTL
    DEF Spec, WordByWord, WordStore!Spec, storeVars

-----------------------------------------------------------------------------
(* Type correctness, whatever goes wrong with the files.                   *)

(* The lines of a file whose words come from lists in L.                   *)
Lines(L) == [midasi : Midasi \cup {Garbled}, list : L, ended : BOOLEAN]

(* Loading gives every reading a list that is in one of the files.         *)
LEMMA ReplayedLists ==
  ASSUME NEW L, NEW words \in [Midasi -> L], NEW text \in Seq(Lines(L))
  PROVE  Replayed(words, text) \in [Midasi -> L]
<1> SUFFICES ASSUME NEW m \in Midasi PROVE Replayed(words, text)[m] \in L
  BY DEF Replayed
<1>1. CASE \E i \in 1..Len(text) : LastEntry(text, m, i)
  <2> DEFINE last == CHOOSE i \in 1..Len(text) : LastEntry(text, m, i)
  <2>1. last \in 1..Len(text)
    BY <1>1
  <2>2. Replayed(words, text)[m] = text[last].list
    BY <1>1 DEF Replayed
  <2> HIDE DEF last
  <2>3. text[last] \in Lines(L)
    BY <2>1, ElementOfSeq
  <2> QED BY <2>2, <2>3 DEF Lines
<1>2. CASE ~\E i \in 1..Len(text) : LastEntry(text, m, i)
  BY <1>2 DEF Replayed
<1> QED BY <1>1, <1>2

(* An unreadable file is taken for an empty one.                           *)
LEMMA MayReadLists ==
  ASSUME NEW S, NEW text \in S, NEW nothing \in S
  PROVE  MayRead(text, nothing) \subseteq S
BY DEF MayRead

(* A list cut short is a list of words and of what is left of one.         *)
LEMMA CutListType ==
  ASSUME NEW list \in Seq(Word)  PROVE CutList(list) \subseteq Seq(Word)
<1>1. Len(list) \in Nat /\ <<Fragment>> \in Seq(Word)
  BY LenProperties DEF Word
<1>2. ASSUME NEW n \in 0..Len(list) PROVE SubSeq(list, 1, n) \in Seq(Word)
  <2>1. \A i \in 1..n : list[i] \in Word
    BY <1>1, ElementOfSeq
  <2> QED BY <1>1, <2>1, SubSeqProperties
<1>3. ASSUME NEW n \in 0..(Len(list) - 1)
      PROVE  SubSeq(list, 1, n) \o <<Fragment>> \in Seq(Word)
  <2>1. SubSeq(list, 1, n) \in Seq(Word)
    BY <1>1, <1>2
  <2> QED BY <1>1, <2>1, ConcatProperties
<1> QED BY <1>2, <1>3 DEF CutList

(* A file cut short is a file, its last line without a newline.            *)
LEMMA CutTextType ==
  ASSUME NEW text \in Seq(Lines(Seq(Word)))
  PROVE  CutText(text) \subseteq Seq(Lines(Seq(Word)))
<1> DEFINE T == Lines(Seq(Word))
<1>1. Len(text) \in Nat
  BY LenProperties
<1>2. ASSUME NEW n \in 0..Len(text) PROVE SubSeq(text, 1, n) \in Seq(T)
  <2>1. \A i \in 1..n : text[i] \in T
    BY <1>1, ElementOfSeq
  <2> HIDE DEF T
  <2> QED BY <1>1, <2>1, SubSeqProperties
<1>3. ASSUME NEW line \in T, NEW cut \in CutLine(line) PROVE cut \in T
  <2>1. [midasi |-> Garbled, list |-> <<>>, ended |-> FALSE] \in T
    <3>1. <<>> \in Seq(Word)
      BY EmptySeq
    <3> QED BY <3>1 DEF Lines
  <2>2. ASSUME NEW list \in CutList(line.list)
        PROVE  [line EXCEPT !.list = list, !.ended = FALSE] \in T
    <3>1. line.list \in Seq(Word)
      BY DEF Lines
    <3>2. list \in Seq(Word)
      BY <3>1, CutListType
    <3> QED BY <3>2 DEF Lines
  <2> QED BY <2>1, <2>2 DEF CutLine
<1>4. ASSUME NEW n \in 1..Len(text), NEW cut \in CutLine(text[n])
      PROVE  SubSeq(text, 1, n - 1) \o <<cut>> \in Seq(T)
  <2>1. text[n] \in T
    BY <1>1, ElementOfSeq
  <2>2. cut \in T
    BY <1>3, <2>1
  <2>3. SubSeq(text, 1, n - 1) \in Seq(T)
    BY <1>1, <1>2
  <2> HIDE DEF T
  <2>4. <<cut>> \in Seq(T)
    BY <2>2
  <2> QED BY <2>3, <2>4, ConcatProperties
<1>5. ASSUME NEW n \in 1..Len(text)
      PROVE  {SubSeq(text, 1, n - 1) \o <<cut>> : cut \in CutLine(text[n])}
               \subseteq Seq(T)
  BY <1>4
<1>6. {SubSeq(text, 1, n) : n \in 0..(Len(text) - 1)} \subseteq Seq(T)
  BY <1>1, <1>2
<1> HIDE DEF T
<1>7. CutText(text) \subseteq Seq(T)
  BY <1>5, <1>6, Zenon DEF CutText
<1> QED BY <1>7 DEF T

(* A base file cut short is one with fewer words.                          *)
LEMMA CutTableType ==
  ASSUME NEW words \in [Midasi -> Seq(Word)]
  PROVE  CutTable(words) \subseteq [Midasi -> Seq(Word)]
<1>1. \A last \in Midasi : CutList(words[last]) \subseteq Seq(Word)
  BY CutListType
<1>2. <<>> \in Seq(Word)
  BY EmptySeq
<1> SUFFICES ASSUME NEW cut \in CutTable(words)
             PROVE  cut \in [Midasi -> Seq(Word)]
  OBVIOUS
<1>3. PICK last \in Midasi :
        cut \in {UpTo(words, whole, last, rest) :
                   whole \in SUBSET Midasi, rest \in CutList(words[last])}
  BY DEF CutTable
<1>4. PICK whole \in SUBSET Midasi :
        \E rest \in CutList(words[last]) : cut = UpTo(words, whole, last, rest)
  BY <1>3
<1>5. PICK rest \in CutList(words[last]) : cut = UpTo(words, whole, last, rest)
  BY <1>4
<1>6. rest \in Seq(Word)
  BY <1>1
<1>7. \A m \in Midasi : words[m] \in Seq(Word)
  OBVIOUS
<1> QED BY <1>2, <1>5, <1>6, <1>7 DEF UpTo

(* A line appended, be it to the end of one that was cut, makes a file of  *)
(* lines that is not empty.                                                *)
LEMMA AppendedType ==
  ASSUME NEW text \in Seq(Lines(Seq(Word))),
         NEW r \in Midasi, NEW list \in Seq(Word)
  PROVE  /\ Appended(text, Line(r, list)) \in Seq(Lines(Seq(Word)))
         /\ Appended(text, Line(r, list)) # <<>>
<1> DEFINE T == Lines(Seq(Word))
           line == Line(r, list)
<1>1. line \in T
  BY DEF Lines, Line
<1>2. CASE text = <<>> \/ text[Len(text)].ended
  <2>1. Appended(text, line) = Append(text, line)
    BY <1>2 DEF Appended
  <2> HIDE DEF T, line
  <2>2. Append(text, line) \in Seq(T) /\ Append(text, line) # <<>>
    BY <1>1, AppendProperties DEF T
  <2> QED BY <2>1, <2>2 DEF T, line
<1>3. CASE ~(text = <<>> \/ text[Len(text)].ended)
  <2> DEFINE cut == text[Len(text)]
  <2>1. Len(text) \in 1..Len(text) /\ Len(text) \in Nat
    BY <1>3, EmptySeq, LenProperties
  <2>2. cut \in T
    BY <2>1, ElementOfSeq
  <2>3. Continued(cut, line) \in T
    <3> DEFINE glue == IF Fragment \in {cut.list[i] : i \in 1..Len(cut.list)}
                       THEN <<>> ELSE <<Fragment>>
    <3>1. cut.list \in Seq(Word) /\ cut.midasi \in Midasi \cup {Garbled}
      BY <2>2 DEF Lines
    <3>2. glue \in Seq(Word)
      <4>1. <<>> \in Seq(Word) /\ <<Fragment>> \in Seq(Word)
        BY EmptySeq DEF Word
      <4> QED BY <4>1, Zenon
    <3> HIDE DEF glue
    <3>3. cut.list \o glue \in Seq(Word)
      BY <3>1, <3>2, ConcatProperties
    <3>4. line.list \in Seq(Word)
      BY DEF Line
    <3> HIDE DEF line, cut
    <3>5. (cut.list \o glue) \o line.list \in Seq(Word)
      BY <3>3, <3>4, ConcatProperties
    <3>6. Continued(cut, line)
            = Line(cut.midasi, (cut.list \o glue) \o line.list)
      BY DEF Continued, glue
    <3> QED BY <3>1, <3>5, <3>6 DEF Line, Lines
  <2>4. Appended(text, line) = [text EXCEPT ![Len(text)] = Continued(cut, line)]
    BY <1>3 DEF Appended
  <2> DEFINE more == Continued(cut, line)
  <2> HIDE DEF T, line, more
  <2>5. [text EXCEPT ![Len(text)] = more] \in Seq(T)
         /\ Len([text EXCEPT ![Len(text)] = more]) = Len(text)
    BY <2>1, <2>3, ExceptSeq DEF T, more
  <2>6. [text EXCEPT ![Len(text)] = more] # <<>>
    BY <2>1, <2>5, EmptySeq
  <2> QED BY <2>4, <2>5, <2>6 DEF T, line, more
<1> QED BY <1>2, <1>3

(* TypeOK with the files as sequences of lines.                            *)
TypeInv ==
  /\ table \in [Midasi -> Seq(Word)]
  /\ base \in [Midasi -> Seq(Word)]
  /\ pending \in 0..Cap
  /\ journal \in Seq(Lines(Seq(Word)))
  /\ payload \in Seq(Lines(Seq(Word)))
  /\ phase \in {"down", "idle", "appending", "saving", "overwriting",
                "verifying", "emptying"}
  /\ payload # <<>> <=> phase = "appending"

(* It is TypeOK.                                                           *)
LEMMA TypeInvIsType == TypeInv => TypeOK
<1> SUFFICES ASSUME TypeInv,
                    NEW text \in {journal, payload}, NEW i \in 1..Len(text)
             PROVE  /\ text[i].midasi \in Midasi \cup {Garbled}
                    /\ text[i].list \in Seq(Word)
                    /\ text[i].ended \in BOOLEAN
  BY DEF TypeInv, TypeOK
<1>1. text[i] \in Lines(Seq(Word))
  BY ElementOfSeq DEF TypeInv
<1> QED BY <1>1 DEF Lines

(* Nothing is learned and no file exists at the start.                     *)
LEMMA TypeInvInit == Init => TypeInv
<1>1. <<>> \in Seq(Word) /\ <<>> \in Seq(Lines(Seq(Word)))
  BY EmptySeq
<1> QED BY <1>1, JisyoAssumption DEF Init, TypeInv, Blank

(* Every step keeps the types, whatever goes wrong with a file.            *)
LEMMA TypeInvNext ==
  ASSUME TypeInv, [Next]_vars  PROVE TypeInv'
<1>a. /\ <<>> \in Seq(Word) /\ <<>> \in Seq(Lines(Seq(Word)))
      /\ Blank \in [Midasi -> Seq(Word)]
  BY EmptySeq DEF Blank
<1> USE JisyoAssumption DEF TypeInv
<1>1. ASSUME NEW m \in Midasi, NEW c \in Candidate, Confirm(m, c)
      PROVE  TypeInv'
  <2> DEFINE list == MoveToFront(c, table[m])
  <2>1. list \in Seq(Word)
    <3>1. RemoveEqual(c, table[m]) \in Seq(Word)
      BY Removal
    <3>2. <<c>> \in Seq(Word)
      BY DEF Word
    <3> QED BY <3>1, <3>2, ConcatProperties DEF MoveToFront
  <2> HIDE DEF list
  <2>2. /\ table' = [table EXCEPT ![m] = list] /\ base' = base
        /\ pending' = pending + 1 /\ pending < Cap /\ phase = "idle"
    BY <1>1 DEF Confirm, list
  <2>3. table' \in [Midasi -> Seq(Word)] /\ pending' \in 0..Cap
    BY <2>1, <2>2
  <2>4. CASE UNCHANGED <<journal, payload, phase>>
    BY <2>2, <2>3, <2>4
  <2>5. ASSUME NEW text \in MayRead(journal, <<>>),
               payload' = Appended(text, Line(m, list)),
               journal' = <<>>, phase' = "appending"
        PROVE  TypeInv'
    <3>1. text \in Seq(Lines(Seq(Word)))
      BY <1>a, MayReadLists
    <3>2. payload' \in Seq(Lines(Seq(Word))) /\ payload' # <<>>
      BY <2>1, <2>5, <3>1, AppendedType
    <3> QED BY <1>a, <2>2, <2>3, <2>5, <3>2
  <2> QED BY <1>1, <2>4, <2>5 DEF Confirm, list
<1>2. ASSUME NEW m \in Midasi, NEW c \in Candidate, Purge(m, c)
      PROVE  TypeInv'
  <2>1. RemoveEqual(c, table[m]) \in Seq(Word)
    BY Removal
  <2>2. table' \in [Midasi -> Seq(Word)]
    BY <1>2, <2>1 DEF Purge
  <2> QED BY <1>2, <2>2 DEF Purge
<1>3. CASE WriteJournal
  <2>1. journal' \in Seq(Lines(Seq(Word)))
    BY <1>3, CutTextType DEF WriteJournal
  <2> QED BY <1>3, <1>a, <2>1 DEF WriteJournal
<1>4. CASE Compact
  BY <1>4 DEF Compact
<1>5. CASE OpenBase
  BY <1>5, <1>a DEF OpenBase
<1>6. CASE WriteBase
  <2>1. base' \in [Midasi -> Seq(Word)]
    BY <1>6, CutTableType DEF WriteBase
  <2> QED BY <1>6, <2>1 DEF WriteBase
<1>7. CASE Verify
  BY <1>7 DEF Verify
<1>8. CASE EmptyJournal
  BY <1>8, <1>a DEF EmptyJournal
<1>9. CASE Killed
  BY <1>9, <1>a DEF Killed
<1>10. CASE Load
  <2>1. PICK words \in MayRead(base, Blank), text \in MayRead(journal, <<>>) :
          table' = Replayed(words, text)
    BY <1>10, Zenon DEF Load
  <2>2. words \in [Midasi -> Seq(Word)]
    BY <1>a, MayReadLists
  <2>3. text \in Seq(Lines(Seq(Word)))
    BY <1>a, MayReadLists
  <2>4. table' \in [Midasi -> Seq(Word)]
    BY <2>1, <2>2, <2>3, ReplayedLists
  <2> QED BY <1>10, <2>4 DEF Load
<1>11. CASE UNCHANGED vars
  BY <1>11 DEF vars
<1> QED BY <1>1, <1>2, <1>3, <1>4, <1>5, <1>6, <1>7, <1>8, <1>9, <1>10, <1>11
    DEF Next

(* The table and both files are what they should be, a write cut anywhere, *)
(* a line run into the next and a process killed in a write included.      *)
THEOREM TypeCorrect == Spec => []TypeOK
BY TypeInvInit, TypeInvNext, TypeInvIsType, PTL DEF Spec

-----------------------------------------------------------------------------
(* No word twice, as long as no write comes up short.                      *)

DistinctLists == {list \in Seq(Word) : Distinct(list)}

(* Lines that reached the file whole, each with a list of distinct words.  *)
DistinctLines == [midasi : Midasi, list : DistinctLists, ended : {TRUE}]

(* A word moved to the front of a list is not left behind in it.           *)
LEMMA FrontIsDistinct ==
  ASSUME NEW list \in DistinctLists, NEW c \in Candidate
  PROVE  MoveToFront(c, list) \in DistinctLists
<1> DEFINE rest == RemoveEqual(c, list)
           new == <<c>> \o rest
<1>1. list \in Seq(Word) /\ Distinct(list)
  BY DEF DistinctLists
<1>2. /\ rest \in Seq(Word)
      /\ \A i \in 1..Len(rest) : rest[i] # c
      /\ Distinct(rest)
  BY <1>1, Removal
<1>3. <<c>> \in Seq(Word) /\ Len(<<c>>) = 1 /\ <<c>>[1] = c
  BY DEF Word
<1> HIDE DEF rest
<1>4. /\ new \in Seq(Word)
      /\ Len(new) = 1 + Len(rest)
      /\ Len(rest) \in Nat
      /\ \A i \in 1..(1 + Len(rest)) :
           new[i] = IF i <= 1 THEN <<c>>[i] ELSE rest[i - 1]
  BY <1>2, <1>3, ConcatProperties, LenProperties
<1> HIDE DEF new
<1>5. Distinct(new)
  <2> SUFFICES ASSUME NEW i \in 1..Len(new), NEW k \in 1..Len(new), i # k
               PROVE  new[i] # new[k]
    BY DEF Distinct
  <2>1. \A n \in 2..Len(new) :
           n - 1 \in 1..Len(rest) /\ new[n] = rest[n - 1]
    BY <1>4
  <2>2. new[1] = c
    BY <1>3, <1>4
  <2>3. CASE i = 1
    <3>1. k \in 2..Len(new)
      BY <1>4, <2>3
    <3> QED BY <1>2, <2>1, <2>2, <2>3, <3>1
  <2>4. CASE k = 1
    <3>1. i \in 2..Len(new)
      BY <1>4, <2>4
    <3> QED BY <1>2, <2>1, <2>2, <2>4, <3>1
  <2>5. CASE i # 1 /\ k # 1
    <3>1. i \in 2..Len(new) /\ k \in 2..Len(new)
      BY <1>4, <2>5
    <3>2. i - 1 # k - 1
      BY <3>1
    <3>3. rest[i - 1] # rest[k - 1]
      BY <1>2, <2>1, <3>1, <3>2 DEF Distinct
    <3> QED BY <2>1, <3>1, <3>3
  <2> QED BY <2>3, <2>4, <2>5
<1> QED BY <1>4, <1>5 DEF DistinctLists, MoveToFront, new, rest

(* In memory and in both files every list is free of repetitions.          *)
DistinctInv ==
  /\ table \in [Midasi -> DistinctLists]
  /\ base \in [Midasi -> DistinctLists]
  /\ journal \in Seq(DistinctLines)
  /\ payload \in Seq(DistinctLines)

(* No list and no file has a repetition at the start.                      *)
LEMMA NothingIsDistinct ==
  /\ <<>> \in Seq(DistinctLines)
  /\ Blank \in [Midasi -> DistinctLists]
<1>1. <<>> \in DistinctLists
  <2>1. <<>> \in Seq(Word) /\ Len(<<>>) = 0
    BY EmptySeq
  <2> QED BY <2>1 DEF DistinctLists, Distinct
<1> QED BY <1>1, EmptySeq DEF Blank

(* A file of whole lines is loaded without repetitions.                    *)
LEMMA ReplayedDistinct ==
  ASSUME NEW words \in [Midasi -> DistinctLists],
         NEW text \in Seq(DistinctLines)
  PROVE  Replayed(words, text) \in [Midasi -> DistinctLists]
<1>1. DistinctLines \subseteq Lines(DistinctLists)
  BY DEF DistinctLines, Lines
<1>2. text \in Seq(Lines(DistinctLists))
  BY <1>1, SeqMonotonic
<1> QED BY <1>2, ReplayedLists

(* Every step keeps it so if a write leaves all of its text or nothing.    *)
LEMMA DistinctNext ==
  ASSUME "short" \notin Faults, DistinctInv, [Next]_vars
  PROVE  DistinctInv'
<1> USE NothingIsDistinct DEF DistinctInv
<1>1. ASSUME NEW m \in Midasi, NEW c \in Candidate, Confirm(m, c)
      PROVE  DistinctInv'
  <2> DEFINE list == MoveToFront(c, table[m])
             line == Line(m, list)
  <2>1. list \in DistinctLists
    BY FrontIsDistinct
  <2>2. line \in DistinctLines
    BY <2>1 DEF DistinctLines, Line
  <2> HIDE DEF list, line
  <2>3. table' \in [Midasi -> DistinctLists] /\ base' = base
    BY <1>1, <2>1 DEF Confirm, list
  <2>4. CASE UNCHANGED <<journal, payload, phase>>
    BY <2>3, <2>4
  <2>5. ASSUME NEW text \in MayRead(journal, <<>>),
               payload' = Appended(text, line), journal' = <<>>
        PROVE  DistinctInv'
    <3>1. text \in Seq(DistinctLines)
      BY MayReadLists
    <3>2. text = <<>> \/ text[Len(text)].ended
      <4>1. text # <<>> => Len(text) \in 1..Len(text)
        BY <3>1, EmptySeq, LenProperties
      <4>2. text # <<>> => text[Len(text)] \in DistinctLines
        BY <3>1, <4>1, ElementOfSeq
      <4> QED BY <4>2 DEF DistinctLines
    <3>3. payload' = Append(text, line)
      BY <2>5, <3>2 DEF Appended
    <3>4. payload' \in Seq(DistinctLines)
      BY <2>2, <3>1, <3>3, AppendProperties
    <3> QED BY <2>3, <2>5, <3>4
  <2> QED BY <1>1, <2>4, <2>5 DEF Confirm, list, line
<1>2. ASSUME NEW m \in Midasi, NEW c \in Candidate, Purge(m, c)
      PROVE  DistinctInv'
  <2>1. table[m] \in Seq(Word) /\ Distinct(table[m])
    BY DEF DistinctLists
  <2>2. RemoveEqual(c, table[m]) \in DistinctLists
    BY <2>1, Removal DEF DistinctLists
  <2> QED BY <1>2, <2>2 DEF Purge
<1>3. CASE WriteJournal
  BY <1>3 DEF WriteJournal
<1>4. CASE Compact
  BY <1>4 DEF Compact
<1>5. CASE OpenBase
  BY <1>5 DEF OpenBase
<1>6. CASE WriteBase
  BY <1>6 DEF WriteBase
<1>7. CASE Verify
  BY <1>7 DEF Verify
<1>8. CASE EmptyJournal
  BY <1>8 DEF EmptyJournal
<1>9. CASE Killed
  BY <1>9 DEF Killed
<1>10. CASE Load
  <2>1. PICK words \in MayRead(base, Blank), text \in MayRead(journal, <<>>) :
          table' = Replayed(words, text)
    BY <1>10, Zenon DEF Load
  <2>2. words \in [Midasi -> DistinctLists]
    BY MayReadLists
  <2>3. text \in Seq(DistinctLines)
    BY MayReadLists
  <2>4. table' \in [Midasi -> DistinctLists]
    BY <2>1, <2>2, <2>3, ReplayedDistinct
  <2> QED BY <1>10, <2>4 DEF Load
<1>11. CASE UNCHANGED vars
  BY <1>11 DEF vars
<1> QED BY <1>1, <1>2, <1>3, <1>4, <1>5, <1>6, <1>7, <1>8, <1>9, <1>10, <1>11
    DEF Next

(* Lists without repetitions in the table and in the files are lists       *)
(* without repetitions after a restart.                                    *)
LEMMA DistinctIsEnough == DistinctInv => NoWordTwice
<1> SUFFICES ASSUME DistinctInv, NEW m \in Midasi,
                    NEW list \in {table[m], OnDisk[m]}
             PROVE  Distinct(list)
  BY DEF NoWordTwice, Distinct
<1>1. OnDisk \in [Midasi -> DistinctLists]
  BY ReplayedDistinct DEF OnDisk, DistinctInv
<1>2. list \in DistinctLists
  BY <1>1 DEF DistinctInv
<1> QED BY <1>2 DEF DistinctLists

(* Unless a write comes up short, no list ever holds a word twice: files   *)
(* that cannot be opened or read and kills inside a write do not matter.   *)
THEOREM WordsAreListedOnce ==
  ASSUME "short" \notin Faults
  PROVE  Spec => []NoWordTwice
<1>1. Init => DistinctInv
  BY NothingIsDistinct DEF Init, DistinctInv
<1>2. DistinctInv /\ [Next]_vars => DistinctInv'
  BY DistinctNext
<1> QED BY <1>1, <1>2, DistinctIsEnough, PTL DEF Spec

-----------------------------------------------------------------------------
(* The last line of a reading decides.                                     *)

IsLast(text, m, n, i) ==
  /\ i \in 1..n
  /\ Entry(text[i], m)
  /\ \A k \in 1..n : k > i => ~Entry(text[k], m)

(* What the entries of the first n lines make of a table.                  *)
After(words, text, n) ==
  [m \in Midasi |->
     IF \E i \in 1..n : IsLast(text, m, n, i)
     THEN text[CHOOSE i \in 1..n : IsLast(text, m, n, i)].list
     ELSE words[m]]

(* One line more is one puthash more.                                      *)
LEMMA AfterOneMore ==
  ASSUME NEW words, NEW text, NEW n \in Nat
  PROVE  After(words, text, n + 1) = Puthash(After(words, text, n), text[n + 1])
<1> DEFINE old == After(words, text, n)
           new == After(words, text, n + 1)
           put == Puthash(old, text[n + 1])
<1>1. old = [m \in Midasi |-> old[m]] /\ new = [m \in Midasi |-> new[m]]
  BY DEF After
<1>2. put = [m \in Midasi |-> put[m]]
  BY <1>1 DEF Puthash
<1>3. ASSUME NEW m \in Midasi PROVE new[m] = put[m]
  <2>1. CASE Entry(text[n + 1], m)
    <3>1. \A i \in 1..(n + 1) : IsLast(text, m, n + 1, i) <=> i = n + 1
      BY <2>1 DEF IsLast
    <3>2. (CHOOSE i \in 1..(n + 1) : IsLast(text, m, n + 1, i)) = n + 1
      BY <3>1
    <3>3. \E i \in 1..(n + 1) : IsLast(text, m, n + 1, i)
      BY <3>1
    <3>4. new[m] = text[n + 1].list
      BY <3>2, <3>3 DEF After
    <3>5. put[m] = text[n + 1].list
      BY <1>1, <2>1 DEF Puthash, Entry
    <3> QED BY <3>4, <3>5
  <2>2. CASE ~Entry(text[n + 1], m)
    <3>1. \A i : i \in 1..(n + 1) /\ IsLast(text, m, n + 1, i)
                   <=> i \in 1..n /\ IsLast(text, m, n, i)
      BY <2>2 DEF IsLast
    <3>2. (CHOOSE i \in 1..(n + 1) : IsLast(text, m, n + 1, i))
            = (CHOOSE i \in 1..n : IsLast(text, m, n, i))
      BY <3>1
    <3>3. new[m] = old[m]
      BY <3>1, <3>2 DEF After
    <3>4. put[m] = old[m]
      BY <1>1, <2>2 DEF Puthash, Entry
    <3> QED BY <3>3, <3>4
  <2> QED BY <2>1, <2>2
<1> QED BY <1>1, <1>2, <1>3

(* The loop over the lines ends with the last entry of every reading.      *)
LEMMA LoopPicksTheLast ==
  ASSUME NEW words, IsTable(words), NEW S, NEW text \in Seq(S)
  PROVE  ParseIntoTable(words, text) = Replayed(words, text)
<1> DEFINE size == Len(text)
           Round(f, n) == IF n = 0 THEN words ELSE Puthash(f[n - 1], text[n])
           closed == [n \in 0..size |-> After(words, text, n)]
<1>1. size \in Nat
  BY LenProperties
<1>2. After(words, text, 0) = words
  <2>1. \A m : ~\E i \in 1..0 : IsLast(text, m, 0, i)
    BY DEF IsLast
  <2> QED BY <2>1 DEF After, IsTable
<1>3. ASSUME NEW n \in 0..size PROVE closed[n] = Round(closed, n)
  <2>1. CASE n = 0
    BY <1>2, <2>1
  <2>2. CASE n # 0
    <3>1. n - 1 \in 0..size /\ n - 1 \in Nat /\ (n - 1) + 1 = n
      BY <1>1, <2>2
    <3>2. After(words, text, (n - 1) + 1)
            = Puthash(After(words, text, n - 1), text[(n - 1) + 1])
      BY <3>1, AfterOneMore
    <3> QED BY <2>2, <3>1, <3>2
  <2> QED BY <2>1, <2>2
<1>4. \E f : f = [n \in 0..size |-> Round(f, n)]
  <2>1. closed = [n \in 0..size |-> closed[n]]
    OBVIOUS
  <2> HIDE DEF closed
  <2>2. closed = [n \in 0..size |-> Round(closed, n)]
    BY <1>3, <2>1
  <2> QED BY <2>2
<1> DEFINE parsed == CHOOSE f : f = [n \in 0..size |-> Round(f, n)]
<1>5. parsed = [n \in 0..size |-> Round(parsed, n)]
  BY <1>4
<1>6. ParseIntoTable(words, text) = parsed[size]
  BY DEF ParseIntoTable
<1> DEFINE Rounds == {n \in Nat : n <= size => parsed[n] = After(words, text, n)}
<1> HIDE DEF parsed, size
<1>7. 0 \in Rounds
  BY <1>1, <1>2, <1>5
<1>8. ASSUME NEW n \in Nat, n \in Rounds PROVE n + 1 \in Rounds
  <2> SUFFICES ASSUME n + 1 <= size
               PROVE  parsed[n + 1] = After(words, text, n + 1)
    OBVIOUS
  <2>1. n + 1 \in 0..size /\ n + 1 # 0 /\ (n + 1) - 1 = n
    BY <1>1
  <2>2. parsed[n + 1] = Puthash(parsed[n], text[n + 1])
    BY <1>5, <2>1
  <2>3. parsed[n] = After(words, text, n)
    BY <1>1, <1>8, <2>1
  <2> QED BY <2>2, <2>3, AfterOneMore
<1>9. parsed[size] = After(words, text, size)
  <2>1. \A n \in Nat : n \in Rounds
    <3> HIDE DEF Rounds
    <3> QED BY <1>7, <1>8, NumbersBySuccessor
  <2> QED BY <1>1, <2>1
<1>10. After(words, text, Len(text)) = Replayed(words, text)
  BY DEF After, Replayed, IsLast, LastEntry
<1> QED BY <1>6, <1>9, <1>10 DEF size

(* Loading keeps, for each reading, its last entry in the journal; the     *)
(* order and the number of the earlier ones make no difference, whatever   *)
(* went wrong with the files before.                                       *)
THEOREM LastLineDecides == Spec => []OnlyTheLastLineCounts
<1>1. TypeInv => OnlyTheLastLineCounts
  <2> SUFFICES ASSUME TypeInv PROVE OnlyTheLastLineCounts
    OBVIOUS
  <2>1. IsTable(base) /\ journal \in Seq(Lines(Seq(Word)))
    BY DEF TypeInv, IsTable
  <2> QED BY <2>1, LoopPicksTheLast DEF OnlyTheLastLineCounts, OnDisk
<1> QED BY <1>1, TypeInvInit, TypeInvNext, PTL DEF Spec
=============================================================================
