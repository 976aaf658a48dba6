----------------------------- MODULE UserJisyo -----------------------------
(***************************************************************************)
(* The learned personal dictionary (engine/skk-user-jisyo.el): a hash      *)
(* table in memory, a base file that is always written whole, and a        *)
(* journal that gets one line per confirmation.  Neither file has a real   *)
(* append or an atomic replace: write-region (engine/skk-nelisp-compat.el) *)
(* truncates the file and writes all of it, so every write is two steps    *)
(* here and the process can end, or the write come up short, between them. *)
(***************************************************************************)
EXTENDS Naturals, Sequences, FiniteSets

CONSTANTS
  Midasi,           (* readings                                            *)
  Candidate,        (* words a reading can be converted to                 *)
  Fragment,         (* what is left of a word cut in the middle            *)
  Garbled,          (* a reading nobody asked for, from a cut line         *)
  BatchSize,        (* ddskk-user-jisyo-save-batch-size                    *)
  LearningDisabled, (* ddskk-user-jisyo-learning-disabled                  *)
  Faults,           (* what goes wrong with the files in this instance     *)
  Cap               (* BOUND: confirmations since a save, journal lines    *)

ASSUME JisyoAssumption ==
  /\ BatchSize \in Nat \ {0}
  /\ LearningDisabled \in BOOLEAN
  /\ Faults \subseteq {"unopened", "short", "unreadable", "killed"}
  /\ Garbled \notin Midasi
  /\ Fragment \notin Candidate
  /\ Cap \in Nat

VARIABLES
  table,    \* ddskk-user-jisyo--table; <<>> for a reading without an entry
  pending,  \* ddskk-user-jisyo--journal-pending
  base,     \* what the base file parses to
  journal,  \* the lines of <path>.journal
  payload,  \* the text an append is writing
  phase     \* where the engine is in a request

vars == <<table, pending, base, journal, payload, phase>>

Blank == [m \in Midasi |-> <<>>]

Init ==
  /\ table = Blank
  /\ pending = 0
  /\ base = Blank
  /\ journal = <<>>
  /\ payload = <<>>
  /\ phase = "down"

-----------------------------------------------------------------------------
(* Candidate lists.                                                        *)

RemoveEqual(c, list) ==
  LET out[n \in 0..Len(list)] ==
        IF n = 0 THEN <<>>
        ELSE IF list[n] = c THEN out[n - 1] ELSE Append(out[n - 1], list[n])
  IN out[Len(list)]

KeepsOld(c, list) == <<c>> \o list                                \* mutant

MoveToFront(c, list) == <<c>> \o RemoveEqual(c, list)

-----------------------------------------------------------------------------
(* The files.                                                              *)

(* A line as parse-line reads it.  A line that does not end in a newline   *)
(* is continued by the next one appended, whose reading becomes part of a  *)
(* word and whose words are added to the wrong list.                       *)
Line(m, list) == [midasi |-> m, list |-> list, ended |-> TRUE]

Continued(cut, line) ==
  Line(cut.midasi,
       cut.list \o (IF Fragment \in {cut.list[i] : i \in 1..Len(cut.list)}
                    THEN <<>> ELSE <<Fragment>>) \o line.list)

OldText(text, line) == text                                       \* mutant

Appended(text, line) ==
  IF text = <<>> \/ text[Len(text)].ended
  THEN Append(text, line)
  ELSE [text EXCEPT ![Len(text)] = Continued(@, line)]

(* Only a line with a candidate is an entry; later lines replace earlier   *)
(* ones, so the last entry for a reading is the one that counts.           *)
Entry(line, m) == line.midasi = m /\ line.list # <<>>

FirstEntry(text, m, i) ==                                         \* mutant
  /\ i \in 1..Len(text)
  /\ Entry(text[i], m)
  /\ \A k \in 1..Len(text) : k < i => ~Entry(text[k], m)

LastEntry(text, m, i) ==
  /\ i \in 1..Len(text)
  /\ Entry(text[i], m)
  /\ \A k \in 1..Len(text) : k > i => ~Entry(text[k], m)

Replayed(words, text) ==
  [m \in Midasi |->
     IF \E i \in 1..Len(text) : LastEntry(text, m, i)
     THEN text[CHOOSE i \in 1..Len(text) : LastEntry(text, m, i)].list
     ELSE words[m]]

(* --parse-into-table as it is written: puthash of every entry, in the     *)
(* order of the file.                                                      *)
Puthash(words, line) ==
  IF line.midasi \in Midasi /\ line.list # <<>>
  THEN [words EXCEPT ![line.midasi] = line.list]
  ELSE words

ParseIntoTable(words, text) ==
  LET parsed[n \in 0..Len(text)] ==
        IF n = 0 THEN words ELSE Puthash(parsed[n - 1], text[n])
  IN parsed[Len(text)]

(* What a write that came up short leaves of a list, a line, a file.       *)
CutList(list) ==
  {SubSeq(list, 1, n) : n \in 0..Len(list)} \cup
  {SubSeq(list, 1, n) \o <<Fragment>> : n \in 0..(Len(list) - 1)}

CutLine(line) ==
  {[midasi |-> Garbled, list |-> <<>>, ended |-> FALSE]} \cup
  {[line EXCEPT !.list = list, !.ended = FALSE] : list \in CutList(line.list)}

CutText(text) ==
  {SubSeq(text, 1, n) : n \in 0..(Len(text) - 1)} \cup
  UNION {{SubSeq(text, 1, n - 1) \o <<cut>> : cut \in CutLine(text[n])} :
           n \in 1..Len(text)}

UpTo(words, whole, last, rest) ==
  [m \in Midasi |-> IF m = last THEN rest
                    ELSE IF m \in whole THEN words[m] ELSE <<>>]

CutTable(words) ==
  UNION {{UpTo(words, whole, last, rest) :
            whole \in SUBSET Midasi, rest \in CutList(words[last])} :
           last \in Midasi}

(* nelisp--syscall-read-file: nil, taken for an empty file, if it fails.   *)
MayRead(text, nothing) ==
  IF "unreadable" \in Faults THEN {text, nothing} ELSE {text}

-----------------------------------------------------------------------------
(* Learning: ddskk-user-jisyo--update.                                     *)

(* An ordinary confirmation: remember, then append one line; write-region  *)
(* reads the journal, appends to the text and opens the file for writing.  *)
(* Its errors are swallowed, the confirmation is counted in any case.      *)
Confirm(m, c) ==
  LET list == MoveToFront(c, table[m]) IN
  /\ phase = "idle"
  /\ ~LearningDisabled
  /\ pending < Cap /\ Len(journal) < Cap
  /\ table' = [table EXCEPT ![m] = list]
  /\ pending' = pending + 1
  /\ \/ /\ "unopened" \in Faults
        /\ UNCHANGED <<journal, payload, phase>>
     \/ /\ \E text \in MayRead(journal, <<>>) :
             payload' = Appended(text, Line(m, list))
        /\ journal' = <<>>
        /\ phase' = "appending"
  /\ UNCHANGED base

WriteJournal ==
  /\ phase = "appending"
  /\ journal' \in {payload} \cup
                  (IF "short" \in Faults THEN CutText(payload) ELSE {})
  /\ payload' = <<>>
  /\ phase' = "idle"
  /\ UNCHANGED <<table, pending, base>>

(* A correction by the user: forget, then flush at once.                   *)
Purge(m, c) ==
  /\ phase = "idle"
  /\ ~LearningDisabled
  /\ table' = [table EXCEPT ![m] = RemoveEqual(c, @)]
  /\ phase' = "saving"
  /\ UNCHANGED <<pending, base, journal, payload>>

(* The COMPACT verb the host sends when idle; a no-op below the threshold. *)
Compact ==
  /\ phase = "idle"
  /\ pending >= BatchSize
  /\ phase' = "saving"
  /\ UNCHANGED <<table, pending, base, journal, payload>>

-----------------------------------------------------------------------------
(* ddskk-user-jisyo-flush.                                                 *)

OpenBase ==
  /\ phase = "saving"
  /\ \/ base' = Blank /\ phase' = "overwriting"
     \/ "unopened" \in Faults /\ phase' = "verifying" /\ UNCHANGED base
  /\ UNCHANGED <<table, pending, journal, payload>>

WriteBase ==
  /\ phase = "overwriting"
  /\ base' \in {table} \cup
               (IF "short" \in Faults THEN CutTable(table) \ {table} ELSE {})
  /\ phase' = "verifying"
  /\ UNCHANGED <<table, pending, journal, payload>>

(* Only a file that reads back as it was meant to be counts as saved.      *)
AnySave == TRUE                                                   \* mutant

Saved == base = table

Verify ==
  /\ phase = "verifying"
  /\ \/ Saved /\ phase' = "emptying" /\ pending' = 0
     \/ /\ ~Saved \/ "unreadable" \in Faults
        /\ phase' = "idle" /\ UNCHANGED pending
  /\ UNCHANGED <<table, base, journal, payload>>

EmptyJournal ==
  /\ phase = "emptying"
  /\ \/ journal' = <<>>
     \/ "unopened" \in Faults /\ UNCHANGED journal
  /\ phase' = "idle"
  /\ UNCHANGED <<table, pending, base, payload>>

-----------------------------------------------------------------------------
(* The engine process ends: at rest, between two writes or, as a fault,    *)
(* inside one.                                                             *)
Killed ==
  /\ phase # "down"
  /\ phase \in {"appending", "overwriting"} => "killed" \in Faults
  /\ phase' = "down"
  /\ table' = Blank
  /\ pending' = 0
  /\ payload' = <<>>
  /\ UNCHANGED <<base, journal>>

(* ddskk-user-jisyo-load: the base file, then the journal over it.         *)
Load ==
  /\ phase = "down"
  /\ \E words \in MayRead(base, Blank), text \in MayRead(journal, <<>>) :
       table' = Replayed(words, text)
  /\ phase' = "idle"
  /\ UNCHANGED <<pending, base, journal, payload>>

Next ==
  \/ \E m \in Midasi, c \in Candidate : Confirm(m, c) \/ Purge(m, c)
  \/ WriteJournal
  \/ Compact \/ OpenBase \/ WriteBase \/ Verify \/ EmptyJournal
  \/ Killed \/ Load

Spec == Init /\ [][Next]_vars
-----------------------------------------------------------------------------
(* Properties.                                                             *)

Word == Candidate \cup {Fragment}

(* Every variable has its type, and a write is in progress only while its  *)
(* text is at hand.                                                        *)
TypeOK ==
  /\ table \in [Midasi -> Seq(Word)]
  /\ base \in [Midasi -> Seq(Word)]
  /\ pending \in 0..Cap
  /\ \A text \in {journal, payload} : \A i \in 1..Len(text) :
       /\ text[i].midasi \in Midasi \cup {Garbled}
       /\ text[i].list \in Seq(Word)
       /\ text[i].ended \in BOOLEAN
  /\ phase \in {"down", "idle", "appending", "saving", "overwriting",
                "verifying", "emptying"}
  /\ payload # <<>> <=> phase = "appending"

(* What the next start of the engine would load from the files as they are.*)
OnDisk == Replayed(base, journal)

(* Whatever goes wrong with the files, the journal is given up only when   *)
(* a restart without it loads everything the user has taught: the save     *)
(* that precedes it has been verified (ddskk-user-jisyo-flush).            *)
JournalGivenUpWhenSaved ==
  [][phase = "emptying" /\ journal' # journal => OnDisk' = table]_vars

(* The write in progress taken for done: the dictionary on disk as of the  *)
(* last point at which a file was opened.                                  *)
Durable == Replayed(IF phase = "overwriting" THEN table ELSE base,
                    IF phase = "appending" THEN payload ELSE journal)

(* As long as a write happens entirely or not at all, the two files are    *)
(* the word-by-word durable store of LearnedWords, kills between any two   *)
(* writes and failing writes included.                                     *)
WordStore == INSTANCE LearnedWords
               WITH learned <- table, durable <- Durable,
                    running <- phase # "down"

WordByWord == WordStore!Spec

(* The list of a reading never holds a word twice, in memory or on disk    *)
(* (the promise of ddskk-user-jisyo--table).                               *)
NoWordTwice ==
  \A m \in Midasi : \A list \in {table[m], OnDisk[m]} :
    \A i, k \in 1..Len(list) : i # k => list[i] # list[k]

(* What --replay-journal argues: puthash of every line in file order needs *)
(* no merge logic, the last line of a reading decides.                     *)
OnlyTheLastLineCounts == OnDisk = ParseIntoTable(base, journal)

(* What the header of the file says: a crash between a journal append and  *)
(* the next compaction loses nothing of what was journaled.                *)
CrashLosesNothing ==
  [][phase = "appending" /\ phase' = "down" =>
       \A m \in Midasi :
         m # payload[Len(payload)].midasi =>
           OnDisk'[m] = Replayed(base, payload)[m]]_vars
=============================================================================
