---------------------------- MODULE LearnedWords ----------------------------
(***************************************************************************)
(* What the personal dictionary of engine/skk-user-jisyo.el promises: a    *)
(* store of ranked words that survives restarts word by word.  Memory      *)
(* follows the user at once; on disk every word is, at any moment, either  *)
(* as it was or as it is in memory, and no step about one word disturbs    *)
(* another.                                                                *)
(***************************************************************************)
EXTENDS Naturals, Sequences

CONSTANTS
  Midasi,     (* readings                                                  *)
  Candidate   (* words a reading can be converted to                       *)

VARIABLES
  learned,    \* the ranking a conversion uses, most recent word first
  durable,    \* the ranking the next start of the engine will load
  running     \* the engine is up

Blank == [m \in Midasi |-> <<>>]

Without(c, list) ==
  LET rest[n \in 0..Len(list)] ==
        IF n = 0 THEN <<>>
        ELSE IF list[n] = c THEN rest[n - 1] ELSE Append(rest[n - 1], list[n])
  IN rest[Len(list)]

Init ==
  /\ learned = Blank
  /\ durable = Blank
  /\ running = FALSE

(* The user confirms a word; it reaches the disk, or does not yet.         *)
Learn(m, c) ==
  /\ running
  /\ learned' = [learned EXCEPT ![m] = <<c>> \o Without(c, @)]
  /\ durable' \in {durable, [durable EXCEPT ![m] = learned'[m]]}
  /\ UNCHANGED running

(* The user withdraws a word.                                              *)
Forget(m, c) ==
  /\ running
  /\ learned' = [learned EXCEPT ![m] = Without(c, @)]
  /\ UNCHANGED <<durable, running>>

(* Some words catch up on disk.                                            *)
Sync ==
  /\ running
  /\ \E caught \in SUBSET Midasi :
       durable' = [m \in Midasi |->
                     IF m \in caught THEN learned[m] ELSE durable[m]]
  /\ UNCHANGED <<learned, running>>

Stop ==
  /\ running
  /\ running' = FALSE
  /\ learned' = Blank
  /\ UNCHANGED durable

Start ==
  /\ ~running
  /\ running' = TRUE
  /\ learned' = durable
  /\ UNCHANGED durable

Next ==
  \/ \E m \in Midasi, c \in Candidate : Learn(m, c) \/ Forget(m, c)
  \/ Sync \/ Stop \/ Start

Spec == Init /\ [][Next]_<<learned, durable, running>>
=============================================================================
