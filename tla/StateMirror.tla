----------------------------- MODULE StateMirror -----------------------------
(***************************************************************************)
(* What the shared memory between the host and Sumi promises: a register   *)
(* that is written and read whole, although both sides go over it half by  *)
(* half.  What Sumi takes is the line that is the newest at that moment,   *)
(* never a mixture and never one that was superseded while it read.  The   *)
(* promise is void for a read during which another host began to clear the *)
(* memory, and for that read only.                                         *)
(***************************************************************************)
CONSTANTS
  Lines,     (* STATE lines                                                *)
  Blank      (* no line                                                    *)

VARIABLES
  value,     \* the line in the register
  whole,     \* a host has cleared the memory and none has begun to since
  reading,   \* Sumi's read: "no", "sound" or "spoiled"
  answer,    \* the reply to a STATUS request that Sumi has not taken yet
  last       \* the line that Sumi took last

Init ==
  /\ value = Blank /\ whole = FALSE
  /\ reading = "no" /\ answer = Blank /\ last = Blank

(* The host's side.                                                        *)
Publish(line) ==
  /\ whole /\ value' = line
  /\ UNCHANGED <<whole, reading, answer, last>>

(* The host ends in the middle of a line: nothing can be read any more.    *)
CutOff ==
  /\ value' = Blank
  /\ UNCHANGED <<whole, reading, answer, last>>

(* The memory goes with its last user, or another host begins to clear it. *)
Lost ==
  /\ value' = Blank /\ whole' = FALSE
  /\ reading' = IF reading = "sound" THEN "spoiled" ELSE reading
  /\ UNCHANGED <<answer, last>>

Cleared ==
  /\ ~whole /\ whole' = TRUE
  /\ UNCHANGED <<value, reading, answer, last>>

Reply ==
  /\ value # Blank /\ answer' = value
  /\ UNCHANGED <<value, whole, reading, last>>

(* Sumi's side.                                                            *)
BeginRead ==
  /\ reading = "no" /\ reading' = IF whole THEN "sound" ELSE "spoiled"
  /\ UNCHANGED <<value, whole, answer, last>>

Take ==
  /\ reading = "sound" /\ reading' = "no"
  /\ value # Blank /\ last' = value
  /\ UNCHANGED <<value, whole, answer>>

TakeSpoiled ==
  /\ reading = "spoiled" /\ reading' = "no"
  /\ last' \in Lines \union {Blank}
  /\ UNCHANGED <<value, whole, answer>>

GiveUp ==
  /\ reading # "no" /\ reading' = "no"
  /\ UNCHANGED <<value, whole, answer, last>>

Hear ==
  /\ answer # Blank /\ last' = answer /\ answer' = Blank
  /\ UNCHANGED <<value, whole, reading>>

Next ==
  \/ \E line \in Lines : Publish(line)
  \/ CutOff \/ Lost \/ Cleared \/ Reply
  \/ BeginRead \/ Take \/ TakeSpoiled \/ GiveUp \/ Hear

Spec == Init /\ [][Next]_<<value, whole, reading, answer, last>>
=============================================================================
