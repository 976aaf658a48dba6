------------------------- MODULE MCDictionaryRelay -------------------------
(* An instance of DictionaryRelay for TLC: two files, a word in each tier. *)
EXTENDS DictionaryRelayInv

Plain(text) == [text |-> text, note |-> ""]
TwoFiles ==
  << [w \in {"local"} |-> <<Plain("c1"), Open, Plain("c2"), Close>>],
     [w \in {"local"} |-> <<[text |-> "c1", note |-> "note"], Plain("c3")>>] >>
=============================================================================
