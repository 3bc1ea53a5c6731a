------------------------------ MODULE MCEditor ------------------------------
(***************************************************************************)
(* Editor with two browsers.  A behaviour picks one of three servers: one  *)
(* whose answers never overtake the stream, with texts of up to two        *)
(* characters, of which two are alike, so that a change of the text can be *)
(* read in several ways; one whose answers may come first, with browsers   *)
(* that load the document again; and one that also answers 504 and may     *)
(* execute the operation later.                                            *)
(***************************************************************************)
EXTENDS Editor

ShortTexts == {<<1>>, <<1, 1>>, <<1, 2>>, <<>>}
FewTexts   == {<<1>>, <<1, 1>>}
TwoAndOne  == <<2, 1>>

StreamFirst == [texts |-> ShortTexts, loads |-> 1, ackFirst |-> FALSE, timeouts |-> 0]
AnyOrder    == [texts |-> FewTexts,   loads |-> 2, ackFirst |-> TRUE,  timeouts |-> 0]
Failing     == [texts |-> FewTexts,   loads |-> 1, ackFirst |-> TRUE,  timeouts |-> 2]
MCSettings  == {StreamFirst, AnyOrder, Failing}
=============================================================================
