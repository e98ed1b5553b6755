---------------------------- MODULE EmbedContract ----------------------------
(***************************************************************************)
(* What embed_all promises its caller: it raises, or it returns a vector   *)
(* for every text, in the order of the texts.  A vector is written as the  *)
(* text it belongs to.                                                     *)
(***************************************************************************)
EXTENDS Sequences

VARIABLES status, texts, vectors

Init == status = "idle" /\ texts = <<>> /\ vectors = <<>>

Call ==
    /\ status = "idle"
    /\ status' = "running"
    /\ UNCHANGED vectors

Raise ==
    /\ status = "running"
    /\ status' = "raised"
    /\ UNCHANGED <<texts, vectors>>

Return ==
    /\ status = "running"
    /\ status' = "done"
    /\ vectors' = texts
    /\ UNCHANGED texts

Next == Call \/ Raise \/ Return

Spec == Init /\ [][Next]_<<status, texts, vectors>>
=============================================================================
