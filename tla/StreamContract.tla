---------------------------- MODULE StreamContract ----------------------------
(***************************************************************************)
(* What a client of a streamed answer is promised, whatever goes on behind *)
(* the connection: a provisional verdict first, then text and citations,   *)
(* at most one correction of the verdict and only after all of the text,   *)
(* and one terminal frame, "complete" or "error", after which nothing      *)
(* comes.  A failure may end the stream at any point.                      *)
(***************************************************************************)
EXTENDS Sequences, Naturals

VARIABLE frames   \* the frames the client has received, oldest first

Kinds == {"verdict", "text", "correction", "complete", "error"}

Kind(i) == frames[i].kind

LastKind == IF frames = <<>> THEN "nothing" ELSE Kind(Len(frames))

MayFollow(kind) ==
    CASE kind = "verdict"    -> LastKind = "nothing"
      [] kind = "text"       -> LastKind \in {"verdict", "text"}
      [] kind = "correction" -> LastKind \in {"verdict", "text"}
      [] kind = "complete"   -> LastKind \in {"verdict", "text", "correction"}
      [] kind = "error"      -> LastKind \notin {"complete", "error"}

Init == frames = <<>>

Next == \E kind \in Kinds :
            /\ MayFollow(kind)
            /\ Len(frames') = Len(frames) + 1
            /\ SubSeq(frames', 1, Len(frames)) = frames
            /\ frames'[Len(frames')].kind = kind

Spec == Init /\ [][Next]_frames
=============================================================================
