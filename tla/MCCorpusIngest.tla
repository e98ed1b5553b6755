---------------------------- MODULE MCCorpusIngest ----------------------------
(***************************************************************************)
(* An instance of CorpusIngest for TLC: a directory of two files, a third  *)
(* that the same loader takes for the first file's source and that is only *)
(* ingested by name, two ingests and one retrieval.                        *)
(***************************************************************************)
EXTENDS CorpusIngest, TLC

CONSTANTS rmf, act, draft2, r1, r2, a1, d1

MCFiles == {rmf, act, draft2}
MCContents == {r1, r2, a1, d1}
MCVersionsOf == rmf :> {r1, r2} @@ act :> {a1} @@ draft2 :> {d1}
MCChunksOf == r1 :> 1 @@ r2 :> 2 @@ a1 :> 1 @@ d1 :> 1
MCSourceOf == rmf :> "nist" @@ act :> "eurlex" @@ draft2 :> "nist"
MCSources == {"nist", "eurlex"}
MCDirectory == <<rmf>>
MCRequests == {<<>>, <<act>>, <<draft2, rmf>>}
=============================================================================
