--------------------------- MODULE MCSourceRefresh ---------------------------
(* Small instances of SourceRefresh: one source, so that all requests meet *)
(* on the same row; two texts, so that a document can change and change    *)
(* back; three digests, two of which serialise to the same text.           *)
EXTENDS SourceRefresh, TLC

CONSTANTS s1, u1, u2, t1, t2, d1, d2, d3, x1, x2

MCDigest == {d1, d2, d3}
MCDigestText == (d1 :> x1) @@ (d2 :> x1) @@ (d3 :> x2)
MCDigestStatus == (d1 :> "open") @@ (d2 :> "open") @@ (d3 :> "resolved")
(* Two digests with different texts, for the runs that explore longer.     *)
MCTwoDigests == {d1, d3}
MCTwoText == (d1 :> x1) @@ (d3 :> x2)
MCTwoStatus == (d1 :> "open") @@ (d3 :> "resolved")

MCAllKinds == AllKinds
MCFollowedKinds == {"web", "drive"}
MCWeb == {"web"}
MCDrive == {"drive"}
MCChat == {"chat"}
MCDriveAndChat == {"drive", "chat"}

(* Ways users behave. *)
MCEverything == AllOps
MCPasteAndDelete == {"paste", "delete"}
MCPasteAndRefresh == {"paste", "refresh"}
MCPasteOnly == {"paste"}
MCMentionOnly == {"mention"}

MCSymmetry == Permutations(User) \cup Permutations(Text)
=============================================================================
