----------------------------- MODULE MCPipeline -----------------------------
(* Pipeline for TLC.  A buffer holds "add" (the command that lists the one *)
(* sender) or "data" (whose check takes the sender off the list again, so  *)
(* that the order of frames matters); a "runt" ends before the command     *)
(* field and leaves the previous frame's command in the buffer.  The hash  *)
(* tells contents and lengths apart.                                       *)
EXTENDS Pipeline, TLC

MCContent == {"add", "data"}

MCFrameLength(f) == IF f = "add" THEN 2 ELSE 1

MCReceived(x, f) == IF f = "runt" THEN x ELSE f

MCHashValue == MCContent \X {1, 2}

MCDjb2(x, n) == <<x, n>>

MCTables == {"listed", "unlisted"}

MCExecute(t, x) == IF x = "add" THEN "listed" ELSE t

MCClassify(t, x, h) ==
  [tables |-> IF x = "data" THEN "unlisted" ELSE t,
   code   |-> (IF t = "listed" THEN 1 ELSE 0) + (IF h = <<"data", 1>> THEN 2 ELSE 0)]

MCStatistics == 0..2

MCUpdateStats(s, n, e) == (s + n + e) % 3

(* One frame, and neither tables nor statistics to tell apart: the runs    *)
(* about the movement of the packets afford more packets.                  *)
OneContent == {"data"}
OneHash    == {<<"data", 1>>}
OneTable   == {"unlisted"}
OneTotal   == {0}
NoUpdate(s, n, e) == s
=============================================================================
