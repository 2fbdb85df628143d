--------------------------- MODULE MCVideoPipeline ---------------------------
(* VideoPipeline on a small instance: two frame sizes, two limits (so that  *)
(* two sizes can scale to the same output), two QPs.                        *)
EXTENDS VideoPipeline

===============================================================================
