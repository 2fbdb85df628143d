--------------------------- MODULE MCMediaThreads ---------------------------
(* One client's media threads: targets of two sizes, a cursor two pixels wide *)
(* at every kind of place around the captured area.                           *)
EXTENDS MediaThreads

TwoSizes == {2, 3}
Around == {-2, -1, 1, 4}

\* Linux, Windows and macOS.
Platforms == {{"vaapi", "nvenc"}, {"mediafoundation", "nvenc"}, {"videotoolbox"}}
=============================================================================
