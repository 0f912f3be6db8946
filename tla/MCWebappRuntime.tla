--------------------------- MODULE MCWebappRuntime ---------------------------
(* WebappRuntime on two runtimes, one of which may be restored from a      *)
(* checkpoint of the other, each with a few requests and episodes; or, the *)
(* other alternatives of WorldBackings, two worlds of files alone, or one  *)
(* world of three services.                                                *)
EXTENDS WorldBackings

CONSTANTS r1, r2, d1, web, db, auth

MCRuntimes == {r1, r2}
OneDir     == {d1}
OnlyResult == {"result"}
AllOutputs == {"line", "junk", "eof", "part"}
DbThenAuth == <<db, auth>>
=============================================================================
