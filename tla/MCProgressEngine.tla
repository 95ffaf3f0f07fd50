---------------------------- MODULE MCProgressEngine ----------------------------
(* Receives of a small application. *)
EXTENDS ProgressEngine

CONSTANTS p1, t1

\* From the one peer with its tag, or with any tag as well.
ByTag == [source : {p1}, tag : {t1}]
AnyTagByName == [source : {p1}, tag : {AnyTag}]
ByTagOrAny == [source : {p1}, tag : {t1, AnyTag}]
================================================================================
