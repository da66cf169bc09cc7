---- MODULE MCPrefsStore ----
EXTENDS PrefsStore, TLC
CONSTANTS n1, n2, d1
MCStart == n1 :> {"wrapping"} @@ n2 :> {"fresh", "released"} @@ d1 :> {"fresh"}
====
