----------------------------- MODULE MCConsole -----------------------------
EXTENDS Console

\* Two profiles of one backend and one of another.
MCLists == {<<"p", "q", "r">>}
MCBackendOf(p) == IF p = "r" THEN "B" ELSE "A"
MCBackends == <<"A", "B">>
MCModelsOf(b) == IF b = "A" THEN {"m", "l"} ELSE {"n"}
MCTargetOf(p) == CASE p = "p" -> "m" [] p = "q" -> "l" [] OTHER -> "n"
MCMissing == {"l"}

\* The keys that work on profiles, on model files and backends, on downloads and on services.
MCSessions == {{"down", "esc", "enter", "d", "y", "R", "cleanup", "start"}, {"tab", "shift+tab", "up", "d", "y", "n", "]", "r"},
               {"shift+tab", "/", "i", "[", "esc"}, {"]", "fault"}, {"down", "g", "c", "command"},
               {"page", "a", "s", "enter", "start"}, {"page", "s", "fault"}, {"command", "fault"}}
=============================================================================
