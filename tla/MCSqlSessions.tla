--------------------------- MODULE MCSqlSessions ---------------------------
(* Small instances of SqlSessions for TLC.                                 *)
EXTENDS SqlSessions

\* Two sizes: three small requests fill the budget, as do a small and a big one.
OneOrTwo == {1, 2}
=============================================================================
