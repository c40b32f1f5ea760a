---------------------------- MODULE MCThemeManager ----------------------------
EXTENDS ThemeManager, TLC

MCRows == Handlers \cup {ThemeRow}
MCValues == Themes \cup {Absent, Inserted}
MCUpdates == {[title |-> "custom", color |-> "keep"], [title |-> "blank", color |-> "keep"],
              [title |-> "keep", color |-> "short"], [title |-> "keep", color |-> "empty"],
              [title |-> "keep", color |-> "malformed"]}
Symmetric == Permutations(Handlers)
===============================================================================
