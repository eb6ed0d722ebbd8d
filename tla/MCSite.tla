------------------------------- MODULE MCSite -------------------------------
(* Instances of Site for TLC.  A visit starts on a page, with so many      *)
(* clicks for each group of controls; answers, timers and the server take  *)
(* their steps in all of them.                                             *)
EXTENDS Site

Visit(start, who, go, account, list, browse, make) ==
  [start |-> start,
   who |-> who,
   clicks |-> [p \in Panels |->
                 CASE p = "go" -> go
                   [] p = "account" -> account
                   [] p = "list" -> list
                   [] p = "browse" -> browse
                   [] p = "author" -> make]]

MCVisits ==
  {Visit("login", "none", 0, 2, 0, 0, 0),         \* signing in and out
   Visit("login", "none", 1, 1, 0, 0, 0),         \* ... while leaving
   Visit("register", "none", 0, 1, 0, 0, 0),
   Visit("forgot", "none", 0, 1, 0, 0, 0),
   Visit("home", "admin", 1, 1, 0, 0, 0),         \* signing out, leaving
   Visit("submissions", "user", 0, 0, 3, 0, 0),   \* the list, its filters
   Visit("submissions", "none", 0, 0, 3, 0, 0),
   Visit("home", "user", 1, 0, 2, 0, 0),          \* ... from another page
   Visit("submission", "user", 1, 0, 0, 0, 0),    \* one submission
   Visit("problems", "user", 0, 0, 0, 2, 0),      \* filters, refreshing
   Visit("problems", "user", 1, 0, 0, 2, 0),      \* ... then the profile
   Visit("profile", "user", 0, 0, 0, 2, 0),       \* editing the profile
   Visit("create", "user", 0, 0, 0, 0, 5),        \* making a problem
   Visit("create", "none", 0, 0, 0, 0, 1),
   Visit("solutions", "user", 0, 0, 0, 0, 3),
   Visit("addProblem", "user", 0, 0, 0, 0, 1),
   Visit("addTestcase", "user", 0, 0, 0, 0, 1)}

MCDifficulty == [p \in {"p1", "p2"} |-> IF p = "p1" THEN "easy" ELSE "hard"]

(* Making a problem, for the run about creating it.                        *)
MCMaking == {Visit("create", "user", 0, 0, 0, 0, 4)}
=============================================================================
