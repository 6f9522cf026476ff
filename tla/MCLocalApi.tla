----------------------------- MODULE MCLocalApi -----------------------------
(***************************************************************************)
(* Small instance of LocalApi for TLC: a client that drives Tasks, and one *)
(* that watches them and is not always well behaved.                       *)
(***************************************************************************)
EXTENDS LocalApi

GoodSpec == [key |-> "k", valid |-> TRUE, granted |-> {}, required_for |-> {}]
BadSpec == [key |-> "k", valid |-> FALSE, granted |-> {}, required_for |-> {}]
MCSpecs == {GoodSpec, BadSpec}

MCClients == {"driver", "watcher"}

\* Tasks that are driven past clients in the way, a log that is read while it
\* grows, and two daemons that compete.
Driving ==
  [daemons |-> {1},
   methods |-> [driver |-> {"submit", "get_task", "start", "succeed", "fail", "cancel"},
                watcher |-> {"silent", "other"}]]
Watching ==
  [daemons |-> {1},
   methods |-> [driver |-> {"submit", "start", "cancel"},
                watcher |-> {"events"}]]
Rivals ==
  [daemons |-> {1, 2},
   methods |-> [driver |-> {"submit", "get_task", "start"}, watcher |-> {"other"}]]
MCScenarios == {Driving, Watching, Rivals}

=============================================================================
