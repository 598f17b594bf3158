------------------------------- MODULE MCCollectors -------------------------------
(***************************************************************************)
(* Small instances of Collectors.                                           *)
(***************************************************************************)
EXTENDS Collectors, TLC

CONSTANTS sv1, sv2, m1, m2

\* A PluginSquad board, two generic panels that read `since` in either way, and a
\* panel of this code.
Remote(type, inclusive, offers) == [type |-> type, inclusive |-> inclusive, offers |-> offers]
MCAdapters ==
    {Remote("plugin_squad", FALSE, {"board"}), Remote("generic", FALSE, {"players"}),
     Remote("generic", TRUE, {"events"}), Remote("generic", FALSE, {"events"}),
     Remote("self", FALSE, {"board"})}

MCServers == <<sv1, sv2>>
MCMessages == {<<m1, m2>>, <<m1, NotText>>, <<>>}

Scenario(threads, a, on, ms) == [focus |-> threads, adapter |-> a, enabled |-> on, messages |-> ms]
Someone == CHOOSE a \in MCAdapters : TRUE
MCScenarios ==
    {Scenario({"poller"}, a, FALSE, <<>>) : a \in MCAdapters}
    \cup {Scenario({"refresh", "checker", "cleanup"}, Someone, FALSE, <<>>)}
    \cup {Scenario({"broadcast"}, Someone, on, ms) : on \in BOOLEAN, ms \in MCMessages}
================================================================================
