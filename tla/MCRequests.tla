----------------------------- MODULE MCRequests -----------------------------
EXTENDS Requests, TLC

\* The commands of adsysctl that differ in what they ask of the daemon.
Command(k, m, a, u, f) == [kind |-> k, machine |-> m, all |-> a, user |-> u, bad |-> FALSE, force |-> f]
MCCommands ==
  {Command(k, m, a, u, FALSE) : k \in {"update", "purge"}, m \in BOOLEAN, a \in BOOLEAN, u \in {"", "u"}}
  \cup {Command("applied", m, FALSE, u, FALSE) : m \in BOOLEAN, u \in {"", "h"}}
  \cup {Command("stop", FALSE, FALSE, "", f) : f \in BOOLEAN}
  \cup {Command("info", FALSE, FALSE, "", FALSE)}
  \cup {Command("update", FALSE, FALSE, "u@d", FALSE)}
  \cup {[Command("update", FALSE, FALSE, "u", FALSE) EXCEPT !.bad = TRUE]}

\* h is a local account and h@d another; u is the short name of u@d.
MCUid == ("root" :> 0) @@ ("h" :> 1) @@ ("h@d" :> 2) @@ ("u" :> 3) @@ ("u@d" :> 3)
MCWithDomain == ("root" :> "root@d") @@ ("h" :> "h@d") @@ ("u" :> "u@d")
=============================================================================
