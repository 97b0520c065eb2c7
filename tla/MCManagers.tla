----------------------------- MODULE MCManagers -----------------------------
EXTENDS Managers

\* Policies of AppArmor: one profile, two, another one with an unused asset, and an
\* entry whose second profile is missing.
MCAppArmorPolicies ==
  { [files |-> {"f"}, assets |-> {"f"}, ver |-> 1], [files |-> {"f", "g"}, assets |-> {"f", "g"}, ver |-> 2],
    [files |-> {"g"}, assets |-> {"f", "g"}, ver |-> 2], [files |-> {"f", "g"}, assets |-> {"g"}, ver |-> 1] }

\* Policies of dconf: empty, a boolean to normalise, the same key disabled with
\* a list to quote, a bad integer.
Key(k, m, v, d) == [key |-> k, meta |-> m, value |-> v, disabled |-> d]
MCDconfPolicies ==
  { <<>>, <<Key("a", "b", "yes", FALSE)>>, <<Key("a", "b", "yes", TRUE), Key("c", "as", "v", FALSE)>>,
    <<Key("a", "b", "on", FALSE), Key("c", "i", "x", FALSE)>> }

\* Mounts: none, a share, the same with Kerberos and another one, the same location
\* under two tags and two protocols, a malformed one.
Loc(p, s, k, o) == [proto |-> p, share |-> s, krb |-> k, ok |-> o]
MCMountPolicies ==
  { <<>>, <<Loc("smb", "a", FALSE, TRUE)>>,
    <<Loc("smb", "a", TRUE, TRUE), Loc("nfs", "b", FALSE, TRUE)>>,
    <<Loc("ftp", "b", FALSE, TRUE), Loc("smb", "a", FALSE, TRUE), Loc("smb", "a", TRUE, TRUE),
      Loc("cifs", "a", TRUE, TRUE)>>,
    <<Loc("nfs", "a", FALSE, FALSE)>> }

\* Privileges: local admins allowed or not, client admins set, empty, disabled or absent.
Admin == [user |-> "u", form |-> "domain\\user"]
Blank == [user |-> "", form |-> "user@domain"]
Group(g) == [user |-> g, form |-> "group"]
MCPrivilegePolicies ==
  [local : {"none", "enabled", "disabled"},
   clients : {[state |-> "none", value |-> <<>>], [state |-> "enabled", value |-> <<Admin, Blank>>],
              [state |-> "enabled", value |-> <<Blank>>], [state |-> "disabled", value |-> <<Admin>>]}]
MCSystemRules ==
  { [name |-> 49, dir |-> 1, ids |-> {Group("sudo")}], [name |-> 50, dir |-> 0, ids |-> {Group("wheel")}],
    [name |-> 10, dir |-> 0, ids |-> NoReturn] }

\* Certificates: entry absent, not a number, cleared, enrolling, disabled.
MCCertificatePolicies == [value : {NoEntry, BadValue, 0, 1, 32769}, data : BOOLEAN]
=============================================================================
